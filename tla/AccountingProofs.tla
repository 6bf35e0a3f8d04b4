-------------------------- MODULE AccountingProofs --------------------------
(***************************************************************************)
(* Theorems about Accounting: what is on disk at every moment of a handler *)
(* whose INSERTs nothing groups, for any postings, any chart of accounts   *)
(* and any number of crashes.                                              *)
(***************************************************************************)
EXTENDS Reports, InductionTheorems

-----------------------------------------------------------------------------
(* Rows and sequences of rows *)

SeedRows == {ProjectRow(p) : p \in Projects}
               \cup {AccountRow(p, c) : p \in Owners, c \in Codes}

(* The positions of a row in a sequence, and how many they are *)
PlacesOf(s, x) == {k \in DOMAIN s : s[k] = x}
Count(s, x) == Cardinality(PlacesOf(s, x))

(* Rows of accounts differ in their project or in their code. *)
LEMMA AccountRowIsItsKey ==
    ASSUME NEW p, NEW c, NEW q, NEW d, AccountRow(p, c) = AccountRow(q, d)
    PROVE  p = q /\ c = d
<1>1. /\ AccountRow(p, c).project = p /\ AccountRow(p, c).code = c
      /\ AccountRow(q, d).project = q /\ AccountRow(q, d).code = d
  BY DEF AccountRow
<1> QED  BY <1>1

(* Positions in a sequence are finitely many. *)
LEMMA PlacesAreFinite ==
    ASSUME NEW S, NEW s \in Seq(S), NEW x
    PROVE  IsFiniteSet(PlacesOf(s, x)) /\ Count(s, x) \in Nat
<1>1. Len(s) \in Int /\ DOMAIN s = 1..Len(s)
  BY LenProperties
<1>2. IsFiniteSet(DOMAIN s)
  BY <1>1, FS_Interval
<1>3. IsFiniteSet(PlacesOf(s, x))
  BY <1>2, FS_Subset DEF PlacesOf
<1> QED  BY <1>3, FS_CardinalityType DEF Count

(* A row that is inserted is one fewer to insert. *)
LEMMA CountOfTail ==
    ASSUME NEW S, NEW s \in Seq(S), s # <<>>, NEW x
    PROVE  Count(s, x) = Count(Tail(s), x) + (IF Head(s) = x THEN 1 ELSE 0)
<1> DEFINE t == Tail(s)
           A == PlacesOf(s, x)
           B == PlacesOf(t, x)
           f == [k \in B |-> k + 1]
<1>1. /\ Len(s) \in Nat /\ Len(s) >= 1 /\ DOMAIN s = 1..Len(s) /\ Head(s) = s[1]
      /\ t \in Seq(S) /\ DOMAIN t = 1..(Len(s) - 1)
      /\ \A k \in 1..(Len(s) - 1) : t[k] = s[k + 1]
  <2>1. /\ Len(s) \in Nat \ {0} /\ DOMAIN s = 1..Len(s)
        /\ t \in Seq(S) /\ Len(t) = Len(s) - 1
        /\ \A k \in 1..Len(t) : t[k] = s[k + 1]
    BY EmptySeq, HeadTailProperties, LenProperties
  <2>2. DOMAIN t = 1..Len(t) /\ Head(s) = s[1]
    BY <2>1, LenProperties
  <2> QED  BY <2>1, <2>2
<1>2. IsFiniteSet(A) /\ IsFiniteSet(B) /\ Count(s, x) = Cardinality(A) /\ Count(t, x) = Cardinality(B)
  BY <1>1, PlacesAreFinite DEF Count
<1>3. f \in Bijection(B, A \ {1})
  <2>1. \A k \in B : k \in Int /\ k + 1 \in A \ {1}
    BY <1>1 DEF PlacesOf
  <2>2. \A k \in A \ {1} : k - 1 \in B /\ (k - 1) + 1 = k
    BY <1>1 DEF PlacesOf
  <2> HIDE DEF A, B
  <2>3. f \in [B -> A \ {1}] /\ \A k, l \in B : f[k] = f[l] => k = l
    BY <2>1
  <2>4. \A k \in A \ {1} : \E l \in B : f[l] = k
    BY <2>2
  <2>5. f \in Injection(B, A \ {1})
    BY <2>3 DEF Injection, IsInjective
  <2>6. f \in Surjection(B, A \ {1})
    BY <2>3, <2>4 DEF Surjection
  <2> QED  BY <2>5, <2>6 DEF Bijection
<1>4. Cardinality(A \ {1}) = Cardinality(B)
  BY <1>2, <1>3, FS_Bijection DEF ExistsBijection
<1>5. Cardinality(A \ {1}) = IF 1 \in A THEN Cardinality(A) - 1 ELSE Cardinality(A)
  BY <1>2, FS_RemoveElement
<1>6. 1 \in A <=> Head(s) = x
  BY <1>1 DEF PlacesOf
<1>7. Cardinality(A) \in Nat /\ Cardinality(B) \in Nat
  BY <1>2, FS_CardinalityType
<1> HIDE DEF A, B, t
<1> QED  BY <1>2, <1>4, <1>5, <1>6, <1>7 DEF t

(* The rows for a sequence of codes. *)
LEMMA RowsOfCodes ==
    ASSUME NEW p \in Owners, NEW codes \in Seq(Codes)
    PROVE  /\ AccountRows(p, codes) \in Seq(SeedRows)
           /\ \A q, c : PlacesOf(AccountRows(p, codes), AccountRow(q, c))
                            = IF q = p THEN {k \in DOMAIN codes : codes[k] = c} ELSE {}
<1> DEFINE rows == AccountRows(p, codes)
<1>1. Len(codes) \in Nat /\ DOMAIN codes = 1..Len(codes) /\ \A k \in DOMAIN codes : codes[k] \in Codes
  BY LenProperties, ElementOfSeq
<1>2. rows = [k \in 1..Len(codes) |-> AccountRow(p, codes[k])]
  BY <1>1 DEF AccountRows
<1>3. rows \in [1..Len(codes) -> SeedRows]
  BY <1>1, <1>2 DEF SeedRows
<1>4. rows \in Seq(SeedRows)
  BY <1>1, <1>3, IntervalSeq
<1>5. ASSUME NEW q, NEW c
      PROVE  PlacesOf(rows, AccountRow(q, c))
                 = IF q = p THEN {k \in DOMAIN codes : codes[k] = c} ELSE {}
  <2>1. \A k \in 1..Len(codes) : rows[k] = AccountRow(p, codes[k])
    BY <1>2
  <2>2. \A k \in 1..Len(codes) : rows[k] = AccountRow(q, c) <=> (q = p /\ codes[k] = c)
    BY <2>1, AccountRowIsItsKey
  <2>3. DOMAIN rows = 1..Len(codes)
    BY <1>2
  <2> HIDE DEF rows
  <2> QED  BY <1>1, <2>2, <2>3 DEF PlacesOf
<1> QED  BY <1>4, <1>5
-----------------------------------------------------------------------------
(* Types *)

AllLines == UNION {Range(ls) : ls \in Postings}

(* The rows postJournal inserts *)
PostRows == {EntryRow(e, p) : e \in DOMAIN posted, p \in Projects}
               \cup {LineRow(e, p, k, l) : e \in DOMAIN posted, p \in Projects,
                                           k \in Nat, l \in AllLines}

(* The global chart has finitely many rows, as its template needs. *)
HandlerInv ==
    /\ IsFiniteSet(GlobalRows)
    /\ pc = "idle" => todo = <<>>
    /\ pc # "idle" => request \in Requests
    /\ pc = "seed" => todo \in Seq(SeedRows)
    /\ pc = "write" => todo \in Seq(PostRows) /\ Len(posted) \in DOMAIN posted
    /\ pc = "seed" /\ request.op = "postJournal" => Len(posted) < MaxEntries

TypeInv == TypeOK /\ HandlerInv

(* Codes of defaults and of postings are codes. *)
LEMMA CodesInUse ==
    /\ DefaultCodes \in Seq(Codes)
    /\ Defaults \subseteq Codes
    /\ \A l \in AllLines : l.code \in Codes
    /\ \A ls \in Postings : ls \in Seq(AllLines)
<1>1. Defaults \subseteq Codes
  BY DEF Codes
<1>2. DefaultCodes \in Seq(Codes)
  BY <1>1, ChartAssumption, SeqMonotonic
<1>3. \A l \in AllLines : l.code \in Codes
  BY PostingAssumption DEF AllLines, Range
<1>4. ASSUME NEW ls \in Postings
      PROVE  ls \in Seq(AllLines)
  <2>1. ls \in Seq(Range(ls)) /\ Range(ls) \subseteq AllLines
    BY PostingAssumption DEF AllLines
  <2> QED  BY <2>1, SeqMonotonic
<1> QED  BY <1>1, <1>2, <1>3, <1>4

(* What ensureAccountsForProject inserts for a project: nothing when it has *)
(* accounts, else a copy of the template or each default once.              *)
LEMMA SeedsShape ==
    ASSUME accounts \in [Owners -> [Codes -> Nat]], IsFiniteSet(GlobalRows),
           NEW p \in Owners, NEW s \in Seeds(p)
    PROVE  /\ s \in Seq(SeedRows)
           /\ \A q \in Owners : \A c : q # p => Count(s, AccountRow(q, c)) = 0
           /\ HasAccounts(p) => s = <<>>
           /\ \/ HasAccounts(p)
              \/ \A c \in Codes : Count(s, AccountRow(p, c)) = accounts[Global][c]
              \/ \A c \in Codes : Count(s, AccountRow(p, c)) = IF c \in Defaults THEN 1 ELSE 0
<1>1. CASE HasAccounts(p)
  <2>1. s = <<>> /\ s \in Seq(SeedRows)
    BY <1>1, EmptySeq DEF Seeds
  <2>2. \A x : PlacesOf(s, x) = {}
    BY <2>1 DEF PlacesOf
  <2> QED  BY <1>1, <2>1, <2>2, FS_EmptySet DEF Count
<1>2. ASSUME NEW codes \in Seq(Codes), s = AccountRows(p, codes)
      PROVE  /\ s \in Seq(SeedRows)
             /\ \A q \in Owners : \A c : q # p => Count(s, AccountRow(q, c)) = 0
             /\ \A c : Count(s, AccountRow(p, c)) = Cardinality({k \in DOMAIN codes : codes[k] = c})
  <2>1. /\ s \in Seq(SeedRows)
        /\ \A q, c : PlacesOf(s, AccountRow(q, c))
                        = IF q = p THEN {k \in DOMAIN codes : codes[k] = c} ELSE {}
    BY <1>2, RowsOfCodes
  <2>2. \A q, c : q # p => Count(s, AccountRow(q, c)) = 0
    BY <2>1, FS_EmptySet DEF Count
  <2>3. \A c : Count(s, AccountRow(p, c)) = Cardinality({k \in DOMAIN codes : codes[k] = c})
    BY <2>1 DEF Count
  <2> QED  BY <2>1, <2>2, <2>3
<1>3. CASE ~HasAccounts(p) /\ HasAccounts(Global)
  <2>1. PICK t \in GlobalTemplates : s = AccountRows(p, t)
    BY <1>3 DEF Seeds
  <2>2. /\ t \in [1..Cardinality(GlobalRows) -> Codes]
        /\ \A c \in Codes : Cardinality({k \in DOMAIN t : t[k] = c}) = accounts[Global][c]
    BY DEF GlobalTemplates
  <2>3. t \in Seq(Codes)
    BY <2>2, FS_CardinalityType, IntervalSeq
  <2> QED  BY <1>2, <1>3, <2>1, <2>2, <2>3
<1>4. CASE ~HasAccounts(p) /\ ~HasAccounts(Global)
  <2>1. s = AccountRows(p, DefaultCodes)
    BY <1>4 DEF Seeds
  <2>2. ASSUME NEW c \in Codes
        PROVE  Cardinality({k \in DOMAIN DefaultCodes : DefaultCodes[k] = c})
                   = IF c \in Defaults THEN 1 ELSE 0
    <3>1. CASE c \in Defaults
      <4>1. PICK k \in DOMAIN DefaultCodes : DefaultCodes[k] = c
        BY <3>1 DEF Defaults, Range
      <4>2. {l \in DOMAIN DefaultCodes : DefaultCodes[l] = c} = {k}
        BY <4>1, ChartAssumption
      <4> QED  BY <3>1, <4>2, FS_Singleton
    <3>2. CASE c \notin Defaults
      <4>1. {l \in DOMAIN DefaultCodes : DefaultCodes[l] = c} = {}
        BY <3>2 DEF Defaults, Range
      <4> QED  BY <3>2, <4>1, FS_EmptySet
    <3> QED  BY <3>1, <3>2
  <2> QED  BY <1>2, <1>4, <2>1, <2>2, CodesInUse
<1> QED  BY <1>1, <1>3, <1>4

(* createProject inserts its own row before those of the chart. *)
LEMMA ProjectRowFirst ==
    ASSUME NEW p \in Projects, NEW s \in Seq(SeedRows)
    PROVE  /\ <<ProjectRow(p)>> \o s \in Seq(SeedRows)
           /\ \A q, c : Count(<<ProjectRow(p)>> \o s, AccountRow(q, c)) = Count(s, AccountRow(q, c))
<1> DEFINE a == ProjectRow(p)
           t == <<a>> \o s
<1>1. a \in SeedRows /\ \A q, c : a # AccountRow(q, c)
  BY DEF SeedRows, ProjectRow, AccountRow
<1> HIDE DEF a
<1>2. <<a>> \in Seq(SeedRows) /\ Len(<<a>>) = 1 /\ <<a>>[1] = a
  BY <1>1
<1>3. /\ t \in Seq(SeedRows) /\ Len(t) = 1 + Len(s) /\ Len(s) \in Nat
      /\ \A k \in 1..(1 + Len(s)) : t[k] = IF k <= 1 THEN a ELSE s[k - 1]
  <2>1. /\ t \in Seq(SeedRows) /\ Len(t) = Len(<<a>>) + Len(s)
        /\ \A k \in 1..(Len(<<a>>) + Len(s)) :
              t[k] = IF k <= Len(<<a>>) THEN <<a>>[k] ELSE s[k - Len(<<a>>)]
    BY <1>2, ConcatProperties
  <2>2. Len(s) \in Nat
    BY LenProperties
  <2> QED  BY <1>2, <2>1, <2>2
<1> HIDE DEF t
<1>4. t # <<>> /\ Head(t) = a /\ Tail(t) = s
  <2>1. t # <<>>
    BY <1>3, EmptySeq
  <2>2. /\ Tail(t) \in Seq(SeedRows) /\ Len(Tail(t)) = Len(t) - 1
        /\ \A k \in 1..Len(Tail(t)) : Tail(t)[k] = t[k + 1]
    BY <1>3, <2>1, HeadTailProperties
  <2>3. \A k \in 1..Len(Tail(t)) : Tail(t)[k] = s[k]
    BY <1>3, <2>2
  <2>4. Tail(t) = s
    BY <1>3, <2>2, <2>3, SeqEqual
  <2>5. Head(t) = t[1]
    BY <1>3, <2>1
  <2>6. t[1] = a
    BY <1>3
  <2> QED  BY <2>1, <2>4, <2>5, <2>6
<1>5. ASSUME NEW q, NEW c
      PROVE  Count(t, AccountRow(q, c)) = Count(s, AccountRow(q, c))
  <2>1. Count(s, AccountRow(q, c)) \in Nat
    BY PlacesAreFinite
  <2>2. Count(t, AccountRow(q, c)) = Count(s, AccountRow(q, c)) + 0
    <3>1. t \in Seq(SeedRows)
      BY <1>3
    <3>2. Count(t, AccountRow(q, c))
            = Count(Tail(t), AccountRow(q, c)) + (IF Head(t) = AccountRow(q, c) THEN 1 ELSE 0)
      BY <1>4, <3>1, CountOfTail
    <3>3. a # AccountRow(q, c)
      BY <1>1
    <3> HIDE DEF a
    <3> QED  BY <1>4, <3>2, <3>3
  <2> QED  BY <2>1, <2>2
<1> QED  BY <1>3, <1>5 DEF t, a
(* The rows of postJournal, in order: the header, then line after line. *)
LEMMA JournalRowsShape ==
    ASSUME NEW e, NEW p, NEW ls, ls \in Seq(Range(ls))
    PROVE  /\ Len(ls) \in Nat /\ DOMAIN ls = 1..Len(ls)
           /\ Len(JournalRows(e, p, ls)) = Len(ls) + 1
           /\ DOMAIN JournalRows(e, p, ls) = 1..(Len(ls) + 1)
           /\ JournalRows(e, p, ls) \in Seq(Range(JournalRows(e, p, ls)))
           /\ JournalRows(e, p, ls)[1] = EntryRow(e, p)
           /\ \A k \in 1..Len(ls) : JournalRows(e, p, ls)[k + 1] = LineRow(e, p, k, ls[k])
<1> DEFINE a    == EntryRow(e, p)
           body == [k \in DOMAIN ls |-> LineRow(e, p, k, ls[k])]
           S    == {a} \cup Range(body)
           rows == <<a>> \o body
<1>1. Len(ls) \in Nat /\ DOMAIN ls = 1..Len(ls)
  BY LenProperties
<1>2. body \in [1..Len(ls) -> S] /\ \A k \in 1..Len(ls) : body[k] = LineRow(e, p, k, ls[k])
  BY <1>1 DEF Range
<1>3. rows = JournalRows(e, p, ls)
  BY DEF JournalRows
<1>4. a \in S
  OBVIOUS
<1> HIDE DEF a, body, S
<1>5. body \in Seq(S) /\ Len(body) = Len(ls)
  BY <1>1, <1>2, IntervalSeq
<1>6. <<a>> \in Seq(S) /\ Len(<<a>>) = 1 /\ <<a>>[1] = a
  BY <1>4
<1>7. /\ rows \in Seq(S) /\ Len(rows) = Len(<<a>>) + Len(body)
      /\ \A k \in 1..(Len(<<a>>) + Len(body)) :
            rows[k] = IF k <= Len(<<a>>) THEN <<a>>[k] ELSE body[k - Len(<<a>>)]
  BY <1>5, <1>6, ConcatProperties
<1> HIDE DEF rows
<1>8. Len(rows) = Len(ls) + 1 /\ rows[1] = a /\ \A k \in 1..Len(ls) : rows[k + 1] = body[k]
  BY <1>1, <1>5, <1>6, <1>7
<1>9. DOMAIN rows = 1..(Len(ls) + 1) /\ rows \in Seq(Range(rows))
  BY <1>7, <1>8, LenProperties, SeqOfRange
<1> QED  BY <1>1, <1>2, <1>3, <1>8, <1>9 DEF a

(* The rows a handler starts with. *)
LEMMA BeginRows ==
    ASSUME TypeInv, NEW r \in Requests, Begin(r)
    PROVE  todo' \in Seq(SeedRows)
<1>1. CASE r.op = "createProject" /\ \E s \in Seeds(r.project) : todo' = <<ProjectRow(r.project)>> \o s
  <2>1. r.project \in Projects /\ r.project \in Owners
    BY <1>1 DEF Requests, Owners
  <2>2. PICK s \in Seeds(r.project) : todo' = <<ProjectRow(r.project)>> \o s
    BY <1>1
  <2>3. s \in Seq(SeedRows)
    BY <2>1, SeedsShape DEF TypeInv, TypeOK, HandlerInv
  <2> QED  BY <2>1, <2>2, <2>3, ProjectRowFirst
<1>2. CASE todo' = IF HasAccounts(Global) THEN <<>> ELSE AccountRows(Global, DefaultCodes)
  BY <1>2, EmptySeq, RowsOfCodes, CodesInUse DEF Owners
<1>3. CASE r.op \in {"listAccounts", "postJournal"} /\ todo' \in Seeds(r.project)
  <2>1. r.project \in Owners
    BY <1>3 DEF Requests, Owners
  <2> QED  BY <1>3, <2>1, SeedsShape DEF TypeInv, TypeOK, HandlerInv
<1>4. CASE r.op = "addAccount" /\ todo' = <<AccountRow(r.project, r.code)>>
  <2>1. AccountRow(r.project, r.code) \in SeedRows
    BY <1>4 DEF Requests, SeedRows, Codes
  <2> QED  BY <1>4, <2>1
<1> QED  BY <1>1, <1>2, <1>3, <1>4 DEF Begin

(* What one INSERT does, by the table it goes to. *)
InsertsProject(p) ==
    /\ Head(todo) = ProjectRow(p) /\ pc = "seed"
    /\ projects' = projects \cup {p}
    /\ UNCHANGED <<accounts, entries, lines, charts>>

InsertsAccount(p, c) ==
    /\ Head(todo) = AccountRow(p, c) /\ pc = "seed"
    /\ accounts' = [accounts EXCEPT ![p][c] = @ + 1]
    /\ IF request.op = "addAccount"
       THEN /\ added' = [added EXCEPT ![p][c] = @ + 1]
            /\ handmade' = IF HasAccounts(p) THEN handmade ELSE handmade \cup {p}
       ELSE UNCHANGED charts
    /\ UNCHANGED <<projects, entries, lines>>

InsertsEntry(e, p) ==
    /\ Head(todo) = EntryRow(e, p) /\ pc = "write"
    /\ entries' = [f \in DOMAIN entries \cup {e} |-> IF f = e THEN p ELSE entries[f]]
    /\ UNCHANGED <<projects, accounts, lines, charts>>

InsertsLine(e, p, k, l) ==
    /\ Head(todo) = LineRow(e, p, k, l) /\ pc = "write"
    /\ lines' = lines \cup {LineRow(e, p, k, l).line}
    /\ UNCHANGED <<projects, accounts, entries, charts>>

LEMMA InsertKinds ==
    ASSUME TypeInv, Insert
    PROVE  /\ todo # <<>> /\ todo' = Tail(todo)
           /\ UNCHANGED <<pc, request, posted, acked, crashes>>
           /\ todo \in Seq(SeedRows) \/ todo \in Seq(PostRows)
           /\ \/ \E p \in Projects : InsertsProject(p)
              \/ \E p \in Owners, c \in Codes : InsertsAccount(p, c)
              \/ \E e \in DOMAIN posted, p \in Projects : InsertsEntry(e, p)
              \/ \E e \in DOMAIN posted, p \in Projects, k \in Nat, l \in AllLines :
                    InsertsLine(e, p, k, l)
<1> DEFINE row == Head(todo)
<1>1. /\ todo # <<>> /\ todo' = Tail(todo) /\ pc \in {"seed", "write"}
      /\ UNCHANGED <<pc, request, posted, acked, crashes>>
  BY DEF Insert, TypeInv, TypeOK, HandlerInv
<1>2. CASE pc = "seed"
  <2>1. todo \in Seq(SeedRows) /\ row \in SeedRows
    BY <1>1, <1>2, HeadTailProperties DEF TypeInv, HandlerInv
  <2> HIDE DEF row
  <2>2. \/ \E p \in Projects : row = ProjectRow(p)
        \/ \E p \in Owners, c \in Codes : row = AccountRow(p, c)
    BY <2>1 DEF SeedRows
  <2>3. ASSUME NEW p \in Projects, row = ProjectRow(p)
        PROVE  InsertsProject(p)
    <3>1. row.table = "projects" /\ row.project = p
      BY <2>3 DEF ProjectRow
    <3> QED  BY <1>2, <2>3, <3>1 DEF Insert, InsertsProject, row
  <2>4. ASSUME NEW p \in Owners, NEW c \in Codes, row = AccountRow(p, c)
        PROVE  InsertsAccount(p, c)
    <3>1. row.table = "accounts" /\ row.project = p /\ row.code = c
      BY <2>4 DEF AccountRow
    <3> QED  BY <1>2, <2>4, <3>1 DEF Insert, InsertsAccount, row
  <2> QED  BY <1>1, <2>1, <2>2, <2>3, <2>4
<1>3. CASE pc = "write"
  <2>1. todo \in Seq(PostRows) /\ row \in PostRows
    BY <1>1, <1>3, HeadTailProperties DEF TypeInv, HandlerInv
  <2> HIDE DEF row
  <2>2. \/ \E e \in DOMAIN posted, p \in Projects : row = EntryRow(e, p)
        \/ \E e \in DOMAIN posted, p \in Projects, k \in Nat, l \in AllLines :
              row = LineRow(e, p, k, l)
    BY <2>1 DEF PostRows
  <2>3. ASSUME NEW e \in DOMAIN posted, NEW p \in Projects, row = EntryRow(e, p)
        PROVE  InsertsEntry(e, p)
    <3>1. row.table = "journal_entries" /\ row.entry = e /\ row.project = p
      BY <2>3 DEF EntryRow
    <3> QED  BY <1>3, <2>3, <3>1 DEF Insert, InsertsEntry, row
  <2>4. ASSUME NEW e \in DOMAIN posted, NEW p \in Projects, NEW k \in Nat, NEW l \in AllLines,
               row = LineRow(e, p, k, l)
        PROVE  InsertsLine(e, p, k, l)
    <3>1. row.table = "journal_lines" /\ row.line = LineRow(e, p, k, l).line
      BY <2>4 DEF LineRow
    <3> QED  BY <1>3, <2>4, <3>1 DEF Insert, InsertsLine, row
  <2> QED  BY <1>1, <2>1, <2>2, <2>3, <2>4
<1> QED  BY <1>1, <1>2, <1>3
-----------------------------------------------------------------------------
(* One more account is one more row, and one more global row at most. *)
LEMMA AccountIsOneRow ==
    ASSUME TypeInv, NEW p \in Owners, NEW c \in Codes, InsertsAccount(p, c)
    PROVE  /\ accounts' \in [Owners -> [Codes -> Nat]]
           /\ \A q \in Owners : \A d \in Codes :
                 accounts'[q][d] = accounts[q][d] + (IF q = p /\ d = c THEN 1 ELSE 0)
           /\ IsFiniteSet(GlobalRows')
<1>1. accounts \in [Owners -> [Codes -> Nat]]
  BY DEF TypeInv, TypeOK
<1>2. accounts' = [accounts EXCEPT ![p][c] = @ + 1]
  BY DEF InsertsAccount
<1>3. /\ accounts' \in [Owners -> [Codes -> Nat]]
      /\ \A q \in Owners : \A d \in Codes :
            accounts'[q][d] = accounts[q][d] + (IF q = p /\ d = c THEN 1 ELSE 0)
  BY <1>1, <1>2
<1>4. IsFiniteSet(GlobalRows')
  <2> DEFINE n == accounts[Global][c]
  <2>1. Global \in Owners /\ n \in Nat
    BY <1>1 DEF Owners
  <2>2. \A d \in Codes : accounts[Global][d] \in Nat
    BY <1>1, <2>1
  <2>3. CASE p = Global
    <3>1. \A d \in Codes : accounts'[Global][d] = IF d = c THEN n + 1 ELSE accounts[Global][d]
      BY <1>3, <2>1, <2>2, <2>3
    <3>2. 1..(n + 1) = (1..n) \cup {n + 1}
      BY <2>1
    <3>3. ASSUME NEW d \in Codes
          PROVE  {d} \X (1..accounts'[Global][d])
                    = ({d} \X (1..accounts[Global][d])) \cup (IF d = c THEN {<<c, n + 1>>} ELSE {})
      BY <3>1, <3>2
    <3> HIDE DEF n
    <3>4. GlobalRows' = UNION {{d} \X (1..accounts'[Global][d]) : d \in Codes}
      BY DEF GlobalRows
    <3>5. GlobalRows' = GlobalRows \cup {<<c, n + 1>>}
      <4>1. ASSUME NEW x \in GlobalRows'
            PROVE  x \in GlobalRows \cup {<<c, n + 1>>}
        <5>1. PICK d \in Codes : x \in {d} \X (1..accounts'[Global][d])
          BY <3>4
        <5>2. x \in {d} \X (1..accounts[Global][d]) \/ (d = c /\ x = <<c, n + 1>>)
          BY <3>3, <5>1
        <5> QED  BY <5>2 DEF GlobalRows
      <4>2. ASSUME NEW x \in GlobalRows
            PROVE  x \in GlobalRows'
        <5>1. PICK d \in Codes : x \in {d} \X (1..accounts[Global][d])
          BY DEF GlobalRows
        <5>2. x \in {d} \X (1..accounts'[Global][d])
          BY <3>3, <5>1
        <5> QED  BY <3>4, <5>2
      <4>3. <<c, n + 1>> \in GlobalRows'
        <5>1. <<c, n + 1>> \in {c} \X (1..accounts'[Global][c])
          BY <3>3
        <5> QED  BY <3>4, <5>1
      <4> QED  BY <4>1, <4>2, <4>3
    <3> QED  BY <3>5, FS_AddElement DEF TypeInv, HandlerInv
  <2>4. CASE p # Global
    <3>1. \A d \in Codes : accounts'[Global][d] = accounts[Global][d]
      BY <1>3, <2>1, <2>2, <2>4
    <3>2. GlobalRows' = GlobalRows
      BY <3>1 DEF GlobalRows
    <3> QED  BY <3>2 DEF TypeInv, HandlerInv
  <2> QED  BY <2>3, <2>4
<1> QED  BY <1>3, <1>4

(* What addAccount inserted is counted, row by row. *)
LEMMA AddedIsOneRow ==
    ASSUME TypeInv, NEW p \in Owners, NEW c \in Codes, InsertsAccount(p, c)
    PROVE  /\ added' \in [Owners -> [Codes -> Nat]] /\ handmade' \subseteq Owners
           /\ \A q \in Owners : \A d \in Codes :
                 added'[q][d] = added[q][d]
                     + (IF request.op = "addAccount" /\ q = p /\ d = c THEN 1 ELSE 0)
<1>1. added \in [Owners -> [Codes -> Nat]] /\ handmade \subseteq Owners
  BY DEF TypeInv, TypeOK
<1>2. CASE request.op = "addAccount"
  <2>1. added' = [added EXCEPT ![p][c] = @ + 1] /\ handmade' \subseteq handmade \cup {p}
    BY <1>2 DEF InsertsAccount
  <2> QED  BY <1>1, <1>2, <2>1
<1>3. CASE request.op # "addAccount"
  <2>1. added' = added /\ handmade' = handmade
    BY <1>3 DEF InsertsAccount, charts
  <2>2. \A q \in Owners : \A d \in Codes : added[q][d] \in Nat
    BY <1>1
  <2> QED  BY <1>1, <1>3, <2>1, <2>2
<1> QED  BY <1>2, <1>3

LEMMA InitTypes == Init => TypeInv
<1> SUFFICES ASSUME Init
             PROVE  TypeInv
  OBVIOUS
<1> USE DEF Init
<1>1. accounts \in [Owners -> [Codes -> Nat]]
  OBVIOUS
<1>2. TypeOK
  <2>1. posted \in Seq(Postings) /\ Len(posted) = 0
    BY EmptySeq
  <2>2. DOMAIN entries = {}
    OBVIOUS
  <2> QED  BY <1>1, <2>1, <2>2, BoundAssumption DEF TypeOK
<1>3. GlobalRows = {}
  <2>1. \A c \in Codes : accounts[Global][c] = 0
    BY DEF Owners
  <2>2. 1..0 = {}
    OBVIOUS
  <2> QED  BY <2>1, <2>2 DEF GlobalRows
<1> QED  BY <1>2, <1>3, FS_EmptySet DEF TypeInv, HandlerInv

LEMMA BeginTypes ==
    ASSUME TypeInv, NEW r \in Requests, Begin(r)
    PROVE  TypeInv'
<1>1. todo' \in Seq(SeedRows)
  BY BeginRows
<1>2. /\ UNCHANGED <<projects, accounts, entries, lines, added, handmade, posted, acked, crashes>>
      /\ pc' = "seed" /\ request' = r
  BY DEF Begin, tables, charts
<1>3. r.op = "postJournal" => Len(posted) < MaxEntries
  BY DEF Begin
<1>4. TypeOK'
  BY <1>2 DEF TypeInv, TypeOK
<1>5. HandlerInv'
  BY <1>1, <1>2, <1>3 DEF TypeInv, HandlerInv, GlobalRows
<1> QED  BY <1>4, <1>5 DEF TypeInv

LEMMA InsertTypes ==
    ASSUME TypeInv, Insert
    PROVE  TypeInv'
<1>1. /\ todo # <<>> /\ todo' = Tail(todo)
      /\ UNCHANGED <<pc, request, posted, acked, crashes>>
  BY InsertKinds
<1>2. /\ pc = "seed" => todo' \in Seq(SeedRows)
      /\ pc = "write" => todo' \in Seq(PostRows)
      /\ pc # "idle"
  BY <1>1, HeadTailProperties DEF TypeInv, HandlerInv
<1>3. SeedRows' = SeedRows /\ PostRows' = PostRows
  BY <1>1 DEF SeedRows, PostRows, ProjectRow, AccountRow, EntryRow, LineRow
<1>4. (pc = "write" => todo' \in Seq(PostRows'))
  BY <1>2, <1>3
<1> SUFFICES TypeOK' /\ IsFiniteSet(GlobalRows')
  BY <1>1, <1>2, <1>4 DEF TypeInv, HandlerInv
<1>5. ASSUME NEW p \in Projects, InsertsProject(p)
      PROVE  TypeOK' /\ IsFiniteSet(GlobalRows')
  BY <1>1, <1>5 DEF TypeInv, TypeOK, HandlerInv, GlobalRows, InsertsProject, charts
<1>6. ASSUME NEW p \in Owners, NEW c \in Codes, InsertsAccount(p, c)
      PROVE  TypeOK' /\ IsFiniteSet(GlobalRows')
  <2>1. accounts' \in [Owners -> [Codes -> Nat]] /\ IsFiniteSet(GlobalRows')
    BY <1>6, AccountIsOneRow
  <2>2. added' \in [Owners -> [Codes -> Nat]] /\ handmade' \subseteq Owners
    BY <1>6, AddedIsOneRow
  <2>3. UNCHANGED <<projects, entries, lines>>
    BY <1>6 DEF InsertsAccount
  <2> QED  BY <1>1, <2>1, <2>2, <2>3 DEF TypeInv, TypeOK
<1>7. ASSUME NEW e \in DOMAIN posted, NEW p \in Projects, InsertsEntry(e, p)
      PROVE  TypeOK' /\ IsFiniteSet(GlobalRows')
  <2>1. DOMAIN entries' \subseteq DOMAIN posted /\ \A f \in DOMAIN entries' : entries'[f] \in Projects
    BY <1>7 DEF TypeInv, TypeOK, InsertsEntry
  <2> QED  BY <1>1, <1>7, <2>1 DEF TypeInv, TypeOK, HandlerInv, GlobalRows, InsertsEntry, charts
<1>8. ASSUME NEW e \in DOMAIN posted, NEW p \in Projects, NEW k \in Nat, NEW l \in AllLines,
             InsertsLine(e, p, k, l)
      PROVE  TypeOK' /\ IsFiniteSet(GlobalRows')
  <2>1. /\ LineRow(e, p, k, l).line.code \in Codes /\ LineRow(e, p, k, l).line.entry = e
        /\ LineRow(e, p, k, l).line.no = k /\ LineRow(e, p, k, l).line.project = p
    BY CodesInUse DEF LineRow
  <2>2. \A m \in lines' : /\ m.entry \in DOMAIN posted /\ m.no \in Nat
                         /\ m.project \in Projects /\ m.code \in Codes
    BY <1>8, <2>1 DEF TypeInv, TypeOK, InsertsLine
  <2> QED  BY <1>1, <1>8, <2>2 DEF TypeInv, TypeOK, HandlerInv, GlobalRows, InsertsLine, charts
<1> QED  BY <1>5, <1>6, <1>7, <1>8, InsertKinds

LEMMA PostTypes ==
    ASSUME TypeInv, Post
    PROVE  /\ TypeInv'
           /\ request.project \in Projects /\ request.lines \in Postings
           /\ Len(posted') = Len(posted) + 1 /\ Len(posted) \in Nat
           /\ DOMAIN posted' = 1..(Len(posted) + 1) /\ DOMAIN posted = 1..Len(posted)
           /\ posted'[Len(posted) + 1] = request.lines
           /\ \A e \in DOMAIN posted : posted'[e] = posted[e]
<1> DEFINE n  == Len(posted) + 1
           ls == request.lines
           p  == request.project
<1>1. /\ pc = "seed" /\ request.op = "postJournal"
      /\ posted' = Append(posted, ls) /\ todo' = JournalRows(n, p, ls)
      /\ pc' = "write"
      /\ UNCHANGED <<projects, accounts, entries, lines, added, handmade, request, acked, crashes>>
  BY DEF Post, tables, charts, NextEntry
<1>2. request \in Requests /\ Len(posted) < MaxEntries /\ posted \in Seq(Postings)
  BY <1>1 DEF TypeInv, TypeOK, HandlerInv
<1>3. p \in Projects /\ ls \in Postings
  BY <1>1, <1>2 DEF Requests
<1>4. /\ posted' \in Seq(Postings) /\ Len(posted') = n
      /\ \A e \in 1..Len(posted) : posted'[e] = posted[e]
      /\ posted'[n] = ls
  BY <1>1, <1>2, <1>3, AppendProperties
<1>5. DOMAIN posted = 1..Len(posted) /\ Len(posted) \in Nat /\ DOMAIN posted' = 1..n
  BY <1>2, <1>4, LenProperties
<1>6. TypeOK'
  <2>1. Len(posted') <= MaxEntries
    BY <1>2, <1>4, <1>5, BoundAssumption
  <2>2. DOMAIN posted \subseteq DOMAIN posted'
    BY <1>5
  <2> QED  BY <1>1, <1>4, <2>1, <2>2 DEF TypeInv, TypeOK
<1>7. JournalRows(n, p, ls) \in Seq(PostRows')
  <2>1. ls \in Seq(Range(ls)) /\ ls \in Seq(AllLines)
    BY <1>3, PostingAssumption, CodesInUse
  <2>2. /\ Len(ls) \in Nat /\ DOMAIN ls = 1..Len(ls)
        /\ DOMAIN JournalRows(n, p, ls) = 1..(Len(ls) + 1)
        /\ JournalRows(n, p, ls) \in Seq(Range(JournalRows(n, p, ls)))
        /\ JournalRows(n, p, ls)[1] = EntryRow(n, p)
        /\ \A k \in 1..Len(ls) : JournalRows(n, p, ls)[k + 1] = LineRow(n, p, k, ls[k])
    BY <2>1, JournalRowsShape
  <2>3. \A k \in 1..Len(ls) : ls[k] \in AllLines
    BY <2>1, ElementOfSeq
  <2>4. PostRows' = {EntryRow(e, q) : e \in DOMAIN posted', q \in Projects}
                       \cup {LineRow(e, q, k, l) : e \in DOMAIN posted', q \in Projects,
                                                   k \in Nat, l \in AllLines}
    BY DEF PostRows, EntryRow, LineRow
  <2>5. n \in DOMAIN posted'
    BY <1>5
  <2>6. EntryRow(n, p) \in PostRows' /\ \A k \in 1..Len(ls) : LineRow(n, p, k, ls[k]) \in PostRows'
    <3>1. EntryRow(n, p) \in PostRows'
      BY <1>3, <2>4, <2>5
    <3>2. ASSUME NEW k \in 1..Len(ls)
          PROVE  LineRow(n, p, k, ls[k]) \in PostRows'
      <4>1. k \in Nat /\ ls[k] \in AllLines
        BY <2>3
      <4> HIDE DEF n, p, ls
      <4> QED  BY <1>3, <2>4, <2>5, <4>1
    <3> QED  BY <3>1, <3>2
  <2>7. ASSUME NEW k \in 1..(Len(ls) + 1)
        PROVE  JournalRows(n, p, ls)[k] \in PostRows'
    <3>1. CASE k = 1
      BY <2>2, <2>6, <3>1
    <3>2. CASE k # 1
      <4>1. k - 1 \in 1..Len(ls) /\ (k - 1) + 1 = k
        BY <2>2, <3>2
      <4> QED  BY <2>2, <2>6, <4>1
    <3> QED  BY <3>1, <3>2
  <2>8. Range(JournalRows(n, p, ls)) \subseteq PostRows'
    BY <2>2, <2>7 DEF Range
  <2> QED  BY <2>2, <2>8, SeqMonotonic
<1>8. GlobalRows' = GlobalRows
  BY <1>1 DEF GlobalRows
<1>9. HandlerInv'
  BY <1>1, <1>2, <1>4, <1>5, <1>7, <1>8 DEF TypeInv, HandlerInv
<1> QED  BY <1>3, <1>4, <1>5, <1>6, <1>9 DEF TypeInv

LEMMA EndTypes ==
    ASSUME TypeInv, EndHandler, UNCHANGED <<tables, charts, posted>>,
           acked' \subseteq DOMAIN posted, crashes' \in 0..MaxCrashes
    PROVE  TypeInv'
<1>1. UNCHANGED <<projects, accounts, entries, lines, added, handmade, posted>>
      /\ pc' = "idle" /\ request' = NoRequest /\ todo' = <<>>
  BY DEF EndHandler, tables, charts
<1>2. GlobalRows' = GlobalRows
  BY <1>1 DEF GlobalRows
<1>3. TypeOK'
  BY <1>1 DEF TypeInv, TypeOK
<1>4. HandlerInv'
  BY <1>1, <1>2 DEF TypeInv, HandlerInv
<1> QED  BY <1>3, <1>4 DEF TypeInv
LEMMA StepTypes ==
    ASSUME TypeInv, [Next]_vars
    PROVE  TypeInv'
<1>1. ASSUME NEW r \in Requests, Begin(r)
      PROVE  TypeInv'
  BY <1>1, BeginTypes
<1>2. CASE Insert
  BY <1>2, InsertTypes
<1>3. CASE Post
  BY <1>3, PostTypes
<1>4. CASE Refuse
  BY <1>4, EndTypes DEF Refuse, TypeInv, TypeOK
<1>5. CASE Reply
  BY <1>5, EndTypes DEF Reply, TypeInv, TypeOK, HandlerInv
<1>6. CASE Crash
  <2>1. crashes' \in 0..MaxCrashes
    BY <1>6, BoundAssumption DEF Crash, TypeInv, TypeOK
  <2> QED  BY <1>6, <2>1, EndTypes DEF Crash, TypeInv, TypeOK
<1>7. CASE UNCHANGED vars
  <2>1. SeedRows' = SeedRows /\ PostRows' = PostRows /\ GlobalRows' = GlobalRows
    BY <1>7 DEF vars, tables, SeedRows, PostRows, GlobalRows, ProjectRow, AccountRow, EntryRow, LineRow
  <2>2. TypeOK'
    BY <1>7 DEF vars, tables, charts, TypeInv, TypeOK
  <2>3. HandlerInv'
    BY <1>7, <2>1 DEF vars, tables, TypeInv, HandlerInv
  <2> QED  BY <2>2, <2>3 DEF TypeInv
<1> QED  BY <1>1, <1>2, <1>3, <1>4, <1>5, <1>6, <1>7 DEF Next

(* The variables have their types whatever the handlers do, and when.       *)
THEOREM AccountingTypes == Spec => []TypeOK
<1>1. Init => TypeInv
  BY InitTypes
<1>2. TypeInv /\ [Next]_vars => TypeInv'
  BY StepTypes
<1>3. TypeInv => TypeOK
  BY DEF TypeInv
<1> QED  BY <1>1, <1>2, <1>3, PTL DEF Spec
-----------------------------------------------------------------------------
(* A journal entry on its way to disk *)

PostedRows == JournalRows(Len(posted), request.project, request.lines)

(* How many of them are on disk *)
Done == Len(request.lines) + 1 - Len(todo)

(* The header of an entry, and its first n lines, and no others *)
IsStored(e, p, n) ==
    /\ e \in DOMAIN entries /\ entries[e] = p
    /\ LinesOf(e) = {LineRow(e, p, k, posted[e][k]).line : k \in 1..n}

(* While postJournal writes, what it inserted and what it still inserts are *)
(* the rows of the entry, and the checks it made still hold.                *)
WriteInv ==
    pc = "write" =>
        /\ posted[Len(posted)] = request.lines /\ Len(posted) \notin acked
        /\ request.project \in Projects /\ request.lines \in Postings
        /\ AccountsExist(request.project, request.lines)
        /\ Done \in Nat
        /\ \A k \in DOMAIN todo : todo[k] = PostedRows[Done + k]
        /\ Done = 0 => LinesOf(Len(posted)) = {}
        /\ Done > 0 => IsStored(Len(posted), request.project, Done - 1)

BooksInv == TypeInv /\ WriteInv /\ AckedIsComplete /\ JoinSeesEveryLine

(* The INSERTs of postJournal: the header, then the next line every time. *)
LEMMA NextRow ==
    ASSUME BooksInv, Insert, pc = "write"
    PROVE  /\ Len(request.lines) \in Nat /\ DOMAIN request.lines = 1..Len(request.lines)
           /\ Done \in 0..Len(request.lines) /\ Done' = Done + 1
           /\ \A k \in DOMAIN todo' : todo'[k] = PostedRows[Done' + k]
           /\ \/ Done = 0 /\ InsertsEntry(Len(posted), request.project)
              \/ /\ Done > 0
                 /\ \E l \in AllLines :
                       /\ l = request.lines[Done]
                       /\ InsertsLine(Len(posted), request.project, Done, l)
<1> DEFINE e  == Len(posted)
           p  == request.project
           ls == request.lines
           d  == Done
<1>1. /\ todo # <<>> /\ todo' = Tail(todo) /\ todo \in Seq(PostRows)
      /\ UNCHANGED <<pc, request, posted, acked, crashes>>
  BY InsertKinds DEF BooksInv, TypeInv, HandlerInv
<1>2. /\ Len(todo) \in Nat \ {0} /\ DOMAIN todo = 1..Len(todo) /\ Head(todo) = todo[1]
      /\ Len(todo') = Len(todo) - 1 /\ DOMAIN todo' = 1..(Len(todo) - 1)
      /\ \A k \in 1..(Len(todo) - 1) : todo'[k] = todo[k + 1]
  <2>1. /\ todo' \in Seq(PostRows) /\ Len(todo') = Len(todo) - 1
        /\ \A k \in 1..Len(todo') : todo'[k] = todo[k + 1]
    BY <1>1, HeadTailProperties
  <2>2. Len(todo) \in Nat \ {0} /\ DOMAIN todo = 1..Len(todo)
    BY <1>1, EmptySeq, LenProperties
  <2>3. DOMAIN todo' = 1..Len(todo')
    BY <2>1, LenProperties
  <2> QED  BY <1>1, <2>1, <2>2, <2>3
<1>3. /\ ls \in Postings /\ p \in Projects /\ d \in Nat
      /\ \A k \in DOMAIN todo : todo[k] = PostedRows[d + k]
  BY DEF BooksInv, WriteInv
<1>4. ls \in Seq(Range(ls)) /\ ls \in Seq(AllLines)
  BY <1>3, PostingAssumption, CodesInUse
<1>5. /\ Len(ls) \in Nat /\ DOMAIN ls = 1..Len(ls)
      /\ PostedRows[1] = EntryRow(e, p)
      /\ \A k \in 1..Len(ls) : PostedRows[k + 1] = LineRow(e, p, k, ls[k])
  BY <1>4, JournalRowsShape DEF PostedRows
<1>6. d = Len(ls) + 1 - Len(todo) /\ Done' = Len(ls) + 1 - Len(todo')
  BY <1>1 DEF Done
<1> HIDE DEF d, e, p, ls
<1>7. d \in 0..Len(ls) /\ Done' = d + 1
  BY <1>2, <1>3, <1>5, <1>6
<1>8. PostedRows' = PostedRows
  BY <1>1 DEF PostedRows, JournalRows, EntryRow, LineRow
<1>9. ASSUME NEW k \in DOMAIN todo'
      PROVE  todo'[k] = PostedRows[Done' + k]
  <2>1. k \in 1..(Len(todo) - 1) /\ k \in Int /\ d \in Int /\ todo'[k] = todo[k + 1]
    BY <1>2, <1>3
  <2>2. k + 1 \in DOMAIN todo /\ d + (k + 1) = Done' + k
    <3>1. k + 1 \in 1..Len(todo)
      BY <1>2, <2>1
    <3>2. d + (k + 1) = (d + 1) + k
      BY <2>1
    <3> QED  BY <1>2, <1>7, <3>1, <3>2
  <2>3. todo[k + 1] = PostedRows[d + (k + 1)]
    BY <1>3, <2>2
  <2> QED  BY <2>1, <2>2, <2>3
<1>10. Head(todo) = PostedRows[d + 1]
  <2>1. 1 \in DOMAIN todo
    BY <1>2
  <2> QED  BY <1>2, <1>3, <2>1
<1>11. CASE d = 0
  <2>1. Head(todo) = EntryRow(e, p)
    BY <1>5, <1>10, <1>11
  <2>2. Head(todo).table = "journal_entries" /\ Head(todo).entry = e /\ Head(todo).project = p
    BY <2>1 DEF EntryRow
  <2>3. InsertsEntry(e, p)
    BY <2>1, <2>2 DEF Insert, InsertsEntry
  <2> QED  BY <1>5, <1>7, <1>9, <1>11, <2>3 DEF d, e, p, ls
<1>12. CASE d > 0
  <2>1. d \in 1..Len(ls)
    BY <1>7, <1>12
  <2>2. ls[d] \in AllLines
    BY <1>4, <2>1, ElementOfSeq
  <2>3. Head(todo) = LineRow(e, p, d, ls[d])
    BY <1>5, <1>10, <2>1
  <2>4. Head(todo).table = "journal_lines" /\ Head(todo).line = LineRow(e, p, d, ls[d]).line
    BY <2>3 DEF LineRow
  <2>5. InsertsLine(e, p, d, ls[d])
    BY <2>3, <2>4 DEF Insert, InsertsLine
  <2> QED  BY <1>5, <1>7, <1>9, <1>12, <2>2, <2>5 DEF d, e, p, ls
<1> QED  BY <1>7, <1>11, <1>12

(* Seeding touches neither entries nor lines, and no account disappears. *)
LEMMA SeedInsert ==
    ASSUME TypeInv, Insert, pc = "seed"
    PROVE  /\ UNCHANGED <<entries, lines, pc, request, posted, acked, crashes>>
           /\ accounts \in [Owners -> [Codes -> Nat]]
           /\ \A q \in Owners : \A d \in Codes : accounts'[q][d] >= accounts[q][d]
<1>1. accounts \in [Owners -> [Codes -> Nat]]
  BY DEF TypeInv, TypeOK
<1>2. \A q \in Owners : \A d \in Codes : accounts[q][d] \in Nat
  BY <1>1
<1>3. ASSUME NEW p \in Projects, InsertsProject(p)
      PROVE  UNCHANGED <<entries, lines, accounts>>
  BY <1>3 DEF InsertsProject
<1>4. ASSUME NEW p \in Owners, NEW c \in Codes, InsertsAccount(p, c)
      PROVE  /\ UNCHANGED <<entries, lines>>
             /\ \A q \in Owners : \A d \in Codes : accounts'[q][d] >= accounts[q][d]
  <2>1. \A q \in Owners : \A d \in Codes :
           accounts'[q][d] = accounts[q][d] + (IF q = p /\ d = c THEN 1 ELSE 0)
    BY <1>4, AccountIsOneRow
  <2> QED  BY <1>2, <1>4, <2>1 DEF InsertsAccount
<1>5. \/ \E p \in Projects : InsertsProject(p)
      \/ \E p \in Owners, c \in Codes : InsertsAccount(p, c)
  BY InsertKinds DEF InsertsEntry, InsertsLine
<1> QED  BY <1>1, <1>2, <1>3, <1>4, <1>5, InsertKinds
LEMMA InsertBooks ==
    ASSUME BooksInv, Insert
    PROVE  BooksInv'
<1>1. TypeInv' /\ TypeInv /\ WriteInv /\ AckedIsComplete /\ JoinSeesEveryLine
  BY InsertTypes DEF BooksInv
<1>2. UNCHANGED <<pc, request, posted, acked, crashes>> /\ pc \in {"seed", "write"}
  BY <1>1, InsertKinds DEF TypeInv, TypeOK, HandlerInv
<1>3. CASE pc = "seed"
  <2>1. /\ UNCHANGED <<entries, lines>>
        /\ accounts \in [Owners -> [Codes -> Nat]]
        /\ \A q \in Owners : \A d \in Codes : accounts'[q][d] >= accounts[q][d]
    BY <1>1, <1>3, SeedInsert
  <2>2. WriteInv'
    BY <1>2, <1>3 DEF WriteInv
  <2>3. AckedIsComplete'
    BY <1>1, <1>2, <2>1 DEF AckedIsComplete, LinesOf, LineRow
  <2>4. ASSUME NEW l \in lines
        PROVE  l.entry \in DOMAIN entries /\ accounts'[l.project][l.code] > 0
    <3>1. l.project \in Owners /\ l.code \in Codes
      BY <1>1 DEF TypeInv, TypeOK, Owners
    <3>2. accounts[l.project][l.code] \in Nat
      BY <2>1, <3>1
    <3>3. accounts'[l.project][l.code] \in Nat
      BY <1>1, <3>1 DEF TypeInv, TypeOK
    <3>4. accounts'[l.project][l.code] >= accounts[l.project][l.code]
      BY <2>1, <3>1
    <3>5. l.entry \in DOMAIN entries /\ accounts[l.project][l.code] > 0
      BY <1>1 DEF JoinSeesEveryLine
    <3> QED  BY <3>2, <3>3, <3>4, <3>5
  <2>5. JoinSeesEveryLine'
    BY <2>1, <2>4 DEF JoinSeesEveryLine
  <2> QED  BY <1>1, <2>2, <2>3, <2>5 DEF BooksInv
<1>4. CASE pc = "write"
  <2> DEFINE e  == Len(posted)
             p  == request.project
             ls == request.lines
  <2> Done \in Nat
    BY <1>4, NextRow
  <2> PICK d \in Nat : d = Done
    OBVIOUS
  <2>1. /\ Len(ls) \in Nat /\ DOMAIN ls = 1..Len(ls)
        /\ d \in 0..Len(ls) /\ Done' = d + 1
        /\ \A k \in DOMAIN todo' : todo'[k] = PostedRows[Done' + k]
        /\ \/ d = 0 /\ InsertsEntry(e, p)
           \/ d > 0 /\ \E l \in AllLines : l = ls[d] /\ InsertsLine(e, p, d, l)
    BY <1>4, NextRow
  <2>2. /\ posted[e] = ls /\ e \notin acked /\ p \in Projects /\ ls \in Postings
        /\ AccountsExist(p, ls)
        /\ d = 0 => LinesOf(e) = {}
        /\ d > 0 => IsStored(e, p, d - 1)
    BY <1>1, <1>4 DEF WriteInv
  <2>3. PostedRows' = PostedRows
    BY <1>2 DEF PostedRows, JournalRows, EntryRow, LineRow
  <2>4. accounts' = accounts
    BY <2>1 DEF InsertsEntry, InsertsLine
  <2>5. AccountsExist(p, ls)'
    BY <1>2, <2>2, <2>4 DEF AccountsExist
  <2>6. Done' \in Nat /\ Done' # 0 /\ Done' - 1 = d
    BY <2>1
  <2>7. ASSUME IsStored(e, p, d)', AckedIsComplete', JoinSeesEveryLine'
        PROVE  BooksInv'
    <3>1. WriteInv'
      <4>1. IsStored(Len(posted), request.project, Done - 1)'
        BY <1>2, <2>6, <2>7 DEF IsStored, LinesOf, LineRow
      <4> QED  BY <1>2, <2>1, <2>2, <2>3, <2>5, <2>6, <4>1 DEF WriteInv
    <3> QED  BY <1>1, <2>7, <3>1 DEF BooksInv
  <2>8. CASE d = 0 /\ InsertsEntry(e, p)
    <3>1. /\ lines' = lines /\ DOMAIN entries' = DOMAIN entries \cup {e} /\ entries'[e] = p
          /\ \A f \in DOMAIN entries : f # e => entries'[f] = entries[f]
      BY <2>8 DEF InsertsEntry
    <3>2. \A f : LinesOf(f)' = LinesOf(f)
      BY <3>1 DEF LinesOf
    <3>3. IsStored(e, p, d)'
      <4>1. 1..0 = {}
        OBVIOUS
      <4>2. LinesOf(e)' = {}
        BY <1>2, <2>2, <2>8, <3>1 DEF LinesOf
      <4> QED  BY <1>2, <2>8, <3>1, <4>1, <4>2 DEF IsStored
    <3>4. AckedIsComplete'
      <4>1. \A f \in acked : f # e /\ f \in DOMAIN entries
        BY <1>1, <2>2 DEF AckedIsComplete
      <4> QED  BY <1>1, <1>2, <3>1, <3>2, <4>1 DEF AckedIsComplete, LineRow
    <3>5. JoinSeesEveryLine'
      BY <1>1, <2>4, <3>1 DEF JoinSeesEveryLine
    <3> QED  BY <2>7, <3>3, <3>4, <3>5
  <2>9. ASSUME d > 0, InsertsLine(e, p, d, ls[d])
        PROVE  BooksInv'
    <3> DEFINE x == LineRow(e, p, d, ls[d]).line
    <3>1. lines' = lines \cup {x} /\ entries' = entries
      BY <2>9 DEF InsertsLine
    <3>2. x.entry = e /\ x.project = p /\ x.code = ls[d].code
      BY DEF LineRow
    <3> HIDE DEF x
    <3>3. LinesOf(e)' = LinesOf(e) \cup {x} /\ \A f : f # e => LinesOf(f)' = LinesOf(f)
      BY <1>2, <3>1, <3>2 DEF LinesOf
    <3>4. d \in 1..Len(ls) /\ 1..d = (1..(d - 1)) \cup {d}
      BY <2>1, <2>9
    <3>5. e \in DOMAIN entries /\ entries[e] = p
          /\ LinesOf(e) = {LineRow(e, p, k, posted[e][k]).line : k \in 1..(d - 1)}
      BY <2>2, <2>9 DEF IsStored
    <3>6. x = LineRow(e, p, d, posted[e][d]).line
      BY <2>2 DEF x
    <3>7. LinesOf(e)' = {LineRow(e, p, k, posted[e][k]).line : k \in 1..d}
      BY <3>3, <3>4, <3>5, <3>6
    <3>8. IsStored(e, p, d)'
      BY <1>2, <3>1, <3>5, <3>7 DEF IsStored, LineRow
    <3>9. AckedIsComplete'
      <4>1. \A f \in acked : f # e
        BY <2>2
      <4> QED  BY <1>1, <1>2, <3>1, <3>3, <4>1 DEF AckedIsComplete, LineRow
    <3>10. JoinSeesEveryLine'
      <4>1. accounts[x.project][x.code] > 0
        BY <2>1, <2>2, <3>2, <3>4 DEF AccountsExist
      <4> QED  BY <1>1, <2>4, <3>1, <3>2, <3>5, <4>1 DEF JoinSeesEveryLine
    <3> QED  BY <2>7, <3>8, <3>9, <3>10
  <2> QED  BY <2>1, <2>8, <2>9
<1> QED  BY <1>2, <1>3, <1>4

LEMMA PostBooks ==
    ASSUME BooksInv, Post
    PROVE  BooksInv'
<1> DEFINE n  == Len(posted) + 1
           ls == request.lines
           p  == request.project
<1>1. TypeInv /\ AckedIsComplete /\ JoinSeesEveryLine
  BY DEF BooksInv
<1>2. /\ todo' = JournalRows(n, p, ls) /\ pc' = "write"
      /\ UNCHANGED <<projects, accounts, entries, lines, request, acked, crashes>>
      /\ AccountsExist(p, ls)
  BY DEF Post, tables, NextEntry
<1>3. /\ TypeInv' /\ p \in Projects /\ ls \in Postings
      /\ Len(posted') = n /\ Len(posted) \in Nat
      /\ DOMAIN posted' = 1..n /\ DOMAIN posted = 1..Len(posted)
      /\ posted'[n] = ls /\ \A e \in DOMAIN posted : posted'[e] = posted[e]
  BY <1>1, PostTypes
<1>4. n \notin DOMAIN posted
  BY <1>3
<1>5. acked \subseteq DOMAIN posted /\ \A l \in lines : l.entry \in DOMAIN posted
  BY <1>1 DEF TypeInv, TypeOK
<1>6. Done' = 0 /\ PostedRows' = JournalRows(n, p, ls)
  <2>1. ls \in Seq(Range(ls))
    BY <1>3, PostingAssumption
  <2>2. Len(todo') = Len(ls) + 1 /\ Len(ls) \in Nat
    BY <1>2, <2>1, JournalRowsShape
  <2>3. Done' = Len(ls) + 1 - Len(todo')
    BY <1>2 DEF Done
  <2>4. PostedRows' = JournalRows(n, p, ls)
    BY <1>2, <1>3 DEF PostedRows, JournalRows, EntryRow, LineRow
  <2> HIDE DEF ls, p, n
  <2> QED  BY <2>2, <2>3, <2>4
<1>7. WriteInv'
  <2>1. AccountsExist(p, ls)'
    BY <1>2 DEF AccountsExist
  <2>2. LinesOf(Len(posted))' = {}
    BY <1>2, <1>3, <1>4, <1>5 DEF LinesOf
  <2>3. ASSUME NEW k \in DOMAIN todo'
        PROVE  todo'[k] = PostedRows'[Done' + k]
    <3>1. DOMAIN todo' \subseteq Nat
      <4>1. ls \in Seq(Range(ls))
        BY <1>3, PostingAssumption
      <4>2. DOMAIN todo' = 1..(Len(ls) + 1)
        BY <1>2, <4>1, JournalRowsShape
      <4> QED  BY <4>2
    <3>2. Done' + k = k
      BY <1>6, <3>1
    <3>3. todo' = PostedRows'
      BY <1>2, <1>6
    <3> QED  BY <3>2, <3>3
  <2> QED  BY <1>2, <1>3, <1>4, <1>5, <1>6, <2>1, <2>2, <2>3 DEF WriteInv
<1>8. AckedIsComplete'
  <2>1. \A e \in acked : posted'[e] = posted[e]
    BY <1>3, <1>5
  <2> QED  BY <1>1, <1>2, <2>1 DEF AckedIsComplete, LinesOf, LineRow
<1>9. JoinSeesEveryLine'
  BY <1>1, <1>2 DEF JoinSeesEveryLine
<1> QED  BY <1>3, <1>7, <1>8, <1>9 DEF BooksInv

LEMMA ReplyBooks ==
    ASSUME BooksInv, Reply
    PROVE  BooksInv'
<1>1. UNCHANGED <<projects, accounts, entries, lines, posted, crashes>> /\ pc' = "idle"
  BY DEF Reply, EndHandler, tables
<1>2. TypeInv' /\ WriteInv' /\ JoinSeesEveryLine'
  <2>1. TypeInv'
    BY StepTypes DEF BooksInv, Next
  <2> QED  BY <1>1, <2>1 DEF BooksInv, WriteInv, JoinSeesEveryLine
<1>3. AckedIsComplete'
  <2>1. ASSUME NEW e \in acked
        PROVE  /\ e \in DOMAIN entries
               /\ LinesOf(e) = {LineRow(e, entries[e], k, posted[e][k]).line : k \in DOMAIN posted[e]}
    BY DEF BooksInv, AckedIsComplete
  <2>2. CASE pc = "write"
    <3> DEFINE e  == Len(posted)
               ls == request.lines
    <3>1. posted[e] = ls /\ ls \in Postings /\ (Done > 0 => IsStored(e, request.project, Done - 1))
      BY <2>2 DEF BooksInv, WriteInv
    <3>2. Len(ls) \in Nat /\ DOMAIN ls = 1..Len(ls)
      BY <3>1, PostingAssumption, LenProperties
    <3>3. todo = <<>> /\ acked' = acked \cup {e}
      BY <2>2 DEF Reply
    <3>4. Done > 0 /\ Done - 1 = Len(ls)
      <4>1. Len(todo) = 0
        BY <3>3, EmptySeq
      <4>2. Done = Len(ls) + 1 - Len(todo)
        BY DEF Done
      <4> HIDE DEF ls
      <4> QED  BY <3>2, <4>1, <4>2
    <3>5. /\ e \in DOMAIN entries
          /\ LinesOf(e) = {LineRow(e, entries[e], k, posted[e][k]).line : k \in DOMAIN posted[e]}
      BY <3>1, <3>2, <3>4 DEF IsStored
    <3> QED  BY <1>1, <2>1, <3>3, <3>5 DEF AckedIsComplete, LinesOf, LineRow
  <2>3. CASE pc # "write"
    <3>1. acked' = acked
      BY <2>3 DEF Reply
    <3> QED  BY <1>1, <2>1, <3>1 DEF AckedIsComplete, LinesOf, LineRow
  <2> QED  BY <2>2, <2>3
<1> QED  BY <1>2, <1>3 DEF BooksInv

LEMMA OtherBooks ==
    ASSUME BooksInv, TypeInv', UNCHANGED <<tables, posted, acked>>,
           pc' # "write" \/ UNCHANGED <<pc, request, todo>>
    PROVE  BooksInv'
<1>1. UNCHANGED <<projects, accounts, entries, lines, posted, acked>>
  BY DEF tables
<1>2. WriteInv'
  <2>1. CASE pc' # "write"
    BY <2>1 DEF WriteInv
  <2>2. CASE UNCHANGED <<pc, request, todo>>
    <3>1. Done' = Done /\ PostedRows' = PostedRows
      BY <1>1, <2>2 DEF Done, PostedRows, JournalRows, LineRow, EntryRow
    <3>2. LinesOf(Len(posted))' = LinesOf(Len(posted))
      BY <1>1 DEF LinesOf
    <3>3. AccountsExist(request.project, request.lines)' <=> AccountsExist(request.project, request.lines)
      BY <1>1, <2>2 DEF AccountsExist
    <3>4. IsStored(Len(posted), request.project, Done - 1)' <=> IsStored(Len(posted), request.project, Done - 1)
      BY <1>1, <2>2, <3>1, <3>2 DEF IsStored, LineRow
    <3> QED  BY <1>1, <2>2, <3>1, <3>2, <3>3, <3>4 DEF BooksInv, WriteInv
  <2> QED  BY <2>1, <2>2
<1>3. AckedIsComplete'
  BY <1>1 DEF BooksInv, AckedIsComplete, LinesOf, LineRow
<1>4. JoinSeesEveryLine'
  BY <1>1 DEF BooksInv, JoinSeesEveryLine
<1> QED  BY <1>2, <1>3, <1>4 DEF BooksInv

LEMMA InitBooks == Init => BooksInv
<1>1. Init => TypeInv
  BY InitTypes
<1>2. Init => WriteInv /\ AckedIsComplete /\ JoinSeesEveryLine
  BY DEF Init, WriteInv, AckedIsComplete, JoinSeesEveryLine
<1> QED  BY <1>1, <1>2 DEF BooksInv

LEMMA StepBooks == BooksInv /\ [Next]_vars => BooksInv'
<1> SUFFICES ASSUME BooksInv, [Next]_vars
             PROVE  BooksInv'
  OBVIOUS
<1>1. TypeInv'
  BY StepTypes DEF BooksInv
<1>2. ASSUME NEW r \in Requests, Begin(r)
      PROVE  BooksInv'
  BY <1>1, <1>2, OtherBooks DEF Begin
<1>3. CASE Insert
  BY <1>3, InsertBooks
<1>4. CASE Post
  BY <1>4, PostBooks
<1>5. CASE Refuse
  BY <1>1, <1>5, OtherBooks DEF Refuse, EndHandler
<1>6. CASE Reply
  BY <1>6, ReplyBooks
<1>7. CASE Crash
  BY <1>1, <1>7, OtherBooks DEF Crash, EndHandler
<1>8. CASE UNCHANGED vars
  BY <1>1, <1>8, OtherBooks DEF vars
<1> QED  BY <1>2, <1>3, <1>4, <1>5, <1>6, <1>7, <1>8 DEF Next

LEMMA BooksAreKept == Spec => []BooksInv
BY InitBooks, StepBooks, PTL DEF Spec

(* What postJournal answered for is on disk, header and lines, and stays,   *)
(* however many handlers crash before or after.                             *)
THEOREM AnsweredEntriesAreWhole == Spec => []AckedIsComplete
<1>1. BooksInv => AckedIsComplete
  BY DEF BooksInv
<1> QED  BY <1>1, BooksAreKept, PTL

(* A report that joins entries and accounts to lines drops no line, at no   *)
(* moment: the INSERTs go in the order the join needs.                      *)
THEOREM ReportsSeeEveryLine == Spec => []JoinSeesEveryLine
<1>1. BooksInv => JoinSeesEveryLine
  BY DEF BooksInv
<1> QED  BY <1>1, BooksAreKept, PTL
-----------------------------------------------------------------------------
(* The chart of accounts *)

(* The rows of a chart that a seeding still inserts *)
Seeding(row) == IF request.op = "addAccount" THEN 0 ELSE Count(todo, row)

(* The accounts of a code once it has, and those of them not by addAccount *)
WillHave(p, c) == accounts[p][c] + Seeding(AccountRow(p, c))
WillSeed(p, c) == WillHave(p, c) - added[p][c]

(* A seeding begins only where there is no account, hence brings each code  *)
(* once, or as often as the template has it.                                *)
OnceInv ==
    \A p \in Owners : \A c \in Codes :
        /\ accounts[p][c] >= added[p][c]
        /\ WillSeed(p, c) <= 1 \/ (p # Global /\ WillSeed(p, c) <= accounts[Global][c])

HandmadeInv ==
    \A p \in handmade : HasAccounts(p) /\ \A c \in Codes : WillSeed(p, c) = 0

(* Without a crash it brings them all. *)
CompleteInv ==
    crashes = 0 =>
        \A p \in Owners \ handmade :
            \/ Global \in handmade
            \/ \A c \in Codes : WillHave(p, c) = 0
            \/ \A c \in Defaults : WillHave(p, c) > 0

SeedInv == OnceInv /\ HandmadeInv /\ CompleteInv

ChartInv == TypeInv /\ SeedInv

(* Numbers behind the counts *)
LEMMA CountsAreNumbers ==
    ASSUME TypeInv
    PROVE  /\ \A q \in Owners : \A c \in Codes : accounts[q][c] \in Nat /\ added[q][c] \in Nat
           /\ \A x : Count(todo, x) \in Nat /\ Seeding(x) \in Nat
           /\ todo = <<>> => \A x : Count(todo, x) = 0 /\ Seeding(x) = 0
           /\ pc = "write" => \A q, c : Count(todo, AccountRow(q, c)) = 0
           /\ Projects \subseteq Owners /\ Global \in Owners /\ Defaults \subseteq Codes
<1>1. /\ accounts \in [Owners -> [Codes -> Nat]] /\ added \in [Owners -> [Codes -> Nat]]
      /\ pc \in {"idle", "seed", "write"}
  BY DEF TypeInv, TypeOK
<1>2. \A q \in Owners : \A c \in Codes : accounts[q][c] \in Nat /\ added[q][c] \in Nat
  BY <1>1
<1>3. ASSUME todo = <<>>, NEW x
      PROVE  Count(todo, x) = 0
  <2>1. PlacesOf(todo, x) = {}
    BY <1>3 DEF PlacesOf
  <2> QED  BY <2>1, FS_EmptySet DEF Count
<1>4. ASSUME pc = "write", NEW q, NEW c
      PROVE  Count(todo, AccountRow(q, c)) = 0
  <2>1. todo \in Seq(PostRows)
    BY <1>4 DEF TypeInv, HandlerInv
  <2>2. \A k \in DOMAIN todo : todo[k] \in PostRows
    BY <2>1, LenProperties, ElementOfSeq
  <2>3. \A r \in PostRows : r.table \in {"journal_entries", "journal_lines"}
    BY DEF PostRows, EntryRow, LineRow
  <2>4. AccountRow(q, c).table = "accounts"
    BY DEF AccountRow
  <2>5. PlacesOf(todo, AccountRow(q, c)) = {}
    BY <2>2, <2>3, <2>4 DEF PlacesOf
  <2> QED  BY <2>5, FS_EmptySet DEF Count
<1>5. ASSUME NEW x
      PROVE  Count(todo, x) \in Nat
  <2>1. todo = <<>> \/ todo \in Seq(SeedRows) \/ todo \in Seq(PostRows)
    BY <1>1 DEF TypeInv, HandlerInv
  <2> QED  BY <1>3, <2>1, PlacesAreFinite
<1>6. \A x : Seeding(x) \in Nat /\ (Count(todo, x) = 0 => Seeding(x) = 0)
  BY <1>5 DEF Seeding
<1> QED  BY <1>2, <1>3, <1>4, <1>5, <1>6, CodesInUse DEF Owners

(* What the counts of a chart are made of *)
LEMMA ChartCounts ==
    ASSUME ChartInv
    PROVE  \A q \in Owners : \A c \in Codes :
              /\ accounts[q][c] \in Nat /\ added[q][c] \in Nat /\ Seeding(AccountRow(q, c)) \in Nat
              /\ WillHave(q, c) = accounts[q][c] + Seeding(AccountRow(q, c))
              /\ WillSeed(q, c) = WillHave(q, c) - added[q][c]
              /\ accounts[q][c] >= added[q][c]
              /\ WillSeed(q, c) <= 1 \/ (q # Global /\ WillSeed(q, c) <= accounts[Global][c])
              /\ q \in handmade => HasAccounts(q) /\ WillSeed(q, c) = 0
  BY CountsAreNumbers DEF ChartInv, SeedInv, OnceInv, HandmadeInv, WillHave, WillSeed

(* A handler that seeds the chart of p, or finds it there. *)
LEMMA SeedingKeepsChart ==
    ASSUME ChartInv, todo = <<>>, UNCHANGED <<accounts, added, handmade, crashes>>,
           NEW p \in Owners, NEW s \in Seeds(p),
           \A q \in Owners : \A c \in Codes : Seeding(AccountRow(q, c))' = Count(s, AccountRow(q, c))
    PROVE  SeedInv'
<1>1. /\ accounts \in [Owners -> [Codes -> Nat]] /\ IsFiniteSet(GlobalRows)
      /\ \A q \in Owners : \A c \in Codes : accounts[q][c] \in Nat /\ added[q][c] \in Nat
      /\ Projects \subseteq Owners /\ Global \in Owners /\ Defaults \subseteq Codes
      /\ \A x : Count(todo, x) = 0 /\ Seeding(x) = 0
  BY CountsAreNumbers DEF ChartInv, TypeInv, TypeOK, HandlerInv
<1>2. /\ \A q \in Owners : \A c : q # p => Count(s, AccountRow(q, c)) = 0
      /\ HasAccounts(p) => s = <<>>
      /\ \/ HasAccounts(p)
         \/ \A c \in Codes : Count(s, AccountRow(p, c)) = accounts[Global][c]
         \/ \A c \in Codes : Count(s, AccountRow(p, c)) = IF c \in Defaults THEN 1 ELSE 0
  BY <1>1, SeedsShape
<1>3. \A q \in Owners : \A c \in Codes :
         /\ WillHave(q, c) = accounts[q][c]
         /\ WillSeed(q, c) = accounts[q][c] - added[q][c]
         /\ accounts[q][c] >= added[q][c]
         /\ WillSeed(q, c) <= 1 \/ (q # Global /\ WillSeed(q, c) <= accounts[Global][c])
         /\ q \in handmade => HasAccounts(q) /\ WillSeed(q, c) = 0
  BY <1>1, ChartCounts
<1>4. \A q \in Owners : \A c \in Codes :
         /\ WillHave(q, c)' = accounts[q][c] + Count(s, AccountRow(q, c))
         /\ WillSeed(q, c)' = WillHave(q, c)' - added[q][c]
  <2>1. \A q \in Owners : \A c \in Codes :
           /\ WillHave(q, c)' = accounts[q][c] + Seeding(AccountRow(q, c))'
           /\ WillSeed(q, c)' = WillHave(q, c)' - added[q][c]
    BY DEF WillHave, WillSeed, AccountRow
  <2> QED  BY <2>1
<1>5. \A q \in Owners : HasAccounts(q)' = HasAccounts(q)
  BY DEF HasAccounts
<1>6. \A x : HasAccounts(p) => Count(s, x) = 0
  BY <1>1, <1>2
<1>7. \A q \in Owners : \A c \in Codes : q # p \/ HasAccounts(p) =>
         WillHave(q, c)' = WillHave(q, c) /\ WillSeed(q, c)' = WillSeed(q, c)
  <2> SUFFICES ASSUME NEW q \in Owners, NEW c \in Codes, q # p \/ HasAccounts(p)
               PROVE  WillHave(q, c)' = WillHave(q, c) /\ WillSeed(q, c)' = WillSeed(q, c)
    OBVIOUS
  <2>1. Count(s, AccountRow(q, c)) = 0
    BY <1>2, <1>6
  <2>2. WillHave(q, c)' = accounts[q][c] + 0 /\ WillSeed(q, c)' = WillHave(q, c)' - added[q][c]
    BY <1>4, <2>1
  <2>3. /\ accounts[q][c] \in Nat /\ WillHave(q, c) = accounts[q][c]
        /\ WillSeed(q, c) = accounts[q][c] - added[q][c]
    BY <1>1, <1>3
  <2> QED  BY <2>2, <2>3
<1>8. ~HasAccounts(p) =>
         /\ p \notin handmade
         /\ \A c \in Codes : /\ accounts[p][c] = 0 /\ added[p][c] = 0
                             /\ Count(s, AccountRow(p, c)) \in Nat
                             /\ WillHave(p, c)' = Count(s, AccountRow(p, c))
                             /\ WillSeed(p, c)' = Count(s, AccountRow(p, c))
  <2> SUFFICES ASSUME ~HasAccounts(p)
               PROVE  /\ p \notin handmade
                      /\ \A c \in Codes : /\ accounts[p][c] = 0 /\ added[p][c] = 0
                                          /\ Count(s, AccountRow(p, c)) \in Nat
                                          /\ WillHave(p, c)' = Count(s, AccountRow(p, c))
                                          /\ WillSeed(p, c)' = Count(s, AccountRow(p, c))
    OBVIOUS
  <2>1. p \notin handmade
    BY DEF ChartInv, SeedInv, HandmadeInv
  <2>2. ASSUME NEW c \in Codes
        PROVE  /\ accounts[p][c] = 0 /\ added[p][c] = 0
               /\ Count(s, AccountRow(p, c)) \in Nat
               /\ WillHave(p, c)' = Count(s, AccountRow(p, c))
               /\ WillSeed(p, c)' = Count(s, AccountRow(p, c))
    <3>1. accounts[p][c] \in Nat /\ ~(accounts[p][c] > 0)
      BY <1>1 DEF HasAccounts
    <3>2. added[p][c] \in Nat /\ accounts[p][c] >= added[p][c]
      BY <1>1, <1>3
    <3>3. Count(s, AccountRow(p, c)) \in Nat
      <4>1. \/ Count(s, AccountRow(p, c)) = accounts[Global][c]
            \/ Count(s, AccountRow(p, c)) = IF c \in Defaults THEN 1 ELSE 0
        BY <1>2
      <4>2. accounts[Global][c] \in Nat
        BY <1>1
      <4> QED  BY <4>1, <4>2
    <3>4. accounts[p][c] = 0 /\ added[p][c] = 0
      BY <3>1, <3>2
    <3>5. /\ WillHave(p, c)' = 0 + Count(s, AccountRow(p, c))
          /\ WillSeed(p, c)' = WillHave(p, c)' - 0
      BY <1>4, <3>4
    <3> QED  BY <3>3, <3>4, <3>5
  <2> QED  BY <2>1, <2>2
<1>9. OnceInv'
  <2> SUFFICES ASSUME NEW q \in Owners, NEW c \in Codes
               PROVE  \/ WillSeed(q, c)' <= 1
                      \/ q # Global /\ WillSeed(q, c)' <= accounts[Global][c]
    BY <1>3 DEF OnceInv
  <2>1. CASE q # p \/ HasAccounts(p)
    BY <1>3, <1>7, <2>1
  <2>2. CASE q = p /\ ~HasAccounts(p)
    <3>1. /\ WillSeed(p, c)' = Count(s, AccountRow(p, c))
          /\ p = Global => accounts[Global][c] = 0
      BY <1>8, <2>2
    <3>2. \/ Count(s, AccountRow(p, c)) = accounts[Global][c]
          \/ Count(s, AccountRow(p, c)) \in {0, 1}
      BY <1>2, <2>2
    <3>3. accounts[Global][c] \in Nat
      BY <1>1
    <3> QED  BY <2>2, <3>1, <3>2, <3>3
  <2> QED  BY <2>1, <2>2
<1>10. HandmadeInv'
  <2>1. \A q \in handmade : q \in Owners /\ (q # p \/ HasAccounts(p))
    BY <1>8 DEF ChartInv, TypeInv, TypeOK
  <2> QED  BY <1>3, <1>5, <1>7, <2>1 DEF HandmadeInv, ChartInv, SeedInv
<1>11. CompleteInv'
  <2> SUFFICES ASSUME crashes = 0, NEW q \in Owners \ handmade, Global \notin handmade
               PROVE  \/ \A c \in Codes : WillHave(q, c)' = 0
                      \/ \A c \in Defaults : WillHave(q, c)' > 0
    BY DEF CompleteInv
  <2>1. \A o \in Owners \ handmade : \/ \A c \in Codes : WillHave(o, c) = 0
                                     \/ \A c \in Defaults : WillHave(o, c) > 0
    BY DEF ChartInv, SeedInv, CompleteInv
  <2>2. CASE q # p \/ HasAccounts(p)
    BY <1>1, <1>7, <2>1, <2>2
  <2>3. CASE q = p /\ ~HasAccounts(p) /\ \A c \in Codes : Count(s, AccountRow(p, c)) = accounts[Global][c]
    <3>1. \A c \in Codes : WillHave(p, c)' = WillHave(Global, c)
      BY <1>1, <1>3, <1>8, <2>3
    <3> QED  BY <1>1, <2>1, <2>3, <3>1
  <2>4. CASE q = p /\ ~HasAccounts(p)
             /\ \A c \in Codes : Count(s, AccountRow(p, c)) = IF c \in Defaults THEN 1 ELSE 0
    <3>1. \A c \in Defaults : WillHave(p, c)' = 1
      BY <1>1, <1>8, <2>4
    <3> QED  BY <2>4, <3>1
  <2> QED  BY <1>2, <2>2, <2>3, <2>4
<1> QED  BY <1>9, <1>10, <1>11 DEF SeedInv

(* A handler that goes on or ends with its rows inserted, or dies. *)
LEMMA RestKeepsChart ==
    ASSUME ChartInv, UNCHANGED <<accounts, added, handmade>>,
           \A q \in Owners : \A c \in Codes :
              /\ Seeding(AccountRow(q, c))' \in Nat
              /\ Seeding(AccountRow(q, c))' <= Seeding(AccountRow(q, c)),
           \/ /\ crashes' = crashes
              /\ \A q \in Owners : \A c \in Codes :
                    Seeding(AccountRow(q, c))' = Seeding(AccountRow(q, c))
           \/ crashes' # 0
    PROVE  SeedInv'
<1>1. \A q \in Owners : \A c \in Codes :
         /\ WillHave(q, c)' = accounts[q][c] + Seeding(AccountRow(q, c))'
         /\ WillSeed(q, c)' = WillHave(q, c)' - added[q][c]
  BY DEF WillHave, WillSeed, AccountRow
<1>2. \A q \in Owners : \A c \in Codes : WillSeed(q, c)' <= WillSeed(q, c)
  <2> SUFFICES ASSUME NEW q \in Owners, NEW c \in Codes
               PROVE  WillSeed(q, c)' <= WillSeed(q, c)
    OBVIOUS
  <2>1. /\ accounts[q][c] \in Nat /\ added[q][c] \in Nat /\ Seeding(AccountRow(q, c)) \in Nat
        /\ WillSeed(q, c) = (accounts[q][c] + Seeding(AccountRow(q, c))) - added[q][c]
    BY ChartCounts
  <2>2. WillSeed(q, c)' = (accounts[q][c] + Seeding(AccountRow(q, c))') - added[q][c]
    BY <1>1
  <2> QED  BY <2>1, <2>2
<1>3. OnceInv'
  <2> SUFFICES ASSUME NEW q \in Owners, NEW c \in Codes
               PROVE  /\ accounts[q][c] >= added[q][c]
                      /\ \/ WillSeed(q, c)' <= 1
                         \/ q # Global /\ WillSeed(q, c)' <= accounts[Global][c]
    BY DEF OnceInv
  <2>1. /\ accounts[q][c] >= added[q][c]
        /\ WillSeed(q, c) <= 1 \/ (q # Global /\ WillSeed(q, c) <= accounts[Global][c])
        /\ accounts[q][c] \in Nat /\ added[q][c] \in Nat /\ Seeding(AccountRow(q, c)) \in Nat
        /\ WillSeed(q, c) = (accounts[q][c] + Seeding(AccountRow(q, c))) - added[q][c]
    BY ChartCounts
  <2>2. WillSeed(q, c)' <= WillSeed(q, c)
        /\ WillSeed(q, c)' = (accounts[q][c] + Seeding(AccountRow(q, c))') - added[q][c]
    BY <1>1, <1>2
  <2>3. WillSeed(q, c) \in Int /\ WillSeed(q, c)' \in Int
    BY <2>1, <2>2
  <2>4. Global \in Owners
    BY DEF Owners
  <2>5. accounts[Global][c] \in Nat
    BY <2>4, ChartCounts
  <2> QED  BY <2>1, <2>2, <2>3, <2>5
<1>4. HandmadeInv'
  <2> SUFFICES ASSUME NEW q \in handmade, NEW c \in Codes
               PROVE  HasAccounts(q)' /\ WillSeed(q, c)' = 0
    <3>1. \A q \in handmade : HasAccounts(q)'
      BY DEF ChartInv, SeedInv, HandmadeInv, HasAccounts
    <3> QED  BY <3>1 DEF HandmadeInv
  <2>1. q \in Owners
    BY DEF ChartInv, TypeInv, TypeOK
  <2>2. /\ accounts[q][c] >= added[q][c] /\ HasAccounts(q) /\ WillSeed(q, c) = 0
        /\ accounts[q][c] \in Nat /\ added[q][c] \in Nat /\ Seeding(AccountRow(q, c)) \in Nat
        /\ WillSeed(q, c) = (accounts[q][c] + Seeding(AccountRow(q, c))) - added[q][c]
    BY <2>1, ChartCounts
  <2>3. WillSeed(q, c)' = (accounts[q][c] + Seeding(AccountRow(q, c))') - added[q][c]
        /\ Seeding(AccountRow(q, c))' \in Nat
        /\ Seeding(AccountRow(q, c))' <= Seeding(AccountRow(q, c))
    BY <1>1, <2>1
  <2>4. WillSeed(q, c)' = 0
    <3>1. \A a, b, m, n \in Nat : a >= b /\ (a + n) - b = 0 /\ m <= n => (a + m) - b = 0
      OBVIOUS
    <3>2. (accounts[q][c] + Seeding(AccountRow(q, c))) - added[q][c] = 0
      BY <2>2
    <3>3. (accounts[q][c] + Seeding(AccountRow(q, c))') - added[q][c] = 0
      BY <2>2, <2>3, <3>1, <3>2
    <3> QED  BY <2>3, <3>3
  <2> QED  BY <2>2, <2>4 DEF HasAccounts
<1>5. CompleteInv'
  <2> SUFFICES ASSUME crashes' = 0
               PROVE  CompleteInv'
    BY DEF CompleteInv
  <2>1. \A q \in Owners : \A c \in Codes : WillHave(q, c)' = WillHave(q, c)
    BY <1>1, ChartCounts
  <2>2. Defaults \subseteq Codes /\ crashes = 0
    BY CodesInUse
  <2> QED  BY <2>1, <2>2 DEF ChartInv, SeedInv, CompleteInv
<1> QED  BY <1>3, <1>4, <1>5 DEF SeedInv

LEMMA BeginChart ==
    ASSUME ChartInv, NEW r \in Requests, Begin(r)
    PROVE  SeedInv'
<1>1. todo = <<>> /\ UNCHANGED <<accounts, added, handmade, crashes>> /\ request' = r
  BY DEF ChartInv, TypeInv, HandlerInv, Begin, tables, charts
<1>2. accounts \in [Owners -> [Codes -> Nat]] /\ IsFiniteSet(GlobalRows)
  BY DEF ChartInv, TypeInv, TypeOK, HandlerInv
<1>3. ASSUME r.op # "addAccount"
      PROVE  \A q \in Owners : \A c \in Codes :
                Seeding(AccountRow(q, c))' = Count(todo', AccountRow(q, c))
  BY <1>1, <1>3 DEF Seeding, AccountRow, Count, PlacesOf
<1>4. CASE r.op = "createProject" /\ \E s \in Seeds(r.project) : todo' = <<ProjectRow(r.project)>> \o s
  <2>1. r.project \in Projects /\ r.project \in Owners
    BY <1>4 DEF Requests, Owners
  <2>2. PICK s \in Seeds(r.project) : todo' = <<ProjectRow(r.project)>> \o s
    BY <1>4
  <2>3. s \in Seq(SeedRows)
    BY <1>2, <2>1, SeedsShape
  <2>4. \A q \in Owners : \A c : Count(todo', AccountRow(q, c)) = Count(s, AccountRow(q, c))
    BY <2>1, <2>2, <2>3, ProjectRowFirst
  <2>5. \A q \in Owners : \A c \in Codes : Seeding(AccountRow(q, c))' = Count(s, AccountRow(q, c))
    BY <1>3, <1>4, <2>4
  <2> QED  BY <1>1, <2>1, <2>5, SeedingKeepsChart
<1>5. CASE r.op = "seedAccountsGlobal"
           /\ todo' = IF HasAccounts(Global) THEN <<>> ELSE AccountRows(Global, DefaultCodes)
  <2>1. todo' \in Seeds(Global) /\ Global \in Owners
    BY <1>5 DEF Seeds, Owners
  <2> QED  BY <1>1, <1>3, <1>5, <2>1, SeedingKeepsChart
<1>6. CASE r.op \in {"listAccounts", "postJournal"} /\ todo' \in Seeds(r.project)
  <2>1. r.project \in Owners
    BY <1>6 DEF Requests, Owners
  <2> QED  BY <1>1, <1>3, <1>6, <2>1, SeedingKeepsChart
<1>7. CASE r.op = "addAccount"
  <2>1. \A q \in Owners : \A c \in Codes :
           Seeding(AccountRow(q, c))' = 0 /\ Seeding(AccountRow(q, c)) = 0
    BY <1>1, <1>7, CountsAreNumbers DEF Seeding, ChartInv
  <2> QED  BY <1>1, <2>1, RestKeepsChart
<1> QED  BY <1>4, <1>5, <1>6, <1>7 DEF Begin

LEMMA InsertChart ==
    ASSUME ChartInv, Insert
    PROVE  SeedInv'
<1>1. /\ todo # <<>> /\ todo' = Tail(todo)
      /\ UNCHANGED <<pc, request, posted, acked, crashes>>
      /\ todo \in Seq(SeedRows) \/ todo \in Seq(PostRows)
  BY InsertKinds DEF ChartInv
<1>2. TypeInv /\ TypeInv'
  BY InsertTypes DEF ChartInv
<1>3. /\ \A x : Count(todo, x) \in Nat /\ Count(todo', x) \in Nat
      /\ Projects \subseteq Owners /\ Global \in Owners /\ Defaults \subseteq Codes
  <2>1. \A x : Count(todo', x) \in Nat
    BY <1>1, HeadTailProperties, PlacesAreFinite
  <2> QED  BY <1>2, <2>1, CountsAreNumbers
<1>4. \A x : Count(todo, x) = Count(todo', x) + (IF Head(todo) = x THEN 1 ELSE 0)
  BY <1>1, CountOfTail
<1>5. \A q \in Owners : \A c \in Codes :
         Seeding(AccountRow(q, c))' = IF request.op = "addAccount" THEN 0
                                      ELSE Count(todo', AccountRow(q, c))
  BY <1>1 DEF Seeding, AccountRow, Count, PlacesOf
<1>6. ASSUME UNCHANGED <<accounts, charts>>, \A q, c : Head(todo) # AccountRow(q, c)
      PROVE  SeedInv'
  <2>1. \A q \in Owners : \A c \in Codes :
           Count(todo', AccountRow(q, c)) = Count(todo, AccountRow(q, c))
    BY <1>3, <1>4, <1>6
  <2>2. \A q \in Owners : \A c \in Codes :
           /\ Seeding(AccountRow(q, c))' = Seeding(AccountRow(q, c))
           /\ Seeding(AccountRow(q, c)) \in Nat
    BY <1>2, <1>5, <2>1, CountsAreNumbers DEF Seeding
  <2> QED  BY <1>1, <1>6, <2>2, RestKeepsChart DEF charts
<1>7. ASSUME NEW p \in Owners, NEW d \in Codes, InsertsAccount(p, d)
      PROVE  SeedInv'
  <2>1. \A q \in Owners : \A c \in Codes :
           /\ accounts'[q][c] = accounts[q][c] + (IF q = p /\ c = d THEN 1 ELSE 0)
           /\ added'[q][c] = added[q][c]
                  + (IF request.op = "addAccount" /\ q = p /\ c = d THEN 1 ELSE 0)
    BY <1>2, <1>7, AccountIsOneRow, AddedIsOneRow
  <2>2. \A q \in Owners : \A c \in Codes : Head(todo) = AccountRow(q, c) <=> (q = p /\ c = d)
    BY <1>7, AccountRowIsItsKey DEF InsertsAccount
  <2>3. ASSUME NEW q \in Owners, NEW c \in Codes
        PROVE  /\ accounts'[q][c] \in Nat /\ accounts'[q][c] >= accounts[q][c]
               /\ accounts'[q][c] >= added'[q][c]
               /\ WillSeed(q, c)' = WillSeed(q, c) /\ WillSeed(q, c) \in Int
               /\ WillHave(q, c)' = WillHave(q, c)
                      + (IF request.op = "addAccount" /\ q = p /\ c = d THEN 1 ELSE 0)
               /\ WillHave(q, c) \in Nat
               /\ request.op = "addAccount" => WillHave(q, c) = accounts[q][c]
    <3> DEFINE n == Count(todo, AccountRow(q, c))
               m == Count(todo', AccountRow(q, c))
    <3>1. /\ accounts[q][c] \in Nat /\ added[q][c] \in Nat /\ accounts[q][c] >= added[q][c]
          /\ WillHave(q, c) = accounts[q][c] + Seeding(AccountRow(q, c))
          /\ WillSeed(q, c) = WillHave(q, c) - added[q][c]
      BY ChartCounts
    <3>2. /\ WillHave(q, c)' = accounts'[q][c] + Seeding(AccountRow(q, c))'
          /\ WillSeed(q, c)' = WillHave(q, c)' - added'[q][c]
      BY DEF WillHave, WillSeed, AccountRow
    <3>3. /\ n \in Nat /\ m \in Nat /\ n = m + (IF q = p /\ c = d THEN 1 ELSE 0)
          /\ Seeding(AccountRow(q, c)) = (IF request.op = "addAccount" THEN 0 ELSE n)
          /\ Seeding(AccountRow(q, c))' = (IF request.op = "addAccount" THEN 0 ELSE m)
      BY <1>3, <1>4, <1>5, <2>2 DEF Seeding
    <3> HIDE DEF n, m
    <3> QED  BY <2>1, <3>1, <3>2, <3>3
  <2>4. OnceInv'
    <3> SUFFICES ASSUME NEW q \in Owners, NEW c \in Codes
                 PROVE  /\ accounts'[q][c] >= added'[q][c]
                        /\ \/ WillSeed(q, c)' <= 1
                           \/ q # Global /\ WillSeed(q, c)' <= accounts'[Global][c]
      BY DEF OnceInv
    <3>1. /\ accounts'[q][c] >= added'[q][c]
          /\ WillSeed(q, c)' = WillSeed(q, c) /\ WillSeed(q, c) \in Int
          /\ accounts'[Global][c] \in Nat /\ accounts'[Global][c] >= accounts[Global][c]
      BY <1>3, <2>3
    <3>2. /\ WillSeed(q, c) <= 1 \/ (q # Global /\ WillSeed(q, c) <= accounts[Global][c])
          /\ accounts[Global][c] \in Nat
      BY <1>3, ChartCounts
    <3> QED  BY <3>1, <3>2
  <2>5. \A q \in Owners : HasAccounts(q) => HasAccounts(q)'
    <3>1. ASSUME NEW q \in Owners, NEW c \in Codes, accounts[q][c] > 0
          PROVE  accounts'[q][c] > 0
      BY <2>3, <3>1, ChartCounts
    <3> QED  BY <3>1 DEF HasAccounts
  <2>6. HandmadeInv'
    <3> SUFFICES ASSUME NEW q \in handmade'
                 PROVE  HasAccounts(q)' /\ \A c \in Codes : WillSeed(q, c)' = 0
      BY DEF HandmadeInv
    <3>1. CASE q \in handmade
      <4>1. q \in Owners /\ HasAccounts(q) /\ \A c \in Codes : WillSeed(q, c) = 0
        BY <3>1 DEF ChartInv, TypeInv, TypeOK, SeedInv, HandmadeInv
      <4> QED  BY <2>3, <2>5, <4>1
    <3>2. CASE q \notin handmade
      <4>1. request.op = "addAccount" /\ q = p /\ ~HasAccounts(p)
        BY <1>7, <3>2 DEF InsertsAccount, charts
      <4>2. accounts[p][d] \in Nat /\ accounts'[p][d] = accounts[p][d] + 1
        BY <2>1, ChartCounts
      <4>3. accounts'[p][d] > 0
        BY <4>2
      <4>4. ASSUME NEW c \in Codes
            PROVE  WillSeed(p, c) = 0
        <5>1. /\ accounts[p][c] \in Nat /\ added[p][c] \in Nat /\ accounts[p][c] >= added[p][c]
              /\ WillSeed(p, c) = WillHave(p, c) - added[p][c]
              /\ WillHave(p, c) = accounts[p][c]
          BY <2>3, <4>1, ChartCounts
        <5>2. ~(accounts[p][c] > 0)
          BY <4>1 DEF HasAccounts
        <5> QED  BY <5>1, <5>2
      <4> QED  BY <2>3, <4>1, <4>3, <4>4 DEF HasAccounts
    <3> QED  BY <3>1, <3>2
  <2>7. CompleteInv'
    <3> SUFFICES ASSUME crashes = 0, NEW q \in Owners \ handmade', Global \notin handmade'
                 PROVE  \/ \A c \in Codes : WillHave(q, c)' = 0
                        \/ \A c \in Defaults : WillHave(q, c)' > 0
      BY <1>1 DEF CompleteInv
    <3>1. /\ handmade \subseteq handmade'
          /\ request.op = "addAccount" /\ ~HasAccounts(p) => p \in handmade'
      BY <1>7 DEF InsertsAccount, charts
    <3>2. \/ \A c \in Codes : WillHave(q, c) = 0
          \/ \A c \in Defaults : WillHave(q, c) > 0
      BY <3>1 DEF ChartInv, SeedInv, CompleteInv
    <3>3. CASE \A c \in Defaults : WillHave(q, c) > 0
      <4>1. \A c \in Defaults : WillHave(q, c)' >= WillHave(q, c) /\ WillHave(q, c) \in Nat
        BY <1>3, <2>3
      <4>2. ASSUME NEW c \in Defaults
            PROVE  WillHave(q, c)' > 0
        <5>1. WillHave(q, c)' \in Int
          BY <1>3, <2>3
        <5> QED  BY <3>3, <4>1, <5>1
      <4> QED  BY <4>2
    <3>4. CASE \A c \in Codes : WillHave(q, c) = 0
      <4>1. ~(request.op = "addAccount" /\ q = p)
        <5> SUFFICES ASSUME request.op = "addAccount", q = p
                     PROVE  FALSE
          OBVIOUS
        <5>1. PICK c \in Codes : accounts[p][c] > 0
          BY <3>1 DEF HasAccounts
        <5>2. WillHave(p, c) = accounts[p][c]
          BY <2>3
        <5> QED  BY <3>4, <5>1, <5>2
      <4> QED  BY <2>3, <3>4, <4>1
    <3> QED  BY <3>2, <3>3, <3>4
  <2> QED  BY <2>4, <2>6, <2>7 DEF SeedInv
<1>8. ASSUME NEW p \in Projects, InsertsProject(p)
      PROVE  UNCHANGED <<accounts, charts>> /\ \A q, c : Head(todo) # AccountRow(q, c)
  BY <1>8 DEF InsertsProject, ProjectRow, AccountRow
<1>9. ASSUME NEW e \in DOMAIN posted, NEW p \in Projects, InsertsEntry(e, p)
      PROVE  UNCHANGED <<accounts, charts>> /\ \A q, c : Head(todo) # AccountRow(q, c)
  BY <1>9 DEF InsertsEntry, EntryRow, AccountRow
<1>10. ASSUME NEW e \in DOMAIN posted, NEW p \in Projects, NEW k \in Nat, NEW l \in AllLines,
              InsertsLine(e, p, k, l)
       PROVE  UNCHANGED <<accounts, charts>> /\ \A q, c : Head(todo) # AccountRow(q, c)
  <2>1. Head(todo) = LineRow(e, p, k, l) /\ UNCHANGED <<accounts, charts>>
    BY <1>10 DEF InsertsLine
  <2>2. Head(todo).table = "journal_lines"
    BY <2>1 DEF LineRow
  <2>3. \A q, c : AccountRow(q, c).table = "accounts"
    BY DEF AccountRow
  <2> QED  BY <2>1, <2>2, <2>3
<1> QED  BY <1>2, <1>6, <1>7, <1>8, <1>9, <1>10, InsertKinds

LEMMA ChartIsKept == Spec => []ChartInv
<1>1. Init => ChartInv
  <2> SUFFICES ASSUME Init
               PROVE  ChartInv
    OBVIOUS
  <2>1. TypeInv
    BY InitTypes
  <2>2. /\ todo = <<>> /\ handmade = {}
        /\ \A p \in Owners : \A c \in Codes : accounts[p][c] = 0 /\ added[p][c] = 0
    BY DEF Init
  <2>3. \A p \in Owners : \A c \in Codes : WillHave(p, c) = 0 /\ WillSeed(p, c) = 0
    <3>1. \A p \in Owners : \A c \in Codes : WillHave(p, c) = 0 + 0
      BY <2>1, <2>2, CountsAreNumbers DEF WillHave
    <3>2. \A p \in Owners : \A c \in Codes : WillSeed(p, c) = WillHave(p, c) - 0
      BY <2>2 DEF WillSeed
    <3> QED  BY <3>1, <3>2
  <2> QED  BY <2>1, <2>2, <2>3 DEF ChartInv, SeedInv, OnceInv, HandmadeInv, CompleteInv
<1>2. ASSUME ChartInv, [Next]_vars
      PROVE  ChartInv'
  <2>1. TypeInv /\ TypeInv' /\ (TypeInv => crashes \in Nat)
    BY <1>2, StepTypes, BoundAssumption DEF ChartInv, TypeInv, TypeOK
  <2> SUFFICES SeedInv'
    BY <2>1 DEF ChartInv
  <2>2. \A x : /\ Seeding(x) \in Nat /\ Count(<<>>, x) = 0
               /\ todo = <<>> => Seeding(x) = 0
    <3>1. ASSUME NEW x
          PROVE  Count(<<>>, x) = 0
      <4>1. PlacesOf(<<>>, x) = {}
        BY DEF PlacesOf
      <4> QED  BY <4>1, FS_EmptySet DEF Count
    <3> QED  BY <2>1, <3>1, CountsAreNumbers
  <2>3. ASSUME todo' = <<>>
        PROVE  \A q \in Owners : \A c \in Codes : Seeding(AccountRow(q, c))' = 0
    BY <2>2, <2>3 DEF Seeding, AccountRow, Count, PlacesOf
  <2>4. ASSUME NEW r \in Requests, Begin(r)
        PROVE  SeedInv'
    BY <1>2, <2>4, BeginChart
  <2>5. CASE Insert
    BY <1>2, <2>5, InsertChart
  <2>6. CASE Post
    <3>1. /\ todo = <<>> /\ pc' = "write"
          /\ UNCHANGED <<accounts, added, handmade, request, crashes>>
      BY <2>6 DEF Post, tables, charts
    <3>2. todo' \in Seq(PostRows')
      BY <2>1, <3>1 DEF TypeInv, HandlerInv
    <3>3. ASSUME NEW q, NEW c
          PROVE  Count(todo', AccountRow(q, c)) = 0
      <4>1. \A k \in DOMAIN todo' : todo'[k] \in PostRows'
        BY <3>2, LenProperties, ElementOfSeq
      <4>2. \A r \in PostRows' : r.table \in {"journal_entries", "journal_lines"}
        BY DEF PostRows, EntryRow, LineRow
      <4>3. AccountRow(q, c).table = "accounts"
        BY DEF AccountRow
      <4>4. PlacesOf(todo', AccountRow(q, c)) = {}
        BY <4>1, <4>2, <4>3 DEF PlacesOf
      <4> QED  BY <4>4, FS_EmptySet DEF Count
    <3>4. \A q \in Owners : \A c \in Codes :
             Seeding(AccountRow(q, c))' = 0 /\ Seeding(AccountRow(q, c)) = 0
      BY <2>2, <3>1, <3>3 DEF Seeding, AccountRow, Count, PlacesOf
    <3> QED  BY <1>2, <3>1, <3>4, RestKeepsChart
  <2>7. CASE Refuse \/ Reply
    <3>1. todo = <<>> /\ todo' = <<>> /\ UNCHANGED <<accounts, added, handmade, crashes>>
      BY <2>7 DEF Refuse, Reply, EndHandler, tables, charts
    <3> QED  BY <1>2, <2>2, <2>3, <3>1, RestKeepsChart
  <2>8. CASE Crash
    <3>1. todo' = <<>> /\ UNCHANGED <<accounts, added, handmade>> /\ crashes' # 0
      BY <2>1, <2>8 DEF Crash, EndHandler, tables, charts
    <3>2. \A q \in Owners : \A c \in Codes :
             /\ Seeding(AccountRow(q, c))' \in Nat
             /\ Seeding(AccountRow(q, c))' <= Seeding(AccountRow(q, c))
      BY <2>2, <2>3, <3>1
    <3> QED  BY <1>2, <3>1, <3>2, RestKeepsChart
  <2>9. CASE UNCHANGED vars
    <3>1. UNCHANGED <<todo, request, accounts, added, handmade, crashes>>
      BY <2>9 DEF vars, tables, charts
    <3>2. \A q \in Owners : \A c \in Codes :
             Seeding(AccountRow(q, c))' = Seeding(AccountRow(q, c))
      BY <3>1 DEF Seeding, AccountRow, Count, PlacesOf
    <3> QED  BY <1>2, <2>2, <3>1, <3>2, RestKeepsChart
  <2> QED  BY <1>2, <2>4, <2>5, <2>6, <2>7, <2>8, <2>9 DEF Next
<1> QED  BY <1>1, <1>2, PTL DEF Spec

(* No retry after a crash and no second listing seeds a chart again; a      *)
(* chart that addAccount began is never seeded; and while the process lives *)
(* one that it did not begin, in a project or in the template, gets every   *)
(* default or, so far, none.                                                *)
THEOREM ChartsAreSeededOnce == Spec => []SeededOnce
<1>1. ASSUME ChartInv
      PROVE  SeededOnce
  <2>1. ASSUME NEW p \in Owners, NEW c \in Codes
        PROVE  /\ accounts[p][c] - added[p][c] >= 0
               /\ \/ accounts[p][c] - added[p][c] <= 1
                  \/ p # Global /\ accounts[p][c] - added[p][c] <= accounts[Global][c]
               /\ p \in handmade => accounts[p][c] - added[p][c] = 0
    <3>1. /\ accounts[p][c] \in Nat /\ added[p][c] \in Nat /\ Seeding(AccountRow(p, c)) \in Nat
          /\ WillSeed(p, c) = accounts[p][c] + Seeding(AccountRow(p, c)) - added[p][c]
          /\ accounts[p][c] >= added[p][c]
          /\ WillSeed(p, c) <= 1 \/ (p # Global /\ WillSeed(p, c) <= accounts[Global][c])
          /\ p \in handmade => WillSeed(p, c) = 0
      BY <1>1, ChartCounts
    <3>2. accounts[Global][c] \in Nat
      BY <1>1, ChartCounts DEF Owners
    <3> QED  BY <3>1, <3>2
  <2>2. ASSUME pc = "idle", crashes = 0, NEW p \in Owners \ handmade, Global \notin handmade,
               HasAccounts(p), NEW c \in Defaults
        PROVE  accounts[p][c] > 0
    <3>1. todo = <<>>
      BY <1>1, <2>2 DEF ChartInv, TypeInv, HandlerInv
    <3>2. \A x : Seeding(x) = 0
      BY <1>1, <3>1, CountsAreNumbers DEF ChartInv
    <3>3. \A d \in Codes : accounts[p][d] \in Nat /\ WillHave(p, d) = accounts[p][d]
      BY <1>1, <3>2, ChartCounts
    <3>4. PICK d \in Codes : accounts[p][d] > 0
      BY <2>2 DEF HasAccounts
    <3>5. \A b \in Defaults : WillHave(p, b) > 0
      BY <1>1, <2>2, <3>3, <3>4 DEF ChartInv, SeedInv, CompleteInv
    <3> QED  BY <3>3, <3>5, CodesInUse
  <2> QED  BY <2>1, <2>2 DEF SeededOnce
<1> QED  BY <1>1, ChartIsKept, PTL
-----------------------------------------------------------------------------
(* What does not balance *)

(* The first n lines of an entry *)
LineAt(e, p, ls, n) == [k \in 1..n |-> LineRow(e, p, k, ls[k]).line]
FirstLines(e, p, ls, n) == {LineRow(e, p, k, ls[k]).line : k \in 1..n}

(* Every entry begun has some of its first lines on disk, and passed the    *)
(* check of postJournal.                                                    *)
PrefixInv ==
    \A e \in DOMAIN posted :
        /\ BalancedLines(posted[e])
        /\ \E p \in Projects : \E n \in 0..Len(posted[e]) :
              LinesOf(e) = FirstLines(e, p, posted[e], n)

(* The entries that a crash has cut off *)
CutOff == {e \in Incomplete : ~(pc = "write" /\ e = Len(posted))}

CutInv == Cardinality(CutOff) <= crashes

EntryInv == BooksInv /\ PrefixInv /\ CutInv

(* The lines of an entry differ in their numbers.                           *)
LEMMA LinesAreNumbered ==
    ASSUME NEW e, NEW p, NEW ls, NEW n \in Nat
    PROVE  /\ LineAt(e, p, ls, n) \in Bijection(1..n, FirstLines(e, p, ls, n))
           /\ IsFiniteSet(FirstLines(e, p, ls, n)) /\ Cardinality(FirstLines(e, p, ls, n)) = n
<1> DEFINE L == {LineRow(e, p, k, ls[k]).line : k \in 1..n}
           b == [k \in 1..n |-> LineRow(e, p, k, ls[k]).line]
<1>1. \A k \in 1..n : LineRow(e, p, k, ls[k]).line.no = k
  BY DEF LineRow
<1>2. b \in Injection(1..n, L)
  <2>1. b \in [1..n -> L]
    OBVIOUS
  <2>2. \A j, k \in 1..n : b[j] = b[k] => j = k
    <3>1. \A k \in 1..n : b[k].no = k
      BY <1>1
    <3> HIDE DEF b
    <3> QED  BY <3>1
  <2> HIDE DEF b, L
  <2> QED  BY <2>1, <2>2 DEF Injection, IsInjective
<1>3. b \in Surjection(1..n, L)
  BY DEF Surjection
<1>4. b \in Bijection(1..n, L)
  BY <1>2, <1>3 DEF Bijection
<1>5. IsFiniteSet(1..n) /\ Cardinality(1..n) = n
  <2>1. Cardinality(1..n) = IF 1 > n THEN 0 ELSE n - 1 + 1
    BY FS_Interval
  <2> QED  BY <2>1, FS_Interval
<1>6. IsFiniteSet(L) /\ Cardinality(L) = n
  BY <1>4, <1>5, FS_Bijection DEF ExistsBijection
<1> QED
  <2>1. L = FirstLines(e, p, ls, n) /\ b = LineAt(e, p, ls, n)
    BY DEF FirstLines, LineAt
  <2> HIDE DEF L, b
  <2> QED  BY <1>4, <1>6, <2>1

LEMMA PostingsAreNumbers ==
    ASSUME NEW ls \in Postings
    PROVE  /\ Len(ls) \in Nat /\ DOMAIN ls = 1..Len(ls)
           /\ \A k \in DOMAIN ls : ls[k].debit \in Int /\ ls[k].credit \in Int
BY PostingAssumption, LenProperties

(* Rounding moves an amount by half a cent at most.                         *)
LEMMA Rounding ==
    ASSUME NEW x \in Int
    PROVE  ToFixed2(x) \in Int /\ x - ToFixed2(x) \in (-5)..5
BY DEF ToFixed2

(* r is f rounded, and U is where that makes a difference *)
RoundedBy(f, r, U, S) ==
    /\ f \in [S -> Int] /\ r \in [S -> Int]
    /\ \A x \in S : r[x] = ToFixed2(f[x])
    /\ U = {x \in S : r[x] # f[x]}

LEMMA RoundingErrors ==
    ASSUME NEW S, IsFiniteSet(S), NEW f, NEW r, NEW U, RoundedBy(f, r, U, S)
    PROVE  /\ Cardinality(U) \in Nat
           /\ SumFunction(f) \in Int /\ SumFunction(r) \in Int
           /\ SumFunction(f) - SumFunction(r) <= 5 * Cardinality(U)
           /\ SumFunction(r) - SumFunction(f) <= 5 * Cardinality(U)
<1> USE DEF RoundedBy
<1> DEFINE F(s) == SumFunctionOnSet(f, s)
           R(s) == SumFunctionOnSet(r, s)
           C(s) == Cardinality(s \cap U)
           T == {s \in SUBSET S : F(s) - R(s) <= 5 * C(s) /\ R(s) - F(s) <= 5 * C(s)}
<1>1. \A s \in SUBSET S : IsFiniteSet(s \cap U) /\ C(s) \in Nat
  <2>1. \A s \in SUBSET S : IsFiniteSet(s \cap U)
    BY FS_Subset
  <2> QED  BY <2>1, FS_CardinalityType
<1>2. \A s \in SUBSET S : F(s) \in Int /\ R(s) \in Int
  BY SumsOnSubsets
<1>3. {} \in T
  <2>1. {} \cap U = {} /\ C({}) = 0
    BY FS_EmptySet
  <2>2. F({}) = 0 /\ R({}) = 0
    BY SumsOnSubsets
  <2> HIDE DEF F, R, C
  <2> QED  BY <2>1, <2>2
<1>4. ASSUME NEW s \in SUBSET S, NEW x \in S \ s, s \in T
      PROVE  s \cup {x} \in T
  <2>1. F(s \cup {x}) = f[x] + F(s) /\ R(s \cup {x}) = r[x] + R(s)
    BY SumsOnSubsets
  <2>2. f[x] \in Int /\ r[x] \in Int /\ f[x] - r[x] \in (-5)..5
    BY Rounding
  <2>3. C(s \cup {x}) = C(s) + (IF r[x] # f[x] THEN 1 ELSE 0)
    <3>1. CASE x \in U
      <4>1. (s \cup {x}) \cap U = (s \cap U) \cup {x} /\ x \notin s \cap U
        BY <3>1
      <4>2. Cardinality((s \cap U) \cup {x}) = Cardinality(s \cap U) + 1
        BY <1>1, <4>1, FS_AddElement
      <4> QED  BY <3>1, <4>1, <4>2
    <3>2. CASE x \notin U
      <4>1. (s \cup {x}) \cap U = s \cap U /\ r[x] = f[x]
        BY <3>2
      <4> QED  BY <1>1, <4>1
    <3> QED  BY <3>1, <3>2
  <2>4. F(s) \in Int /\ R(s) \in Int /\ C(s) \in Nat /\ s \cup {x} \in SUBSET S
    BY <1>1, <1>2
  <2> HIDE DEF F, R, C
  <2>5. F(s) - R(s) <= 5 * C(s) /\ R(s) - F(s) <= 5 * C(s)
    BY <1>4
  <2> QED  BY <2>1, <2>2, <2>3, <2>4, <2>5
<1>5. S \in T
  <2> HIDE DEF T
  <2> QED  BY <1>3, <1>4, OneMemberMore
<1>6. SumFunction(f) = F(S) /\ SumFunction(r) = R(S) /\ S \cap U = U
  BY SumsOnSubsets
<1> QED  BY <1>1, <1>2, <1>5, <1>6

(* An entry of which all lines are there is out of balance by roundings.    *)
LEMMA WholeEntriesBalance ==
    ASSUME EntryInv, NEW e \in DOMAIN entries, Cardinality(LinesOf(e)) = Len(posted[e])
    PROVE  /\ IsFiniteSet(LinesOf(e))
           /\ \A l \in LinesOf(e) : l.debit \in Int /\ l.credit \in Int
           /\ Cardinality(UnroundedDebits(e)) \in Nat /\ Cardinality(UnroundedCredits(e)) \in Nat
           /\ LET slack == 5 * (Cardinality(UnroundedDebits(e)) + Cardinality(UnroundedCredits(e)))
              IN  OutOfBalance(e) \in -slack..slack
<1> DEFINE ls == posted[e]
           E == LinesOf(e)
<1>1. e \in DOMAIN posted /\ ls \in Postings
  BY LenProperties, ElementOfSeq DEF EntryInv, BooksInv, TypeInv, TypeOK
<1>2. /\ Len(ls) \in Nat /\ DOMAIN ls = 1..Len(ls)
      /\ \A k \in DOMAIN ls : ls[k].debit \in Int /\ ls[k].credit \in Int
  BY <1>1, PostingsAreNumbers
<1>3. PICK p \in Projects : \E n \in 0..Len(ls) :
          E = FirstLines(e, p, ls, n)
  BY <1>1 DEF EntryInv, PrefixInv
<1>4. PICK n \in 0..Len(ls) : E = FirstLines(e, p, ls, n)
  BY <1>3
<1> DEFINE b == LineAt(e, p, ls, n)
<1>5. n \in Nat /\ b \in Bijection(1..n, E) /\ IsFiniteSet(E) /\ Cardinality(E) = n
  <2>1. n \in Nat
    BY <1>2
  <2> HIDE DEF E, b, ls
  <2>2. /\ LineAt(e, p, ls, n) \in Bijection(1..n, FirstLines(e, p, ls, n))
        /\ IsFiniteSet(FirstLines(e, p, ls, n)) /\ Cardinality(FirstLines(e, p, ls, n)) = n
    BY <2>1, LinesAreNumbered
  <2> QED  BY <1>4, <2>1, <2>2 DEF b
<1>6. n = Len(ls) /\ DOMAIN ls = 1..n
  BY <1>2, <1>5
<1>7. \A k \in 1..n : b[k].debit = ls[k].debit /\ b[k].credit = ls[k].credit
  BY DEF LineRow, LineAt
<1>8. \A l \in E : l.debit \in Int /\ l.credit \in Int
  BY <1>2, <1>4, <1>6 DEF LineRow, FirstLines
<1> DEFINE d  == [l \in E |-> l.debit]
           c  == [l \in E |-> l.credit]
           rd == [l \in E |-> ToFixed2(l.debit)]
           rc == [l \in E |-> ToFixed2(l.credit)]
<1>9. d \in [E -> Int] /\ c \in [E -> Int] /\ rd \in [E -> Int] /\ rc \in [E -> Int]
  <2>1. \A l \in E : ToFixed2(l.debit) \in Int /\ ToFixed2(l.credit) \in Int
    BY <1>8, Rounding
  <2> QED  BY <1>8, <2>1
<1>10. SumFunction(rd) = SumFunction(rc)
  <2>1. SumFunction([k \in DOMAIN ls |-> ToFixed2(ls[k].debit)])
           = SumFunction([k \in DOMAIN ls |-> ToFixed2(ls[k].credit)])
    BY <1>1 DEF EntryInv, PrefixInv, BalancedLines
  <2>2. \A k \in 1..n : b[k] \in E
    BY <1>4 DEF FirstLines, LineAt
  <2> DEFINE gd == [k \in DOMAIN ls |-> ToFixed2(ls[k].debit)]
             gc == [k \in DOMAIN ls |-> ToFixed2(ls[k].credit)]
  <2>3. \A k \in 1..n : gd[k] = rd[b[k]] /\ gc[k] = rc[b[k]]
    BY <1>6, <1>7, <2>2
  <2>4. gd \in [1..n -> Int] /\ gc \in [1..n -> Int]
    <3>1. \A k \in 1..n : ToFixed2(ls[k].debit) \in Int /\ ToFixed2(ls[k].credit) \in Int
      BY <1>2, <1>6, Rounding
    <3> QED  BY <1>6, <3>1
  <2> HIDE DEF E, b, rd, rc, gd, gc
  <2>5. SumFunction(gd) = SumFunction(rd) /\ SumFunction(gc) = SumFunction(rc)
    <3>1. Counts(gd, 1..n, b, rd, E) /\ Counts(gc, 1..n, b, rc, E)
      BY <1>5, <1>9, <2>3, <2>4 DEF Counts
    <3> QED  BY <1>5, <3>1, SumByBijection
  <2> QED  BY <2>1, <2>5 DEF gd, gc
<1>11. OutOfBalance(e) = SumFunction(d) - SumFunction(c)
  <2>1. [l \in LinesOf(e) |-> l.debit - l.credit] = [l \in E |-> d[l] - c[l]]
    OBVIOUS
  <2> HIDE DEF E, d, c
  <2>2. SumFunction([l \in E |-> d[l] - c[l]]) = SumFunction(d) - SumFunction(c)
    BY <1>5, <1>9, SumOfDifferences
  <2> QED  BY <2>1, <2>2 DEF OutOfBalance
<1> DEFINE U == UnroundedDebits(e)
           W == UnroundedCredits(e)
<1>12. U = {l \in E : rd[l] # d[l]} /\ W = {l \in E : rc[l] # c[l]}
  BY DEF UnroundedDebits, UnroundedCredits
<1>13. /\ \A l \in E : rd[l] = ToFixed2(d[l])
       /\ \A l \in E : rc[l] = ToFixed2(c[l])
  OBVIOUS
<1> HIDE DEF E, d, c, rd, rc, U, W, b, ls
<1>17. RoundedBy(d, rd, U, E) /\ RoundedBy(c, rc, W, E)
  BY <1>9, <1>12, <1>13 DEF RoundedBy
<1>14. /\ Cardinality(U) \in Nat
       /\ SumFunction(d) \in Int /\ SumFunction(rd) \in Int
       /\ SumFunction(d) - SumFunction(rd) <= 5 * Cardinality(U)
       /\ SumFunction(rd) - SumFunction(d) <= 5 * Cardinality(U)
  BY <1>5, <1>17, RoundingErrors
<1>15. /\ Cardinality(W) \in Nat
       /\ SumFunction(c) \in Int /\ SumFunction(rc) \in Int
       /\ SumFunction(c) - SumFunction(rc) <= 5 * Cardinality(W)
       /\ SumFunction(rc) - SumFunction(c) <= 5 * Cardinality(W)
  BY <1>5, <1>17, RoundingErrors
<1>16. LET slack == 5 * (Cardinality(U) + Cardinality(W))
       IN  OutOfBalance(e) \in -slack..slack
  <2>1. ASSUME NEW u \in Nat, NEW w \in Nat,
               NEW x1 \in Int, NEW y1 \in Int, NEW x2 \in Int, NEW y2 \in Int, y1 = y2,
               x1 - y1 <= 5 * u, y1 - x1 <= 5 * u, x2 - y2 <= 5 * w, y2 - x2 <= 5 * w
        PROVE  x1 - x2 \in (-(5 * (u + w)))..(5 * (u + w))
    BY <2>1
  <2> QED  BY <1>10, <1>11, <1>14, <1>15, <2>1
<1> QED  BY <1>5, <1>8, <1>14, <1>15, <1>16 DEF E, U, W
(* The entries a step may make incomplete are finitely many.                *)
LEMMA EntriesAreFinite ==
    ASSUME TypeInv
    PROVE  /\ DOMAIN posted = 1..Len(posted) /\ Len(posted) \in Nat
           /\ IsFiniteSet(Incomplete) /\ IsFiniteSet(CutOff)
           /\ Cardinality(Incomplete) \in Nat /\ Cardinality(CutOff) \in Nat
           /\ crashes \in Nat
<1>1. DOMAIN posted = 1..Len(posted) /\ Len(posted) \in Nat
  BY LenProperties DEF TypeInv, TypeOK
<1>2. IsFiniteSet(DOMAIN posted)
  BY <1>1, FS_Interval
<1>3. IsFiniteSet(Incomplete) /\ IsFiniteSet(CutOff)
  <2>1. CutOff \subseteq DOMAIN posted /\ Incomplete \subseteq DOMAIN posted
    BY DEF CutOff, Incomplete
  <2> QED  BY <1>2, <2>1, FS_Subset
<1>4. crashes \in Nat
  BY BoundAssumption DEF TypeInv, TypeOK
<1> QED  BY <1>1, <1>3, <1>4, FS_CardinalityType

(* Steps that neither post nor insert a line.                               *)
LEMMA SameEntries ==
    ASSUME UNCHANGED <<lines, posted>>
    PROVE  Incomplete' = Incomplete /\ (PrefixInv => PrefixInv')
<1>1. \A e : LinesOf(e)' = LinesOf(e)
  BY DEF LinesOf
<1>2. Incomplete' = Incomplete
  BY <1>1 DEF Incomplete
<1>3. PrefixInv => PrefixInv'
  BY <1>1 DEF PrefixInv, FirstLines, LineRow, BalancedLines
<1> QED  BY <1>2, <1>3

LEMMA InsertEntries ==
    ASSUME EntryInv, Insert
    PROVE  PrefixInv' /\ CutInv'
<1>1. BooksInv /\ BooksInv' /\ TypeInv /\ PrefixInv /\ CutInv
  BY InsertBooks DEF EntryInv, BooksInv
<1>2. UNCHANGED <<pc, request, posted, acked, crashes>> /\ pc \in {"seed", "write"}
  BY <1>1, InsertKinds DEF TypeInv, TypeOK, HandlerInv
<1>3. CASE pc = "seed"
  <2>1. UNCHANGED <<lines, posted>>
    BY <1>1, <1>3, SeedInsert
  <2>2. Incomplete' = Incomplete /\ PrefixInv'
    BY <1>1, <2>1, SameEntries
  <2>3. CutOff' = CutOff
    BY <1>2, <2>2 DEF CutOff
  <2> QED  BY <1>1, <1>2, <2>2, <2>3 DEF CutInv
<1>4. CASE pc = "write"
  <2> PICK e, p, ls, d : /\ e = Len(posted) /\ p = request.project
                         /\ ls = request.lines /\ d = Done
    OBVIOUS
  <2>1. /\ Len(ls) \in Nat /\ DOMAIN ls = 1..Len(ls) /\ d \in 0..Len(ls)
        /\ \/ d = 0 /\ InsertsEntry(e, p)
           \/ d > 0 /\ \E l \in AllLines : l = ls[d] /\ InsertsLine(e, p, d, l)
    BY <1>1, <1>4, NextRow
  <2>2. \A f : f # e => LinesOf(f)' = LinesOf(f)
    <3>1. CASE InsertsEntry(e, p)
      BY <3>1 DEF InsertsEntry, LinesOf
    <3>2. CASE InsertsLine(e, p, d, ls[d])
      <4>1. lines' = lines \cup {LineRow(e, p, d, ls[d]).line}
            /\ LineRow(e, p, d, ls[d]).line.entry = e
        BY <3>2 DEF InsertsLine, LineRow
      <4> QED  BY <4>1 DEF LinesOf
    <3> QED  BY <2>1, <3>1, <3>2
  <2>3. /\ p \in Projects /\ posted[e] = ls
        /\ d = 0 => LinesOf(e) = {}
        /\ d > 0 => LinesOf(e) = FirstLines(e, p, ls, d - 1)
    BY <1>1, <1>4 DEF BooksInv, WriteInv, IsStored, FirstLines
  <2>4. LinesOf(e)' = FirstLines(e, p, ls, d)
    <3>1. CASE d = 0 /\ InsertsEntry(e, p)
      <4>1. LinesOf(e)' = LinesOf(e)
        BY <3>1 DEF InsertsEntry, LinesOf
      <4>2. FirstLines(e, p, ls, 0) = {}
        BY DEF FirstLines
      <4> QED  BY <2>3, <3>1, <4>1, <4>2
    <3>2. CASE d > 0 /\ InsertsLine(e, p, d, ls[d])
      <4>1. LinesOf(e)' = LinesOf(e) \cup {LineRow(e, p, d, ls[d]).line}
        BY <3>2 DEF InsertsLine, LinesOf, LineRow
      <4>2. 1..d = (1..(d - 1)) \cup {d}
        BY <2>1, <3>2
      <4>3. FirstLines(e, p, ls, d) = FirstLines(e, p, ls, d - 1) \cup {LineRow(e, p, d, ls[d]).line}
        BY <4>2 DEF FirstLines
      <4> QED  BY <2>3, <3>2, <4>1, <4>3
    <3> QED  BY <2>1, <3>1, <3>2
  <2>5. PrefixInv'
    <3>1. ASSUME NEW f \in DOMAIN posted'
          PROVE  /\ BalancedLines(posted'[f])
                 /\ \E q \in Projects : \E n \in 0..Len(posted'[f]) :
                       LinesOf(f)' = FirstLines(f, q, posted'[f], n)
      <4>1. posted' = posted /\ f \in DOMAIN posted
        BY <1>2
      <4>2. BalancedLines(posted[f])
        BY <1>1, <4>1 DEF PrefixInv
      <4>3. CASE f = e
        BY <2>1, <2>3, <2>4, <4>1, <4>2, <4>3
      <4>4. CASE f # e
        <5>1. LinesOf(f)' = LinesOf(f)
          BY <2>2, <4>4
        <5> QED  BY <1>1, <4>1, <4>2, <5>1 DEF PrefixInv
      <4> QED  BY <4>3, <4>4
    <3> QED  BY <3>1 DEF PrefixInv, FirstLines, LineRow, BalancedLines
  <2>6. CutOff' = CutOff
    BY <1>2, <1>4, <2>2 DEF CutOff, Incomplete
  <2> QED  BY <1>1, <1>2, <2>5, <2>6 DEF CutInv
<1> QED  BY <1>2, <1>3, <1>4

LEMMA PostEntries ==
    ASSUME EntryInv, Post
    PROVE  PrefixInv' /\ CutInv'
<1> DEFINE n == Len(posted) + 1
<1>1. TypeInv /\ PrefixInv /\ CutInv
  BY DEF EntryInv, BooksInv
<1>2. /\ UNCHANGED <<lines, crashes>> /\ pc = "seed" /\ pc' = "write"
      /\ BalancedLines(request.lines)
  BY DEF Post, tables
<1>3. /\ request.project \in Projects /\ request.lines \in Postings
      /\ Len(posted') = n /\ Len(posted) \in Nat
      /\ DOMAIN posted' = 1..n /\ DOMAIN posted = 1..Len(posted)
      /\ posted'[n] = request.lines /\ \A e \in DOMAIN posted : posted'[e] = posted[e]
  BY <1>1, PostTypes
<1>4. /\ DOMAIN posted' = DOMAIN posted \cup {n} /\ n \notin DOMAIN posted
      /\ \A e : LinesOf(e)' = LinesOf(e)
  BY <1>2, <1>3 DEF LinesOf
<1>5. LinesOf(n) = {}
  BY <1>1, <1>4 DEF TypeInv, TypeOK, LinesOf
<1>6. ASSUME NEW e \in DOMAIN posted'
      PROVE  /\ BalancedLines(posted'[e])
             /\ \E p \in Projects : \E k \in 0..Len(posted'[e]) :
                   LinesOf(e) = FirstLines(e, p, posted'[e], k)
  <2>1. CASE e = n
    <3>1. FirstLines(n, request.project, request.lines, 0) = {}
      BY DEF FirstLines
    <3>2. 0 \in 0..Len(request.lines)
      <4>1. Len(request.lines) \in Nat
        BY <1>3, PostingsAreNumbers
      <4> QED  BY <4>1
    <3> QED  BY <1>2, <1>3, <1>5, <2>1, <3>1, <3>2
  <2>2. CASE e # n
    BY <1>1, <1>3, <1>4, <2>2 DEF PrefixInv
  <2> QED  BY <2>1, <2>2
<1>7. PrefixInv'
  BY <1>4, <1>6 DEF PrefixInv, FirstLines, LineRow, BalancedLines
<1>8. CutOff' = CutOff
  <2>1. ASSUME NEW e PROVE e \in CutOff' <=> e \in CutOff
    <3>1. CASE e = n
      BY <1>2, <1>3, <1>4, <3>1 DEF CutOff, Incomplete
    <3>2. CASE e # n
      BY <1>2, <1>3, <1>4, <3>2 DEF CutOff, Incomplete
    <3> QED  BY <3>1, <3>2
  <2> QED  BY <2>1
<1> QED  BY <1>1, <1>2, <1>7, <1>8 DEF CutInv

(* A handler that answers leaves nothing incomplete.                        *)
LEMMA ReplyEntries ==
    ASSUME EntryInv, Reply
    PROVE  PrefixInv' /\ CutInv'
<1>1. BooksInv /\ BooksInv' /\ TypeInv /\ PrefixInv /\ CutInv
  BY ReplyBooks DEF EntryInv, BooksInv
<1>2. /\ UNCHANGED <<lines, posted, crashes>> /\ pc' = "idle"
      /\ \/ pc = "write" /\ acked' = acked \cup {Len(posted)}
         \/ pc = "seed"
  BY DEF Reply, EndHandler, tables
<1>3. Incomplete' = Incomplete /\ PrefixInv'
  BY <1>1, <1>2, SameEntries
<1>4. CutOff' = Incomplete
  BY <1>2, <1>3 DEF CutOff
<1>5. CASE pc = "write"
  <2> PICK e : e = Len(posted)
    OBVIOUS
  <2>1. e \in acked' /\ e \in DOMAIN posted
    BY <1>1, <1>2, <1>5 DEF BooksInv, TypeInv, TypeOK
  <2>2. posted[e] \in Postings
    BY <1>1, <2>1, LenProperties, ElementOfSeq DEF TypeInv, TypeOK
  <2>3. LinesOf(e)' = {LineRow(e, entries'[e], k, posted'[e][k]).line : k \in DOMAIN posted'[e]}
    BY <1>1, <2>1 DEF BooksInv, AckedIsComplete, LineRow
  <2>4. LinesOf(e) = FirstLines(e, entries'[e], posted[e], Len(posted[e]))
    <3>1. DOMAIN posted[e] = 1..Len(posted[e])
      BY <2>2, PostingsAreNumbers
    <3>2. LinesOf(e)' = LinesOf(e) /\ posted' = posted
      BY <1>2 DEF LinesOf
    <3> QED  BY <2>3, <3>1, <3>2 DEF FirstLines
  <2>5. Cardinality(LinesOf(e)) = Len(posted[e]) /\ Len(posted[e]) \in Nat
    BY <2>2, <2>4, PostingsAreNumbers, LinesAreNumbered
  <2>6. e \notin Incomplete
    BY <2>5 DEF Incomplete
  <2>7. CutOff = Incomplete
    BY <2>6 DEF CutOff
  <2> QED  BY <1>1, <1>2, <1>3, <1>4, <2>7 DEF CutInv
<1>6. CASE pc = "seed"
  <2>1. CutOff = Incomplete
    BY <1>6 DEF CutOff
  <2> QED  BY <1>1, <1>2, <1>3, <1>4, <2>1 DEF CutInv
<1> QED  BY <1>2, <1>5, <1>6

(* A crash cuts off one entry at most, the one that is being written.       *)
LEMMA CrashEntries ==
    ASSUME EntryInv, Crash
    PROVE  PrefixInv' /\ CutInv'
<1>1. TypeInv /\ PrefixInv /\ CutInv
  BY DEF EntryInv, BooksInv
<1>2. UNCHANGED <<lines, posted>> /\ pc' = "idle" /\ crashes' = crashes + 1
  BY DEF Crash, EndHandler, tables
<1>3. Incomplete' = Incomplete /\ PrefixInv'
  BY <1>1, <1>2, SameEntries
<1>4. CutOff' \subseteq CutOff \cup {Len(posted)}
  BY <1>2, <1>3 DEF CutOff
<1>5. /\ IsFiniteSet(CutOff) /\ Cardinality(CutOff) \in Nat /\ crashes \in Nat
  BY <1>1, EntriesAreFinite
<1>6. /\ IsFiniteSet(CutOff \cup {Len(posted)})
      /\ Cardinality(CutOff \cup {Len(posted)}) \in Nat
      /\ Cardinality(CutOff \cup {Len(posted)}) <= Cardinality(CutOff) + 1
  <2>1. /\ IsFiniteSet(CutOff \cup {Len(posted)})
        /\ Cardinality(CutOff \cup {Len(posted)})
              = IF Len(posted) \in CutOff THEN Cardinality(CutOff) ELSE Cardinality(CutOff) + 1
    BY <1>5, FS_AddElement
  <2> QED  BY <1>5, <2>1
<1>7. Cardinality(CutOff') <= Cardinality(CutOff \cup {Len(posted)}) /\ Cardinality(CutOff') \in Nat
  BY <1>4, <1>6, FS_Subset, FS_CardinalityType
<1>8. Cardinality(CutOff) <= crashes
  BY <1>1 DEF CutInv
<1>9. Cardinality(CutOff') <= crashes'
  BY <1>2, <1>5, <1>6, <1>7, <1>8
<1> QED  BY <1>3, <1>9 DEF CutInv

LEMMA StepEntries == EntryInv /\ [Next]_vars => EntryInv'
<1> SUFFICES ASSUME EntryInv, [Next]_vars
             PROVE  EntryInv'
  OBVIOUS
<1>1. BooksInv'
  BY StepBooks DEF EntryInv
<1>2. ASSUME UNCHANGED <<lines, posted, crashes>>, pc # "write", pc' # "write"
      PROVE  EntryInv'
  <2>1. Incomplete' = Incomplete /\ PrefixInv'
    BY <1>2, SameEntries DEF EntryInv
  <2>2. CutOff' = CutOff
    BY <1>2, <2>1 DEF CutOff
  <2> QED  BY <1>1, <1>2, <2>1, <2>2 DEF EntryInv, CutInv
<1>3. ASSUME NEW r \in Requests, Begin(r)
      PROVE  EntryInv'
  BY <1>2, <1>3 DEF Begin, tables
<1>4. CASE Insert
  BY <1>1, <1>4, InsertEntries DEF EntryInv
<1>5. CASE Post
  BY <1>1, <1>5, PostEntries DEF EntryInv
<1>6. CASE Refuse
  BY <1>2, <1>6 DEF Refuse, EndHandler, tables
<1>7. CASE Reply
  BY <1>1, <1>7, ReplyEntries DEF EntryInv
<1>8. CASE Crash
  BY <1>1, <1>8, CrashEntries DEF EntryInv
<1>9. CASE UNCHANGED vars
  <2>1. Incomplete' = Incomplete /\ PrefixInv'
    BY <1>9, SameEntries DEF EntryInv, vars, tables
  <2>2. CutOff' = CutOff
    BY <1>9, <2>1 DEF CutOff, vars
  <2> QED  BY <1>1, <1>9, <2>1, <2>2 DEF EntryInv, CutInv, vars
<1> QED  BY <1>3, <1>4, <1>5, <1>6, <1>7, <1>8, <1>9 DEF Next

LEMMA InitEntries == Init => EntryInv
<1> SUFFICES ASSUME Init
             PROVE  EntryInv
  OBVIOUS
<1>1. BooksInv
  BY InitBooks
<1>2. DOMAIN posted = {} /\ crashes = 0
  BY DEF Init
<1>3. PrefixInv
  BY <1>2 DEF PrefixInv
<1>4. CutOff = {}
  BY <1>2 DEF CutOff, Incomplete
<1>5. CutInv
  BY <1>2, <1>4, FS_EmptySet DEF CutInv
<1> QED  BY <1>1, <1>3, <1>5 DEF EntryInv

(* Whatever is posted, and wherever handlers are cut off: an entry whose    *)
(* lines are all there balances but for half a cent for each amount that is *)
(* no whole number of cents, and at most one entry for each crash has not   *)
(* all its lines.                                                           *)
THEOREM EntriesBalance == Spec => []ImbalanceIsInterrupted
<1>1. ASSUME EntryInv
      PROVE  ImbalanceIsInterrupted
  <2> SUFFICES ASSUME pc = "idle"
               PROVE  /\ \A e \in DOMAIN entries :
                            Cardinality(LinesOf(e)) = Len(posted[e]) =>
                              LET slack == 5 * (Cardinality(UnroundedDebits(e))
                                                    + Cardinality(UnroundedCredits(e)))
                              IN  OutOfBalance(e) \in -slack..slack
                      /\ Cardinality(Incomplete) <= crashes
    BY DEF ImbalanceIsInterrupted
  <2>1. CutOff = Incomplete
    BY DEF CutOff
  <2>2. Cardinality(Incomplete) <= crashes
    BY <1>1, <2>1 DEF EntryInv, CutInv
  <2> QED  BY <1>1, <2>2, WholeEntriesBalance
<1> QED  BY <1>1, InitEntries, StepEntries, PTL DEF Spec
-----------------------------------------------------------------------------
(* The books *)

(* Whole cents, in thousandths *)
Cents == {10 * k : k \in Int}

LEMMA WholeCents ==
    /\ Cents \in SUBSET Int /\ 0 \in Cents
    /\ \A v, w \in Cents : v + w \in Cents /\ v - w \in Cents
    /\ \A v \in Cents : ToFixed2(v) = v
    /\ \A x \in Int : ToFixed2(x) = x => x \in Cents
<1>1. 0 \in Cents
  <2>1. 0 = 10 * 0
    OBVIOUS
  <2> QED  BY <2>1 DEF Cents
<1>2. ASSUME NEW v \in Cents, NEW w \in Cents
      PROVE  v + w \in Cents /\ v - w \in Cents
  <2>1. PICK j \in Int, k \in Int : v = 10 * j /\ w = 10 * k
    BY DEF Cents
  <2>2. v + w = 10 * (j + k) /\ v - w = 10 * (j - k)
    BY <2>1
  <2>3. j + k \in Int /\ j - k \in Int
    OBVIOUS
  <2> QED  BY <2>2, <2>3 DEF Cents
<1>3. ASSUME NEW v \in Cents PROVE ToFixed2(v) = v
  <2>1. PICK k \in Int : v = 10 * k
    BY DEF Cents
  <2> QED  BY <2>1 DEF ToFixed2
<1>4. ASSUME NEW x \in Int, ToFixed2(x) = x PROVE x \in Cents
  <2>1. x = 10 * ((x + 5) \div 10)
    BY <1>4 DEF ToFixed2
  <2>2. (x + 5) \div 10 \in Int
    OBVIOUS
  <2> QED  BY <2>1, <2>2 DEF Cents
<1>5. Cents \in SUBSET Int
  BY DEF Cents
<1> QED  BY <1>1, <1>2, <1>3, <1>4, <1>5

LEMMA CentsAddUp ==
    ASSUME NEW S, IsFiniteSet(S), NEW f \in [S -> Cents]
    PROVE  f \in [S -> Int] /\ SumFunction(f) \in Cents
<1>1. f \in [S -> Int]
  BY WholeCents
<1>2. SumFunction(f) \in Cents
  BY WholeCents, SumsAreClosed
<1> QED  BY <1>1, <1>2

(* The lines of some entries in a project *)
LinesIn(p, R) == {l \in lines : l.project = p /\ l.entry \in R}

(* With dates or without, with an inner join or an outer one, a report reads *)
(* the lines of some entries.                                               *)
LEMMA ReportsReadEntries ==
    ASSUME EntryInv, NEW p \in Projects, NEW dates \in Dates
    PROVE  \E R \in SUBSET Rounded : /\ LinesWithDates(p, dates) = LinesIn(p, R)
                                     /\ LinesWithHeaders(p, dates) = LinesIn(p, R)
<1>1. \A l \in lines : l.entry \in DOMAIN entries
  BY DEF EntryInv, BooksInv, JoinSeesEveryLine
<1>2. CASE dates = AnyDate /\ DOMAIN entries = Rounded
  BY <1>1, <1>2 DEF LinesWithDates, LinesWithHeaders, LinesIn
<1>3. CASE dates \in SUBSET Rounded
  <2>1. 0 \notin DOMAIN entries
    <3>1. DOMAIN entries \subseteq 1..Len(posted)
      BY EntriesAreFinite DEF EntryInv, BooksInv, TypeInv, TypeOK
    <3> QED  BY <3>1
  <2>2. dates # AnyDate /\ dates \subseteq DOMAIN entries
    BY <1>3, <2>1 DEF Rounded, AnyDate
  <2> QED  BY <1>1, <1>3, <2>2 DEF LinesWithDates, LinesWithHeaders, LinesIn
<1> QED  BY <1>2, <1>3 DEF Dates

(* Such entries balance to the cent.                                        *)
LEMMA RoundedEntries ==
    ASSUME EntryInv, NEW e \in Rounded
    PROVE  /\ e \in DOMAIN posted /\ IsFiniteSet(LinesOf(e))
           /\ \A l \in LinesOf(e) : l.debit \in Cents /\ l.credit \in Cents
           /\ OutOfBalance(e) = 0
           /\ \E q \in Projects : \A l \in LinesOf(e) : l.project = q
<1>1. e \in DOMAIN entries /\ Cardinality(LinesOf(e)) = Len(posted[e])
      /\ UnroundedDebits(e) = {} /\ UnroundedCredits(e) = {}
  BY DEF Rounded
<1>2. e \in DOMAIN posted
  BY <1>1 DEF EntryInv, BooksInv, TypeInv, TypeOK
<1>3. /\ IsFiniteSet(LinesOf(e))
      /\ \A l \in LinesOf(e) : l.debit \in Int /\ l.credit \in Int
      /\ LET slack == 5 * (Cardinality(UnroundedDebits(e)) + Cardinality(UnroundedCredits(e)))
         IN  OutOfBalance(e) \in -slack..slack
  BY <1>1, WholeEntriesBalance
<1>4. OutOfBalance(e) = 0
  <2>1. Cardinality(UnroundedDebits(e)) = 0 /\ Cardinality(UnroundedCredits(e)) = 0
    BY <1>1, FS_EmptySet
  <2> QED  BY <1>3, <2>1
<1>5. \A l \in LinesOf(e) : l.debit \in Cents /\ l.credit \in Cents
  BY <1>1, <1>3, WholeCents DEF UnroundedDebits, UnroundedCredits
<1>6. \E q \in Projects : \A l \in LinesOf(e) : l.project = q
  BY <1>2 DEF EntryInv, PrefixInv, FirstLines, LineRow
<1> QED  BY <1>2, <1>3, <1>4, <1>5, <1>6

LEMMA LinesInBalance ==
    ASSUME EntryInv, NEW p \in Projects, NEW R \in SUBSET Rounded
    PROVE  /\ IsFiniteSet(LinesIn(p, R))
           /\ \A l \in LinesIn(p, R) : l.debit \in Cents /\ l.credit \in Cents
           /\ SumFunction([l \in LinesIn(p, R) |-> l.debit - l.credit]) = 0
<1> DEFINE L == LinesIn(p, R)
           f == [l \in L |-> l.debit - l.credit]
           g == [l \in L |-> l.entry]
           h == [e \in R |-> 0]
<1>1. \A e \in R : /\ e \in DOMAIN posted /\ IsFiniteSet(LinesOf(e))
                   /\ \A l \in LinesOf(e) : l.debit \in Cents /\ l.credit \in Cents
                   /\ OutOfBalance(e) = 0
                   /\ \E q \in Projects : \A l \in LinesOf(e) : l.project = q
  BY RoundedEntries
<1>2. IsFiniteSet(R)
  <2>1. R \subseteq 1..Len(posted) /\ Len(posted) \in Nat
    BY <1>1, EntriesAreFinite DEF EntryInv, BooksInv
  <2>2. IsFiniteSet(1..Len(posted))
    BY <2>1, FS_Interval
  <2> QED  BY <2>1, <2>2, FS_Subset
<1>3. \A l \in L : l.entry \in R /\ l \in LinesOf(l.entry)
  BY DEF LinesIn, LinesOf
<1>4. IsFiniteSet(L)
  <2> DEFINE k == [e \in R |-> LinesOf(e)]
             K == {LinesOf(e) : e \in R}
  <2>1. k \in Surjection(R, K)
    BY DEF Surjection
  <2>2. IsFiniteSet(K)
    <3> HIDE DEF k, K
    <3> QED  BY <1>2, <2>1, FS_Surjection
  <2>3. \A T \in K : IsFiniteSet(T)
    BY <1>1
  <2>4. L \subseteq UNION K
    BY <1>3
  <2> HIDE DEF K, L
  <2>5. IsFiniteSet(UNION K)
    BY <2>2, <2>3, FS_UNION
  <2> QED  BY <2>4, <2>5, FS_Subset
<1>5. \A l \in L : l.debit \in Cents /\ l.credit \in Cents /\ l.debit - l.credit \in Int
  <2>1. \A l \in L : l.debit \in Cents /\ l.credit \in Cents
    BY <1>1, <1>3
  <2> QED  BY <2>1, WholeCents
<1>6. ASSUME NEW e \in R
      PROVE  SumFunctionOnSet(f, {l \in L : g[l] = e}) = 0
  <2> DEFINE G == {l \in L : g[l] = e}
  <2>1. G = {} \/ G = LinesOf(e)
    BY <1>1 DEF LinesIn, LinesOf
  <2>2. f \in [L -> Int] /\ G \in SUBSET L
    BY <1>5
  <2>3. CASE G = {}
    <3>1. SumFunctionOnSet(f, {}) = 0
      <4> HIDE DEF f, L
      <4> QED  BY <1>4, <2>2, SumsOnSubsets
    <3> QED  BY <2>3, <3>1
  <2>4. CASE G = LinesOf(e)
    <3> DEFINE b == [l \in LinesOf(e) |-> l.debit - l.credit]
    <3>1. LinesOf(e) \in SUBSET L /\ b \in [LinesOf(e) -> Int]
          /\ \A l \in LinesOf(e) : b[l] = f[l]
      BY <1>5, <2>2, <2>4
    <3>2. SumFunction(b) = 0
      BY <1>1 DEF OutOfBalance
    <3> HIDE DEF b, f, L, G
    <3>3. SumFunction(b) = SumFunctionOnSet(f, LinesOf(e))
      BY <1>4, <2>2, <3>1, SameSum
    <3> QED  BY <2>4, <3>2, <3>3 DEF G
  <2> QED  BY <2>1, <2>3, <2>4
<1>7. Groups(f, L, g, R, h)
  BY <1>3, <1>5, <1>6 DEF Groups
<1>8. SumFunction(h) = SumFunction(f)
  <2> HIDE DEF f, g, h, L
  <2> QED  BY <1>2, <1>4, <1>7, SumByGroups
<1>9. SumFunction(h) = 0
  <2> DEFINE V == {0}
  <2>1. V \in SUBSET Int /\ 0 \in V /\ (\A v, w \in V : v + w \in V) /\ h \in [R -> V]
    OBVIOUS
  <2> HIDE DEF V, h
  <2>2. SumFunction(h) \in V
    BY <1>2, <2>1, SumsAreClosed
  <2> QED  BY <2>2 DEF V
<1> QED  BY <1>4, <1>5, <1>8, <1>9
(* The rows of such lines are whole cents, and sum up to what the lines do. *)
LEMMA RowsOfCents ==
    ASSUME NEW L, IsFiniteSet(L), \A l \in L : l.debit \in Cents /\ l.credit \in Cents
    PROVE  LET rows  == ByCode(L)
               codes == {l.code : l \in L}
           IN  /\ IsFiniteSet(codes) /\ DOMAIN rows = codes
               /\ \A c \in codes : /\ rows[c].debit \in Cents /\ rows[c].credit \in Cents
                                   /\ Balance(rows[c]) = rows[c].debit - rows[c].credit
                                   /\ Balance(rows[c]) \in Cents
               /\ TotalOf(rows, codes) = SumFunction([l \in L |-> l.debit - l.credit])
<1> DEFINE C == {l.code : l \in L}
           G(c) == {l \in L : l.code = c}
           rows == ByCode(L)
           f == [l \in L |-> l.debit - l.credit]
           g == [l \in L |-> l.code]
           h == [c \in C |-> Balance(rows[c])]
<1>1. IsFiniteSet(C)
  <2>1. g \in Surjection(L, C)
    BY DEF Surjection
  <2> HIDE DEF g, C
  <2> QED  BY <2>1, FS_Surjection
<1>2. DOMAIN rows = C
  BY DEF ByCode
<1>3. ASSUME NEW c \in C
      PROVE  /\ rows[c].debit \in Cents /\ rows[c].credit \in Cents
             /\ Balance(rows[c]) = rows[c].debit - rows[c].credit
             /\ Balance(rows[c]) \in Cents
             /\ Balance(rows[c]) = SumFunctionOnSet(f, {l \in L : g[l] = c})
  <2> DEFINE D == [l \in G(c) |-> l.debit]
             E == [l \in G(c) |-> l.credit]
             d == [l \in G(c) |-> D[l] - E[l]]
  <2>1. rows[c].debit = SumFunction(D) /\ rows[c].credit = SumFunction(E)
    BY DEF ByCode
  <2>2. IsFiniteSet(G(c)) /\ G(c) \in SUBSET L
    BY FS_Subset
  <2>3. D \in [G(c) -> Cents] /\ E \in [G(c) -> Cents]
    OBVIOUS
  <2>4. /\ D \in [G(c) -> Int] /\ SumFunction(D) \in Cents
        /\ E \in [G(c) -> Int] /\ SumFunction(E) \in Cents
    <3> HIDE DEF D, E, G
    <3> QED  BY <2>2, <2>3, CentsAddUp
  <2>5. SumFunction(d) = SumFunction(D) - SumFunction(E)
    <3> HIDE DEF D, E, G
    <3> QED  BY <2>2, <2>4, SumOfDifferences
  <2>6. /\ f \in [L -> Int] /\ d \in [G(c) -> Int]
        /\ \A l \in G(c) : d[l] = f[l]
    BY WholeCents
  <2>7. SumFunction(d) = SumFunctionOnSet(f, G(c))
    <3> HIDE DEF d, f, G
    <3> QED  BY <2>2, <2>6, SameSum
  <2>8. G(c) = {l \in L : g[l] = c}
    OBVIOUS
  <2>9. SumFunction(D) - SumFunction(E) \in Cents
        /\ ToFixed2(SumFunction(D) - SumFunction(E)) = SumFunction(D) - SumFunction(E)
    BY <2>4, WholeCents
  <2> HIDE DEF D, E, d, f, g, G, rows
  <2> QED  BY <2>1, <2>4, <2>5, <2>7, <2>8, <2>9 DEF Balance
<1>4. Groups(f, L, g, C, h)
  <2>1. f \in [L -> Int] /\ g \in [L -> C]
    BY WholeCents
  <2>2. h \in [C -> Int] /\ \A c \in C : h[c] = SumFunctionOnSet(f, {l \in L : g[l] = c})
    <3> HIDE DEF f, g, rows, C
    <3> QED  BY <1>3, WholeCents
  <2> HIDE DEF f, g, h, C
  <2> QED  BY <2>1, <2>2 DEF Groups
<1>5. SumFunction(h) = SumFunction(f)
  <2> HIDE DEF f, g, h, C
  <2> QED  BY <1>1, <1>4, SumByGroups
<1>6. TotalOf(rows, C) = SumFunction(h)
  BY DEF TotalOf
<1> HIDE DEF h, rows
<1> QED  BY <1>1, <1>2, <1>3, <1>5, <1>6 DEF rows
(* Rows of whole cents, for some codes *)
CentRows(rows, C) ==
    /\ IsFiniteSet(C) /\ DOMAIN rows = C
    /\ \A c \in C : /\ rows[c].debit \in Cents /\ rows[c].credit \in Cents
                    /\ Balance(rows[c]) = rows[c].debit - rows[c].credit
                    /\ Balance(rows[c]) \in Cents

(* What some of the codes come to, debit less credit and credit less debit. *)
LEMMA TotalsOfCents ==
    ASSUME NEW rows, NEW C, CentRows(rows, C), NEW K \in SUBSET C
    PROVE  /\ TotalOf(rows, K) \in Cents
           /\ TotalOf(rows, K) = SumFunctionOnSet([c \in C |-> Balance(rows[c])], K)
           /\ SumFunction([c \in K |-> rows[c].debit - rows[c].credit]) = TotalOf(rows, K)
           /\ SumFunction([c \in K |-> rows[c].credit - rows[c].debit]) = -TotalOf(rows, K)
<1> DEFINE B == [c \in C |-> Balance(rows[c])]
           b == [c \in K |-> Balance(rows[c])]
           D == [c \in K |-> rows[c].debit]
           E == [c \in K |-> rows[c].credit]
<1>1. IsFiniteSet(C) /\ IsFiniteSet(K)
  BY FS_Subset DEF CentRows
<1>2. b \in [K -> Cents] /\ D \in [K -> Cents] /\ E \in [K -> Cents]
  BY DEF CentRows
<1>3. TotalOf(rows, K) = SumFunction(b)
  BY DEF TotalOf
<1>4. /\ b \in [K -> Int] /\ SumFunction(b) \in Cents
      /\ D \in [K -> Int] /\ SumFunction(D) \in Cents
      /\ E \in [K -> Int] /\ SumFunction(E) \in Cents
  <2> HIDE DEF b, D, E
  <2> QED  BY <1>1, <1>2, CentsAddUp
<1>5. SumFunction(b) = SumFunctionOnSet(B, K)
  <2>1. B \in [C -> Int] /\ \A c \in K : b[c] = B[c]
    BY WholeCents DEF CentRows
  <2> HIDE DEF b, B
  <2> QED  BY <1>1, <1>4, <2>1, SameSum
<1>6. /\ SumFunction([c \in K |-> D[c] - E[c]]) = SumFunction(D) - SumFunction(E)
      /\ SumFunction([c \in K |-> E[c] - D[c]]) = SumFunction(E) - SumFunction(D)
  <2> HIDE DEF D, E
  <2> QED  BY <1>1, <1>4, SumOfDifferences
<1>7. /\ [c \in K |-> D[c] - E[c]] = [c \in K |-> rows[c].debit - rows[c].credit]
      /\ [c \in K |-> E[c] - D[c]] = [c \in K |-> rows[c].credit - rows[c].debit]
      /\ b = [c \in K |-> rows[c].debit - rows[c].credit]
  BY DEF CentRows
<1>8. SumFunction(D) \in Int /\ SumFunction(E) \in Int
  BY <1>4, WholeCents
<1> HIDE DEF b, D, E
<1> QED  BY <1>3, <1>4, <1>5, <1>6, <1>7, <1>8

(* The sheet of such rows comes to what the rows do, less those of a type   *)
(* it does not know, and its earnings are the net income.                   *)
LEMMA SheetOfRows ==
    ASSUME NEW p \in Projects, NEW naming, NEW rows, NEW C \in SUBSET Codes, CentRows(rows, C),
           \A c \in C : accounts[p][c] > 0
    PROVE  /\ TotalOf(rows, OfType(p, naming, rows, "Asset"))
                  + TotalOf(rows, OfType(p, naming, rows, "Liability"))
                  + (TotalOf(rows, OfType(p, naming, rows, "Equity")) + Earnings(p, naming, rows))
                = TotalOf(rows, C) - TotalOf(rows, Unfiled(p, naming, rows))
           /\ TotalOf(rows, Unfiled(p, naming, rows)) \in Int
           /\ LET revenue == ToFixed2(SumFunction([code \in OfType(p, naming, rows, "Revenue") |->
                                                      rows[code].credit - rows[code].debit]))
                  expense == ToFixed2(SumFunction([code \in OfType(p, naming, rows, "Expense") |->
                                                      rows[code].debit - rows[code].credit]))
              IN  Earnings(p, naming, rows) = -ToFixed2(revenue - expense)
<1> DEFINE B == [c \in C |-> Balance(rows[c])]
           F(K) == SumFunctionOnSet(B, K)
           T(t) == OfType(p, naming, rows, t)
           A == T("Asset")
           L == T("Liability")
           Q == T("Equity")
           R == T("Revenue")
           X == T("Expense")
           U == Unfiled(p, naming, rows)
<1>1. /\ \A t : T(t) = {c \in C : naming[c] = t}
      /\ U = {c \in C : naming[c] \notin Types}
  BY DEF OfType, Unfiled, TypeNamed, CentRows
<1>2. /\ A \in SUBSET C /\ L \in SUBSET C /\ Q \in SUBSET C /\ R \in SUBSET C /\ X \in SUBSET C
      /\ U \in SUBSET C
      /\ A \cap L = {} /\ (A \cup L) \cap Q = {} /\ ((A \cup L) \cup Q) \cap (R \cup X) = {}
      /\ R \cap X = {} /\ (((A \cup L) \cup Q) \cup (R \cup X)) \cap U = {}
      /\ (((A \cup L) \cup Q) \cup (R \cup X)) \cup U = C
  <2>1. /\ A = {c \in C : naming[c] = "Asset"} /\ L = {c \in C : naming[c] = "Liability"}
        /\ Q = {c \in C : naming[c] = "Equity"} /\ R = {c \in C : naming[c] = "Revenue"}
        /\ X = {c \in C : naming[c] = "Expense"}
        /\ U = {c \in C : naming[c] \notin {"Asset", "Liability", "Equity", "Revenue", "Expense"}}
    BY <1>1 DEF Types
  <2> HIDE DEF T, U
  <2> QED  BY <2>1
<1>3. B \in [C -> Int] /\ IsFiniteSet(C)
  BY WholeCents DEF CentRows
<1>4. \A K \in SUBSET C : TotalOf(rows, K) = F(K) /\ F(K) \in Cents /\ F(K) \in Int
  BY TotalsOfCents, WholeCents
<1> HIDE DEF B, T, U
<1>5. /\ F(A \cup L) = F(A) + F(L)
      /\ F((A \cup L) \cup Q) = F(A \cup L) + F(Q)
      /\ F(R \cup X) = F(R) + F(X)
      /\ F(((A \cup L) \cup Q) \cup (R \cup X)) = F((A \cup L) \cup Q) + F(R \cup X)
      /\ F((((A \cup L) \cup Q) \cup (R \cup X)) \cup U)
            = F(((A \cup L) \cup Q) \cup (R \cup X)) + F(U)
  <2> HIDE DEF A, L, Q, R, X
  <2>1. /\ A \cup L \in SUBSET C /\ (A \cup L) \cup Q \in SUBSET C /\ R \cup X \in SUBSET C
        /\ ((A \cup L) \cup Q) \cup (R \cup X) \in SUBSET C
    BY <1>2
  <2>2. F(A \cup L) = F(A) + F(L)
    BY <1>2, <1>3, SumOfUnion
  <2>3. F((A \cup L) \cup Q) = F(A \cup L) + F(Q)
    BY <1>2, <1>3, <2>1, SumOfUnion
  <2>4. F(R \cup X) = F(R) + F(X)
    BY <1>2, <1>3, SumOfUnion
  <2>5. F(((A \cup L) \cup Q) \cup (R \cup X)) = F((A \cup L) \cup Q) + F(R \cup X)
    BY <1>2, <1>3, <2>1, SumOfUnion
  <2>6. F((((A \cup L) \cup Q) \cup (R \cup X)) \cup U)
            = F(((A \cup L) \cup Q) \cup (R \cup X)) + F(U)
    BY <1>2, <1>3, <2>1, SumOfUnion
  <2> QED  BY <2>2, <2>3, <2>4, <2>5, <2>6
<1>6. /\ Earnings(p, naming, rows) = TotalOf(rows, R \cup X)
      /\ R \cup X \in SUBSET C
  BY <1>2 DEF Earnings, T
<1>7. /\ F(A) \in Int /\ F(L) \in Int /\ F(Q) \in Int /\ F(R) \in Int /\ F(X) \in Int
      /\ F(R) \in Cents /\ F(X) \in Cents
      /\ F(A \cup L) \in Int /\ F((A \cup L) \cup Q) \in Int /\ F(R \cup X) \in Int
      /\ F(U) \in Int /\ TotalOf(rows, U) = F(U)
      /\ TotalOf(rows, A) = F(A) /\ TotalOf(rows, L) = F(L) /\ TotalOf(rows, Q) = F(Q)
      /\ TotalOf(rows, R) = F(R) /\ TotalOf(rows, X) = F(X)
      /\ TotalOf(rows, R \cup X) = F(R \cup X)
      /\ TotalOf(rows, C) = F((((A \cup L) \cup Q) \cup (R \cup X)) \cup U)
  <2> HIDE DEF A, L, Q, R, X, F
  <2> QED  BY <1>2, <1>4
<1>8. TotalOf(rows, A) + TotalOf(rows, L) + (TotalOf(rows, Q) + Earnings(p, naming, rows))
         = TotalOf(rows, C) - TotalOf(rows, U)
  <2> HIDE DEF A, L, Q, R, X, F
  <2> QED  BY <1>5, <1>6, <1>7
<1>9. /\ SumFunction([c \in R |-> rows[c].credit - rows[c].debit]) = -F(R)
      /\ SumFunction([c \in X |-> rows[c].debit - rows[c].credit]) = F(X)
  <2> HIDE DEF A, L, Q, R, X, F
  <2>1. /\ SumFunction([c \in R |-> rows[c].credit - rows[c].debit]) = -TotalOf(rows, R)
        /\ SumFunction([c \in X |-> rows[c].debit - rows[c].credit]) = TotalOf(rows, X)
    BY <1>2, TotalsOfCents
  <2> QED  BY <1>7, <2>1
<1>10. /\ ToFixed2(-F(R)) = -F(R) /\ ToFixed2(F(X)) = F(X)
       /\ ToFixed2(-F(R) - F(X)) = -F(R) - F(X)
  <2> HIDE DEF F
  <2>1. -F(R) = 0 - F(R)
    BY <1>7
  <2>2. -F(R) \in Cents
    BY <1>7, <2>1, WholeCents
  <2>3. -F(R) - F(X) \in Cents
    BY <1>7, <2>2, WholeCents
  <2> QED  BY <1>7, <2>2, <2>3, WholeCents
<1>11. Earnings(p, naming, rows) = -(-F(R) - F(X))
  <2> HIDE DEF A, L, Q, R, X, F
  <2> QED  BY <1>5, <1>6, <1>7
<1> QED  BY <1>7, <1>8, <1>9, <1>10, <1>11 DEF T, U

(* Whatever is posted, wherever handlers are cut off, whatever dates a      *)
(* report is asked for and whatever types the accounts have: the balance    *)
(* sheet of entries that are stored whole, in whole cents, is out of        *)
(* balance by the accounts of a type it does not know and by nothing else,  *)
(* and its earnings are the net income.                                     *)
THEOREM SheetsBalance == Spec => []BooksBalance
<1>1. ASSUME EntryInv
      PROVE  BooksBalance
  <2> SUFFICES ASSUME NEW p \in Projects, NEW dates \in Dates, NEW naming \in Namings
               PROVE  LET sheet == BalanceSheet(p, naming, dates)
                          read  == ByCode(LinesWithHeaders(p, dates))
                      IN  /\ sheet.assets + sheet.liabilities + sheet.equity
                                = -TotalOf(read, Unfiled(p, naming, read))
                          /\ sheet.earnings = -ProfitAndLoss(p, naming, dates).net
    BY DEF BooksBalance
  <2>1. PICK R \in SUBSET Rounded : /\ LinesWithDates(p, dates) = LinesIn(p, R)
                                    /\ LinesWithHeaders(p, dates) = LinesIn(p, R)
    BY <1>1, ReportsReadEntries
  <2> DEFINE L == LinesIn(p, R)
             rows == ByCode(L)
             C == {l.code : l \in L}
  <2>2. /\ IsFiniteSet(L)
        /\ \A l \in L : l.debit \in Cents /\ l.credit \in Cents
        /\ SumFunction([l \in L |-> l.debit - l.credit]) = 0
    BY <1>1, LinesInBalance
  <2>3. CentRows(rows, C) /\ TotalOf(rows, C) = 0
    <3> HIDE DEF L
    <3> QED  BY <2>2, RowsOfCents DEF CentRows
  <2>4. C \in SUBSET Codes /\ \A c \in C : accounts[p][c] > 0
    BY <1>1 DEF LinesIn, EntryInv, BooksInv, TypeInv, TypeOK, JoinSeesEveryLine
  <2>5. /\ BalanceSheet(p, naming, dates).assets = TotalOf(rows, OfType(p, naming, rows, "Asset"))
        /\ BalanceSheet(p, naming, dates).liabilities = TotalOf(rows, OfType(p, naming, rows, "Liability"))
        /\ BalanceSheet(p, naming, dates).earnings = Earnings(p, naming, rows)
        /\ BalanceSheet(p, naming, dates).equity = TotalOf(rows, OfType(p, naming, rows, "Equity")) + Earnings(p, naming, rows)
    BY <2>1 DEF BalanceSheet
  <2>6. ProfitAndLoss(p, naming, dates).net =
            LET revenue == ToFixed2(SumFunction([code \in OfType(p, naming, rows, "Revenue") |->
                                                    rows[code].credit - rows[code].debit]))
                expense == ToFixed2(SumFunction([code \in OfType(p, naming, rows, "Expense") |->
                                                    rows[code].debit - rows[code].credit]))
            IN  ToFixed2(revenue - expense)
    BY <2>1 DEF ProfitAndLoss
  <2>7. ByCode(LinesWithHeaders(p, dates)) = rows
    BY <2>1
  <2> HIDE DEF rows, C, L
  <2>8. /\ TotalOf(rows, OfType(p, naming, rows, "Asset"))
              + TotalOf(rows, OfType(p, naming, rows, "Liability"))
              + (TotalOf(rows, OfType(p, naming, rows, "Equity")) + Earnings(p, naming, rows))
              = -TotalOf(rows, Unfiled(p, naming, rows))
        /\ Earnings(p, naming, rows) = -ProfitAndLoss(p, naming, dates).net
    <3> DEFINE total == TotalOf(rows, OfType(p, naming, rows, "Asset"))
                           + TotalOf(rows, OfType(p, naming, rows, "Liability"))
                           + (TotalOf(rows, OfType(p, naming, rows, "Equity")) + Earnings(p, naming, rows))
               rest  == TotalOf(rows, Unfiled(p, naming, rows))
    <3>1. total = TotalOf(rows, C) - rest /\ rest \in Int
      BY <2>3, <2>4, SheetOfRows
    <3>2. Earnings(p, naming, rows) = -ProfitAndLoss(p, naming, dates).net
      <4> DEFINE revenue == ToFixed2(SumFunction([code \in OfType(p, naming, rows, "Revenue") |->
                                                     rows[code].credit - rows[code].debit]))
                 expense == ToFixed2(SumFunction([code \in OfType(p, naming, rows, "Expense") |->
                                                     rows[code].debit - rows[code].credit]))
                 net == ProfitAndLoss(p, naming, dates).net
      <4>1. Earnings(p, naming, rows) = -ToFixed2(revenue - expense)
        BY <2>3, <2>4, SheetOfRows
      <4>2. net = ToFixed2(revenue - expense)
        BY <2>6
      <4> HIDE DEF revenue, expense, net
      <4>3. Earnings(p, naming, rows) = -net
        BY <4>1, <4>2
      <4> QED  BY <4>3 DEF net
    <3> HIDE DEF total, rest
    <3>3. total = -rest
      BY <2>3, <3>1
    <3> QED  BY <3>2, <3>3 DEF total, rest
  <2> QED  BY <2>5, <2>7, <2>8
<1> QED  BY <1>1, InitEntries, StepEntries, PTL DEF Spec
-----------------------------------------------------------------------------
(* The reports *)

LEMMA LinesAreFinite ==
    ASSUME EntryInv
    PROVE  /\ IsFiniteSet(lines)
           /\ \A l \in lines : l.debit \in Int /\ l.credit \in Int /\ l.code \in Codes
<1> DEFINE k == [e \in DOMAIN posted |-> LinesOf(e)]
           K == {LinesOf(e) : e \in DOMAIN posted}
<1>1. ASSUME NEW e \in DOMAIN posted
      PROVE  /\ IsFiniteSet(LinesOf(e))
             /\ \A l \in LinesOf(e) : l.debit \in Int /\ l.credit \in Int
  <2> DEFINE ls == posted[e]
  <2>1. ls \in Postings
    BY LenProperties, ElementOfSeq DEF EntryInv, BooksInv, TypeInv, TypeOK
  <2>2. /\ Len(ls) \in Nat /\ DOMAIN ls = 1..Len(ls)
        /\ \A j \in DOMAIN ls : ls[j].debit \in Int /\ ls[j].credit \in Int
    <3> HIDE DEF ls
    <3> QED  BY <2>1, PostingsAreNumbers
  <2>3. PICK p \in Projects, n \in 0..Len(ls) : LinesOf(e) = FirstLines(e, p, ls, n)
    BY DEF EntryInv, PrefixInv
  <2> HIDE DEF ls
  <2>4. n \in Nat /\ 1..n \subseteq DOMAIN ls
    BY <2>2
  <2>5. IsFiniteSet(FirstLines(e, p, ls, n))
    BY <2>4, LinesAreNumbered
  <2>6. \A l \in FirstLines(e, p, ls, n) : l.debit \in Int /\ l.credit \in Int
    BY <2>2, <2>4 DEF FirstLines, LineRow
  <2> QED  BY <2>3, <2>5, <2>6
<1>2. \A l \in lines : l.entry \in DOMAIN posted /\ l.code \in Codes /\ l \in LinesOf(l.entry)
  BY DEF EntryInv, BooksInv, TypeInv, TypeOK, LinesOf
<1>3. IsFiniteSet(DOMAIN posted)
  BY EntriesAreFinite, FS_Interval DEF EntryInv, BooksInv
<1>4. k \in Surjection(DOMAIN posted, K)
  BY DEF Surjection
<1>5. IsFiniteSet(K)
  <2> HIDE DEF k, K
  <2> QED  BY <1>3, <1>4, FS_Surjection
<1>6. IsFiniteSet(UNION K)
  <2>1. \A T \in K : IsFiniteSet(T)
    BY <1>1
  <2> HIDE DEF K
  <2> QED  BY <1>5, <2>1, FS_UNION
<1>7. lines \subseteq UNION K
  BY <1>2
<1> HIDE DEF K
<1> QED  BY <1>1, <1>2, <1>6, <1>7, FS_Subset

(* The balances of some lines by project and code *)
Key(l) == <<l.project, l.code>>
Debits == [l \in lines |-> l.debit]
Credits == [l \in lines |-> l.credit]
With(s, key) == {l \in s : Key(l) = key}

ByKey(s) ==
    [key \in {Key(l) : l \in s} |-> [debit  |-> SumFunctionOnSet(Debits, With(s, key)),
                                     credit |-> SumFunctionOnSet(Credits, With(s, key))]]

(* What the loop of overallTrialBalance does with one line *)
AddLine(l, acc) ==
    LET key == <<l.project, l.code>>
        old == IF key \in DOMAIN acc THEN acc[key] ELSE [debit |-> 0, credit |-> 0]
        new == [debit |-> old.debit + l.debit, credit |-> old.credit + l.credit]
    IN  [k \in DOMAIN acc \cup {key} |-> IF k = key THEN new ELSE acc[k]]

LEMMA OneLineMore ==
    ASSUME EntryInv, NEW s \in SUBSET lines, NEW x \in lines \ s
    PROVE  ByKey(s \cup {x}) = AddLine(x, ByKey(s))
<1> DEFINE t == s \cup {x}
           A == AddLine(x, ByKey(s))
           B == ByKey(t)
<1>1. /\ Debits \in [lines -> Int] /\ Credits \in [lines -> Int] /\ IsFiniteSet(lines)
      /\ Debits[x] = x.debit /\ Credits[x] = x.credit
      /\ x.debit \in Int /\ x.credit \in Int
  BY LinesAreFinite DEF Debits, Credits
<1>2. DOMAIN B = {Key(l) : l \in s} \cup {Key(x)} /\ DOMAIN A = {Key(l) : l \in s} \cup {Key(x)}
  BY DEF ByKey, AddLine, Key
<1>3. ASSUME NEW key \in DOMAIN B
      PROVE  A[key] = B[key]
  <2>1. B[key] = [debit  |-> SumFunctionOnSet(Debits, With(t, key)),
                  credit |-> SumFunctionOnSet(Credits, With(t, key))]
    BY DEF ByKey
  <2>2. With(s, key) \in SUBSET lines /\ x \in lines \ With(s, key)
    BY DEF With
  <2>3. CASE key # Key(x)
    <3>1. With(t, key) = With(s, key)
      BY <2>3 DEF With
    <3>2. A[key] = ByKey(s)[key] /\ key \in {Key(l) : l \in s}
      BY <1>2, <2>3 DEF AddLine, Key, ByKey
    <3>3. ByKey(s)[key] = [debit  |-> SumFunctionOnSet(Debits, With(s, key)),
                           credit |-> SumFunctionOnSet(Credits, With(s, key))]
      BY <3>2 DEF ByKey
    <3> QED  BY <2>1, <3>1, <3>2, <3>3
  <2>4. CASE key = Key(x)
    <3> DEFINE old == IF key \in DOMAIN ByKey(s) THEN ByKey(s)[key]
                      ELSE [debit |-> 0, credit |-> 0]
    <3>1. With(t, key) = With(s, key) \cup {x}
      BY <2>4 DEF With
    <3>2. /\ SumFunctionOnSet(Debits, With(s, key) \cup {x})
                = x.debit + SumFunctionOnSet(Debits, With(s, key))
          /\ SumFunctionOnSet(Credits, With(s, key) \cup {x})
                = x.credit + SumFunctionOnSet(Credits, With(s, key))
          /\ SumFunctionOnSet(Debits, With(s, key)) \in Int
          /\ SumFunctionOnSet(Credits, With(s, key)) \in Int
          /\ SumFunctionOnSet(Debits, {}) = 0 /\ SumFunctionOnSet(Credits, {}) = 0
      BY <1>1, <2>2, SumsOnSubsets
    <3>3. old = [debit  |-> SumFunctionOnSet(Debits, With(s, key)),
                 credit |-> SumFunctionOnSet(Credits, With(s, key))]
      <4>1. CASE key \in DOMAIN ByKey(s)
        BY <4>1 DEF ByKey
      <4>2. CASE key \notin DOMAIN ByKey(s)
        <5>1. With(s, key) = {}
          BY <4>2 DEF ByKey, With
        <5> QED  BY <3>2, <4>2, <5>1
      <4> QED  BY <4>1, <4>2
    <3>4. A[key] = [debit |-> old.debit + x.debit, credit |-> old.credit + x.credit]
      BY <2>4 DEF AddLine, Key
    <3> HIDE DEF old, A, B, t
    <3>5. /\ old.debit = SumFunctionOnSet(Debits, With(s, key))
          /\ old.credit = SumFunctionOnSet(Credits, With(s, key))
      BY <3>3
    <3>6. /\ old.debit + x.debit = SumFunctionOnSet(Debits, With(t, key))
          /\ old.credit + x.credit = SumFunctionOnSet(Credits, With(t, key))
      <4>1. \A v, w \in Int : v + w = w + v
        OBVIOUS
      <4> QED  BY <1>1, <3>1, <3>2, <3>5, <4>1
    <3> QED  BY <2>1, <3>4, <3>6
  <2> QED  BY <2>3, <2>4
<1>4. A = [key \in DOMAIN A |-> A[key]] /\ B = [key \in DOMAIN B |-> B[key]]
  BY DEF ByKey, AddLine
<1> HIDE DEF A, B
<1>5. A = B
  BY <1>2, <1>3, <1>4
<1> QED  BY <1>5 DEF A, B

(* The loop over all lines comes to their balances by project and code.     *)
LEMMA OverallIsByKey ==
    ASSUME EntryInv
    PROVE  OverallTrialBalance = ByKey(lines)
<1> DEFINE Chosen(s) == CHOOSE x \in s : TRUE
           Step(h, s) == IF s = {} THEN <<>> ELSE AddLine(Chosen(s), h[s \ {Chosen(s)}])
           P(h) == h = [s \in SUBSET lines |-> Step(h, s)]
           F == CHOOSE h : P(h)
           g == [s \in SUBSET lines |-> ByKey(s)]
<1>1. ByKey({}) = <<>>
  <2>1. ByKey({}) = [key \in {} |-> ByKey({})[key]]
    BY DEF ByKey
  <2> QED  BY <2>1
<1>2. ASSUME NEW s \in SUBSET lines, s # {}
      PROVE  ByKey(s) = AddLine(Chosen(s), ByKey(s \ {Chosen(s)})) /\ s \ {Chosen(s)} \in SUBSET lines
  <2>1. Chosen(s) \in s
    BY <1>2
  <2> HIDE DEF Chosen
  <2>2. s = (s \ {Chosen(s)}) \cup {Chosen(s)} /\ s \ {Chosen(s)} \in SUBSET lines
        /\ Chosen(s) \in lines \ (s \ {Chosen(s)})
    BY <2>1
  <2> DEFINE u == s \ {Chosen(s)}
  <2> HIDE DEF u
  <2>3. ByKey(u \cup {Chosen(s)}) = AddLine(Chosen(s), ByKey(u))
    BY <2>2, OneLineMore DEF u
  <2> QED  BY <2>2, <2>3 DEF u
<1>3. P(g)
  <2>1. ASSUME NEW s \in SUBSET lines PROVE g[s] = Step(g, s)
    <3> HIDE DEF Chosen
    <3> QED  BY <1>1, <1>2
  <2>2. g = [s \in SUBSET lines |-> g[s]]
    OBVIOUS
  <2> HIDE DEF Step, g
  <2> QED  BY <2>1, <2>2
<1>4. P(F)
  <2> HIDE DEF P, g
  <2> QED  BY <1>3
<1>5. OverallTrialBalance = F[lines]
  BY DEF OverallTrialBalance, FoldSet, MapThenFoldSet, AddLine
<1> DEFINE E == F
           T == {s \in SUBSET lines : E[s] = ByKey(s)}
<1> HIDE DEF F
<1>6. \A s \in SUBSET lines : E[s] = Step(E, s)
  <2> HIDE DEF Step, E
  <2> QED  BY <1>4 DEF E
<1>7. Inductive(T, lines, AnyOf(lines))
  <2>1. {} \in T
    <3> HIDE DEF E
    <3> QED  BY <1>1, <1>6
  <2>2. ASSUME NEW s \in (SUBSET lines) \ {{}}, s \ {AnyOf(lines)[s]} \in T
        PROVE  s \in T
    <3>1. AnyOf(lines)[s] = Chosen(s)
      BY DEF AnyOf
    <3>2. E[s \ {Chosen(s)}] = ByKey(s \ {Chosen(s)})
      BY <2>2, <3>1
    <3> HIDE DEF E, Chosen
    <3>3. E[s] = AddLine(Chosen(s), E[s \ {Chosen(s)}])
      BY <1>6
    <3>4. E[s] = ByKey(s)
      BY <1>2, <3>2, <3>3
    <3> QED  BY <3>4
  <2> HIDE DEF T
  <2> QED  BY <2>1, <2>2 DEF Inductive
<1>8. SUBSET lines \subseteq T
  <2>1. IsFiniteSet(lines)
    BY LinesAreFinite
  <2> HIDE DEF T
  <2> QED  BY <1>7, <2>1, AnyPicks, InductionOnSubsets
<1> QED
  <2>1. lines \in T
    BY <1>8
  <2> QED  BY <1>5, <2>1
(* The last balance of an account ledger, in whatever order its lines are,  *)
(* is that of the trial balance.                                            *)
LEMMA LedgersEndInBalance ==
    ASSUME NEW G, IsFiniteSet(G), G # {},
           \A l \in G : l.debit \in Int /\ l.credit \in Int,
           NEW s \in SetToSeqs(G)
    PROVE  Last(Running(s)) = ToFixed2(SumFunction([l \in G |-> l.debit])
                                           - SumFunction([l \in G |-> l.credit]))
<1> DEFINE N == Cardinality(G)
           D == [l \in G |-> l.debit]
           E == [l \in G |-> l.credit]
           f == [l \in G |-> D[l] - E[l]]
           g == [k \in 1..N |-> s[k].debit - s[k].credit]
<1>1. N \in Nat \ {0}
  BY FS_CardinalityType, FS_EmptySet
<1>2. s \in Bijection(1..N, G)
  <2>1. s \in [1..N -> G] /\ \A j, k \in 1..N : s[j] = s[k] => j = k
    BY DEF SetToSeqs
  <2>2. s \in Injection(1..N, G)
    BY <2>1 DEF Injection, IsInjective
  <2>3. IsFiniteSet(1..N) /\ Cardinality(1..N) = N
    <3>1. Cardinality(1..N) = IF 1 > N THEN 0 ELSE N - 1 + 1
      BY <1>1, FS_Interval
    <3> QED  BY <1>1, <3>1, FS_Interval
  <2> DEFINE I == 1..N
  <2> HIDE DEF I
  <2>4. Cardinality(I) = Cardinality(G) /\ IsFiniteSet(I) /\ s \in Injection(I, G)
    BY <2>2, <2>3 DEF I
  <2>5. s \in Surjection(I, G)
    BY <2>4, FS_Injection
  <2> QED  BY <2>2, <2>5 DEF Bijection, I
<1>3. /\ D \in [G -> Int] /\ E \in [G -> Int] /\ f \in [G -> Int]
      /\ s \in [1..N -> G] /\ g \in [1..N -> Int] /\ \A k \in 1..N : g[k] = f[s[k]]
  BY <1>2 DEF Bijection, Injection
<1>4. SumFunction(g) = SumFunction(f)
  <2>1. Counts(g, 1..N, s, f, G)
    <3> HIDE DEF D, E, f, g, N
    <3> QED  BY <1>2, <1>3 DEF Counts
  <2> HIDE DEF D, E, f, g, N
  <2> QED  BY <2>1, SumByBijection
<1>5. SumFunction(f) = SumFunction(D) - SumFunction(E)
  <2> HIDE DEF D, E
  <2> QED  BY <1>3, SumOfDifferences
<1>6. Last(Running(s)) = ToFixed2(SumFunction(g))
  <2> DEFINE r == Running(s)
  <2>1. DOMAIN s = 1..N
    BY <1>3
  <2>2. r = [n \in 1..N |-> ToFixed2(SumFunction([k \in 1..n |-> s[k].debit - s[k].credit]))]
    BY <2>1 DEF Running
  <2>3. DOMAIN r = 1..N /\ r[N] = ToFixed2(SumFunction(g))
    BY <1>1, <2>2
  <2>4. r \in Seq({r[n] : n \in 1..N})
    <3>1. r \in [1..N -> {r[n] : n \in 1..N}]
      BY <2>2
    <3> HIDE DEF r
    <3> QED  BY <1>1, <3>1
  <2>5. Len(r) = N
    <3> HIDE DEF r, N
    <3> QED  BY <1>1, <2>3, <2>4, LenProperties
  <2> HIDE DEF r
  <2>6. Last(r) = r[N]
    BY <2>5 DEF Last
  <2> QED  BY <2>3, <2>6 DEF r
<1> QED  BY <1>4, <1>5, <1>6

(* The overall trial balance, the trial balance and the last balance of     *)
(* every account ledger agree, with interrupted entries and fractions of a  *)
(* cent among the lines.                                                    *)
THEOREM TrialBalancesAgree == Spec => []ReportsAgree
<1>1. ASSUME EntryInv
      PROVE  ReportsAgree
  <2> SUFFICES ASSUME NEW p \in Projects
               PROVE  LET rows == TrialBalance(p)
                      IN  /\ {code \in Codes : <<p, code>> \in DOMAIN OverallTrialBalance}
                                = DOMAIN rows
                          /\ \A code \in DOMAIN rows :
                                /\ OverallTrialBalance[<<p, code>>] = rows[code]
                                /\ \A ledger \in AccountLedgers(p, code) :
                                      Last(ledger) = Balance(rows[code])
    BY DEF ReportsAgree
  <2> DEFINE L == {l \in lines : l.project = p}
             C == {l.code : l \in L}
             G(code) == {l \in L : l.code = code}
             rows == TrialBalance(p)
  <2>1. OverallTrialBalance = ByKey(lines)
    BY <1>1, OverallIsByKey
  <2>2. IsFiniteSet(lines) /\ \A l \in lines : l.debit \in Int /\ l.credit \in Int /\ l.code \in Codes
    BY <1>1, LinesAreFinite
  <2>3. LinesWithDates(p, AnyDate) = L
    BY DEF LinesWithDates
  <2>4. DOMAIN rows = C
    BY <2>3 DEF TrialBalance, ByCode
  <2>5. {code \in Codes : <<p, code>> \in DOMAIN ByKey(lines)} = C
    <3>1. \A code : <<p, code>> \in DOMAIN ByKey(lines) <=> \E l \in lines : Key(l) = <<p, code>>
      BY DEF ByKey
    <3>2. \A l, code : Key(l) = <<p, code>> <=> l.project = p /\ l.code = code
      BY DEF Key
    <3> QED  BY <2>2, <3>1, <3>2
  <2>6. ASSUME NEW code \in C
        PROVE  /\ ByKey(lines)[<<p, code>>] = rows[code]
               /\ \A ledger \in AccountLedgers(p, code) : Last(ledger) = Balance(rows[code])
    <3> DEFINE D == [l \in G(code) |-> l.debit]
               E == [l \in G(code) |-> l.credit]
    <3>1. rows[code] = [debit |-> SumFunction(D), credit |-> SumFunction(E)]
      BY <2>3 DEF TrialBalance, ByCode
    <3>2. /\ G(code) \in SUBSET lines /\ G(code) # {}
          /\ G(code) = With(lines, <<p, code>>)
          /\ G(code) = {l \in lines : l.project = p /\ l.code = code}
      BY DEF With, Key
    <3>3. ByKey(lines)[<<p, code>>] = rows[code]
      <4>1. <<p, code>> \in {Key(l) : l \in lines}
        BY DEF Key
      <4>2. ByKey(lines)[<<p, code>>] = [debit  |-> SumFunctionOnSet(Debits, G(code)),
                                         credit |-> SumFunctionOnSet(Credits, G(code))]
        BY <3>2, <4>1 DEF ByKey
      <4>3. /\ D \in [G(code) -> Int] /\ E \in [G(code) -> Int]
            /\ Debits \in [lines -> Int] /\ Credits \in [lines -> Int]
            /\ \A l \in G(code) : D[l] = Debits[l] /\ E[l] = Credits[l]
        BY <2>2 DEF Debits, Credits
      <4>4. /\ SumFunction(D) = SumFunctionOnSet(Debits, G(code))
            /\ SumFunction(E) = SumFunctionOnSet(Credits, G(code))
        <5> HIDE DEF D, E, G
        <5> QED  BY <2>2, <3>2, <4>3, SameSum
      <4> QED  BY <3>1, <4>2, <4>4
    <3>4. ASSUME NEW ledger \in AccountLedgers(p, code)
          PROVE  Last(ledger) = Balance(rows[code])
      <4>1. PICK s \in SetToSeqs(G(code)) : ledger = Running(s)
        BY <3>2 DEF AccountLedgers
      <4>2. IsFiniteSet(G(code)) /\ \A l \in G(code) : l.debit \in Int /\ l.credit \in Int
        BY <2>2, <3>2, FS_Subset
      <4>3. Last(ledger) = ToFixed2(SumFunction(D) - SumFunction(E))
        <5> HIDE DEF G
        <5> QED  BY <3>2, <4>1, <4>2, LedgersEndInBalance
      <4> HIDE DEF D, E, rows
      <4> QED  BY <3>1, <4>3 DEF Balance
    <3> QED  BY <3>3, <3>4
  <2> HIDE DEF rows, C
  <2> QED  BY <2>1, <2>4, <2>5, <2>6 DEF rows
<1> QED  BY <1>1, InitEntries, StepEntries, PTL DEF Spec
=============================================================================
