--------------------------- MODULE SqlEngineProofs ---------------------------
(***************************************************************************)
(* Theorems about SqlEngine, for every set of columns, values and          *)
(* statements and every number of crashes.                                 *)
(***************************************************************************)
EXTENDS SqlEngine, InductionTheorems

(* Every insertion a statement plans keeps ids and keys together. *)
LEMMA PlannedWrites ==
    ASSUME NEW s \in Statements, NEW t, NEW n \in DOMAIN Plan(s, t)
    PROVE  Plan(s, t)[n].op = "put" /\ IdColumn \in DOMAIN Plan(s, t)[n].row
               => Plan(s, t)[n].row[IdColumn] = Plan(s, t)[n].key
<1> DEFINE w == Plan(s, t)[n]
<1>1. ASSUME NEW row, w = Insertion(row)
      PROVE  w.op = "put" /\ IdColumn \in DOMAIN w.row => w.row[IdColumn] = w.key
    <2> HIDE DEF w
    <2> QED BY <1>1 DEF Insertion, KeyOf
<1>2. CASE s.type = "INSERT"
    <2>1. w = Insertion(s.row)
        BY <1>2 DEF Plan
    <2>2. QED
        BY <1>1, <2>1
<1>3. CASE s.type = "BATCH"
    <2>1. w = Insertion(s.batch[n])
        BY <1>3 DEF Plan
    <2>2. QED
        BY <1>1, <2>1
<1>4. CASE s.type = "UPDATE"
    <2> DEFINE keys == Scan(t, s.conds)
    <2>1. Plan(s, t) =
            [m \in DOMAIN keys |-> [op |-> "merge", key |-> keys[m], row |-> s.row]]
        BY <1>4 DEF Plan
    <2> HIDE DEF keys
    <2>2. w = [op |-> "merge", key |-> keys[n], row |-> s.row]
        BY <2>1
    <2>3. QED
        BY <2>2
<1>5. CASE s.type = "DELETE"
    <2> DEFINE keys == IF s.keys # <<>> THEN s.keys ELSE Scan(t, s.conds)
    <2>1. Plan(s, t) = [m \in DOMAIN keys |-> [op |-> "delete", key |-> keys[m]]]
        BY <1>5 DEF Plan
    <2> HIDE DEF keys
    <2>2. w.op = "delete"
        BY <2>1
    <2>3. QED
        BY <2>2
<1>6. QED
    BY <1>2, <1>3, <1>4, <1>5, StatementAssumption

(* One write keeps the stored ids and keys together, or parts them where it *)
(* is noted.                                                                *)
LEMMA WriteKeepsKeys ==
    ASSUME KeyInv, Write
    PROVE  KeyInv'
<1> DEFINE w == plan[done + 1]
<1>1. w.op = "put" /\ IdColumn \in DOMAIN w.row => w.row[IdColumn] = w.key
    BY DEF KeyInv, PlanKeepsIds, Write, Idle
<1>2. PlanKeepsIds'
    BY DEF KeyInv, PlanKeepsIds, Write
<1>3. /\ renamed \ {w.key} \subseteq renamed'
      /\ w.op = "merge" =>
            (w.key \in renamed' <=> IF IdColumn \in DOMAIN w.row THEN w.row[IdColumn] # w.key
                                    ELSE w.key \in renamed)
    BY DEF Write, RenamedBy
<1> HIDE DEF w
<1>4. ASSUME NEW m, rows' = Put(rows, w.key, m),
             IdColumn \in DOMAIN m => m[IdColumn] = w.key \/ w.key \in renamed'
      PROVE  KeyIsId'
    BY <1>3, <1>4 DEF KeyInv, KeyIsId, Put
<1>5. CASE w.op = "put" /\ rows' = Put(rows, w.key, w.row)
    BY <1>1, <1>2, <1>4, <1>5 DEF KeyInv
<1>6. CASE /\ w.op = "merge" /\ w.key \in DOMAIN rows
           /\ rows' = Put(rows, w.key, Merge(w.row, rows[w.key]))
    <2> DEFINE m == Merge(w.row, rows[w.key])
    <2>1. CASE IdColumn \in DOMAIN w.row
        <3>1. m[IdColumn] = w.row[IdColumn]
            BY <2>1 DEF Merge
        <3>2. m[IdColumn] = w.key \/ w.key \in renamed'
            BY <1>3, <1>6, <2>1, <3>1
        <3> QED
            BY <1>2, <1>4, <1>6, <3>2 DEF KeyInv
    <2>2. CASE IdColumn \notin DOMAIN w.row
        <3>1. IdColumn \in DOMAIN m =>
                 IdColumn \in DOMAIN rows[w.key] /\ m[IdColumn] = rows[w.key][IdColumn]
            BY <2>2 DEF Merge
        <3>2. IdColumn \in DOMAIN m => m[IdColumn] = w.key \/ w.key \in renamed'
            BY <1>3, <1>6, <2>2, <3>1 DEF KeyInv, KeyIsId
        <3> QED
            BY <1>2, <1>4, <1>6, <3>2 DEF KeyInv
    <2> QED
        BY <2>1, <2>2
<1>7. CASE w.op = "delete" /\ rows' = Delete(rows, w.key)
    BY <1>2, <1>3, <1>7 DEF KeyInv, KeyIsId, Delete
<1> QED
    BY <1>5, <1>6, <1>7 DEF Write, w

(* Starting again loses the plan and nothing else that matters here. *)
LEMMA RestartKeepsKeys ==
    ASSUME KeyInv, Restart
    PROVE  KeyInv'
BY DEF KeyInv, KeyIsId, PlanKeepsIds, Restart

(* Every row with an id is stored under it, unless an UPDATE has given it   *)
(* another one, whatever batches, crashes and aborted selects come between. *)
THEOREM IdsAreKeys == Spec => []KeyIsId
<1>1. Init => KeyInv
    BY DEF Init, KeyInv, KeyIsId, PlanKeepsIds
<1>2. KeyInv /\ [Next]_vars => KeyInv'
    <2>1. SUFFICES ASSUME KeyInv, [Next]_vars PROVE KeyInv'
        OBVIOUS
    <2>2. ASSUME NEW s \in Statements, Begin(s)
          PROVE  KeyInv'
        <3>1. rows' = rows /\ renamed' = renamed /\ plan' = Plan(s, rows)
            BY <2>2 DEF Begin
        <3>2. PlanKeepsIds'
            BY <3>1, PlannedWrites DEF PlanKeepsIds
        <3>3. QED
            BY <2>1, <3>1, <3>2 DEF KeyInv, KeyIsId
    <2>3. ASSUME NEW f \in IndexedFields, NEW desc \in BOOLEAN, NEW win \in Windows,
                 SelectOrdered(f, desc, win)
          PROVE  KeyInv'
        BY <2>1, <2>3 DEF SelectOrdered, KeyInv, KeyIsId, PlanKeepsIds
    <2>4. ASSUME NEW f \in IndexedFields, NEW desc \in BOOLEAN, NEW win \in Windows,
                 SelectAborts(f, desc, win)
          PROVE  KeyInv'
        BY <2>1, <2>4, RestartKeepsKeys DEF SelectAborts
    <2>5. CASE Crash
        BY <2>1, <2>5, RestartKeepsKeys DEF Crash
    <2>6. CASE UNCHANGED vars
        BY <2>1, <2>6 DEF vars, KeyInv, KeyIsId, PlanKeepsIds
    <2>7. QED
        BY <2>1, <2>2, <2>3, <2>4, <2>5, <2>6, WriteKeepsKeys DEF Next
<1>3. KeyInv => KeyIsId
    BY DEF KeyInv
<1>4. QED
    BY <1>1, <1>2, <1>3, PTL DEF Spec
-----------------------------------------------------------------------------
(* Nothing tells the index of a write, so its entries are kept alive by the *)
(* rows alone: a put or a merge never takes a key away, a delete is what    *)
(* the premise excludes, and a rebuilt index has the keys of the table.     *)
THEOREM IndexLeadsToRows == Spec => []EntriesHaveRows
<1>1. Init => EntriesHaveRows
    BY DEF Init, EntriesHaveRows
<1>2. EntriesHaveRows /\ [Next]_vars => EntriesHaveRows'
    <2>1. SUFFICES ASSUME EntriesHaveRows, [Next]_vars PROVE EntriesHaveRows'
        OBVIOUS
    <2>2. CASE Write
        <3>1. /\ index' = index
              /\ ~deleted' => ~deleted /\ DOMAIN rows \subseteq DOMAIN rows'
            BY <2>2 DEF Write, Put
        <3>2. QED
            BY <2>1, <3>1 DEF EntriesHaveRows
    <2>3. ASSUME Restart
          PROVE  EntriesHaveRows'
        BY <2>3 DEF Restart, RebuildAll, EntriesHaveRows
    <2>4. ASSUME UNCHANGED <<rows, index, deleted>>
          PROVE  EntriesHaveRows'
        BY <2>1, <2>4 DEF EntriesHaveRows
    <2>5. QED
        BY <2>1, <2>2, <2>3, <2>4
           DEF Next, Begin, SelectOrdered, SelectAborts, Crash, vars
<1>3. QED
    BY <1>1, <1>2, PTL DEF Spec
-----------------------------------------------------------------------------
(* A scan finds the keys of the rows that match, and no others. *)
LEMMA ScanFinds ==
    ASSUME NEW t, NEW conds, DOMAIN t \subseteq Nat, IsFiniteSet(DOMAIN t)
    PROVE  /\ Scan(t, conds) \in Seq(DOMAIN t)
           /\ \A k : (\E n \in DOMAIN Scan(t, conds) : Scan(t, conds)[n] = k)
                        <=> k \in DOMAIN t /\ Matches(t[k], conds)
<1> DEFINE S == {k \in DOMAIN t : Matches(t[k], conds)}
           s == Scan(t, conds)
<1>1. S \in SUBSET Nat /\ IsFiniteSet(S)
    BY FS_Subset
<1>2. s = NumbersOf(S)
    BY DEF Scan, InOrder, NumbersOf
<1> HIDE DEF S
<1> HIDE DEF s
<1>5. /\ s \in Seq(S)
      /\ \A x \in S : \E n \in DOMAIN s : s[n] = x
    BY <1>1, <1>2, NumbersInOrder
<1>6. \A n \in DOMAIN s : s[n] \in S
    BY <1>5, LenProperties
<1>7. S \subseteq DOMAIN t
    BY DEF S
<1>8. s \in Seq(DOMAIN t)
    BY <1>5, <1>7, SeqMonotonic
<1>9. \A k : k \in S <=> k \in DOMAIN t /\ Matches(t[k], conds)
    BY DEF S
<1> QED
    BY <1>5, <1>6, <1>8, <1>9 DEF s
-----------------------------------------------------------------------------
(* Types *)

Entries == [field : IndexedFields, value : Values, key : Values]
Writes  == [op : {"put", "merge"}, key : Values, row : Row]
              \cup [op : {"delete"}, key : Values]

EntriesOf(f) == {e \in index : e.field = f}

(* What TypeOK leaves open: tables are finite, plans are lists of writes. *)
TypeInv ==
    /\ TypeOK
    /\ IsFiniteSet(DOMAIN rows)
    /\ index \subseteq Entries /\ \A f \in IndexedFields : IsFiniteSet(EntriesOf(f))
    /\ plan \in Seq(Writes)

(* The key of a row is one of its strings, or the empty one. *)
LEMMA KeyIsString ==
    ASSUME NEW row \in Row
    PROVE  KeyOf(row) \in Values
<1>1. PICK cols \in SUBSET Columns : row \in [cols -> Values]
    BY DEF Row, RowOf
<1>2. DOMAIN row \in SUBSET Nat /\ \A c \in DOMAIN row : row[c] \in Values
    BY <1>1, NameAssumption
<1>3. ASSUME DOMAIN row # {}
      PROVE  FirstColumn(row) \in DOMAIN row
    <2>1. \E c \in DOMAIN row : \A d \in DOMAIN row : c <= d
        BY <1>2, <1>3, LeastNumber
    <2> QED
        BY <2>1 DEF FirstColumn
<1> QED
    BY <1>2, <1>3, NameAssumption DEF KeyOf, EmptyString

(* A row merged into another is a row. *)
LEMMA MergeIsRow ==
    ASSUME NEW new \in Row, NEW old \in Row
    PROVE  Merge(new, old) \in Row
<1>1. PICK c \in SUBSET Columns : new \in [c -> Values]
    BY DEF Row, RowOf
<1>2. PICK d \in SUBSET Columns : old \in [d -> Values]
    BY DEF Row, RowOf
<1>3. Merge(new, old) \in [c \cup d -> Values]
    BY <1>1, <1>2 DEF Merge
<1>4. c \cup d \in SUBSET Columns
    BY <1>1, <1>2
<1> QED
    BY <1>3, <1>4 DEF Row, RowOf

(* The statements plan lists of writes. *)
LEMMA PlanIsListOfWrites ==
    ASSUME NEW s \in Statements, NEW t, DOMAIN t \subseteq Values, IsFiniteSet(DOMAIN t)
    PROVE  Plan(s, t) \in Seq(Writes)
<1>1. ASSUME NEW row \in Row
      PROVE  Insertion(row) \in Writes
    BY KeyIsString DEF Insertion, Writes
<1>2. Scan(t, s.conds) \in Seq(Values)
    <2>1. Scan(t, s.conds) \in Seq(DOMAIN t)
        BY NameAssumption, ScanFinds
    <2> QED
        BY <2>1, SeqMonotonic
<1>3. CASE s.type = "INSERT"
    <2>1. s.row \in Row
        BY <1>3, StatementAssumption
    <2>2. Plan(s, t) = <<Insertion(s.row)>> /\ Insertion(s.row) \in Writes
        BY <1>1, <1>3, <2>1 DEF Plan
    <2> QED
        BY <2>2
<1>4. CASE s.type = "BATCH"
    <2>1. s.batch \in Seq(Row)
        BY <1>4, StatementAssumption
    <2>2. Plan(s, t) = [n \in 1..Len(s.batch) |-> Insertion(s.batch[n])] /\ Len(s.batch) \in Nat
        BY <1>4, <2>1, LenProperties DEF Plan
    <2>3. \A n \in 1..Len(s.batch) : Insertion(s.batch[n]) \in Writes
        BY <1>1, <2>1, LenProperties
    <2>4. Plan(s, t) \in [1..Len(s.batch) -> Writes]
        BY <2>2, <2>3
    <2> QED
        BY <2>2, <2>4, SeqDef
<1>5. CASE s.type = "UPDATE"
    <2> DEFINE keys == Scan(t, s.conds)
    <2>1. s.row \in Row
        BY <1>5, StatementAssumption
    <2>2. Plan(s, t) = [n \in DOMAIN keys |-> [op |-> "merge", key |-> keys[n], row |-> s.row]]
        BY <1>5 DEF Plan
    <2> HIDE DEF keys
    <2>3. /\ DOMAIN keys = 1..Len(keys) /\ Len(keys) \in Nat
          /\ \A n \in DOMAIN keys : keys[n] \in Values
        BY <1>2, LenProperties DEF keys
    <2>4. Plan(s, t) \in [1..Len(keys) -> Writes]
        BY <2>1, <2>2, <2>3 DEF Writes
    <2> QED
        BY <2>3, <2>4, SeqDef
<1>6. CASE s.type = "DELETE"
    <2> DEFINE keys == IF s.keys # <<>> THEN s.keys ELSE Scan(t, s.conds)
    <2>1. keys \in Seq(Values)
        BY <1>2, <1>6, StatementAssumption
    <2>2. Plan(s, t) = [n \in DOMAIN keys |-> [op |-> "delete", key |-> keys[n]]]
        BY <1>6 DEF Plan
    <2> HIDE DEF keys
    <2>3. /\ DOMAIN keys = 1..Len(keys) /\ Len(keys) \in Nat
          /\ \A n \in DOMAIN keys : keys[n] \in Values
        BY <2>1, LenProperties
    <2>4. Plan(s, t) \in [1..Len(keys) -> Writes]
        BY <2>2, <2>3 DEF Writes
    <2> QED
        BY <2>3, <2>4, SeqDef
<1> QED
    BY <1>3, <1>4, <1>5, <1>6, StatementAssumption

(* A rebuilt index has one entry of a field for each row, at most. *)
LEMMA RebuiltIndex ==
    ASSUME NEW t, DOMAIN t \subseteq Values, IsFiniteSet(DOMAIN t)
    PROVE  /\ RebuildAll(t) \subseteq Entries
           /\ \A f \in IndexedFields : IsFiniteSet({e \in RebuildAll(t) : e.field = f})
<1>1. RebuildAll(t) \subseteq Entries
    BY DEF RebuildAll, Entries
<1>2. ASSUME NEW f \in IndexedFields
      PROVE  IsFiniteSet({e \in RebuildAll(t) : e.field = f})
    <2> DEFINE E == {e \in RebuildAll(t) : e.field = f}
               key == [e \in E |-> e.key]
    <2>1. \A e \in E : /\ e \in [field : IndexedFields, value : Values, key : DOMAIN t]
                       /\ e.field = f /\ e.value = t[e.key][f] /\ e.key \in DOMAIN t
        BY DEF RebuildAll
    <2>2. \A d, e \in E : d.key = e.key => d = e
        BY <2>1
    <2> HIDE DEF E
    <2>3. key \in [E -> DOMAIN t] /\ \A d, e \in E : key[d] = key[e] => d = e
        BY <2>1, <2>2
    <2>4. key \in Injection(E, DOMAIN t)
        BY <2>3 DEF Injection, IsInjective
    <2> HIDE DEF key
    <2>5. IsFiniteSet(E)
        BY <2>4, FS_Injection
    <2> QED
        BY <2>5 DEF E
<1> QED
    BY <1>1, <1>2

EntryOrder(S) ==
    {p \in S \X S : \/ p[1].value < p[2].value
                    \/ p[1].value = p[2].value /\ p[1].key < p[2].key}

(* A walk through the index meets entries of the index. *)
LEMMA AscendingLists ==
    ASSUME TypeInv, NEW f \in IndexedFields
    PROVE  Ascending(f) \in Seq(index)
<1> DEFINE S == EntriesOf(f)
           R == EntryOrder(S)
           s == Ascending(f)
<1>1. /\ S \subseteq index /\ IsFiniteSet(S)
      /\ \A e \in S : e \in Entries /\ e.field = f /\ e.value \in Nat /\ e.key \in Nat
    BY NameAssumption DEF TypeInv, EntriesOf, Entries
<1>2. s = [n \in 1..Cardinality(S) |->
              CHOOSE x \in S : Cardinality({y \in S :
                  y.value < x.value \/ (y.value = x.value /\ y.key < x.key)}) = n - 1]
    BY DEF Ascending, InOrder, EntriesOf
<1> HIDE DEF S
<1>3. \A x, y : <<x, y>> \in R
          <=> x \in S /\ y \in S /\ (x.value < y.value \/ (x.value = y.value /\ x.key < y.key))
    BY DEF EntryOrder
<1>4. \A x, y \in S : x.value = y.value /\ x.key = y.key => x = y
    BY <1>1 DEF Entries
<1>5. IsOrder(R, S)
    <2> HIDE DEF R
    <2>1. \A x \in S : <<x, x>> \notin R
        BY <1>1, <1>3
    <2>2. \A x, y, z \in S : <<x, y>> \in R /\ <<y, z>> \in R => <<x, z>> \in R
        BY <1>1, <1>3
    <2>3. ASSUME NEW x \in S, NEW y \in S
          PROVE  x = y \/ <<x, y>> \in R \/ <<y, x>> \in R
        <3>1. \/ x.value < y.value \/ y.value < x.value
              \/ x.value = y.value /\ (x.key < y.key \/ y.key < x.key \/ x.key = y.key)
            BY <1>1
        <3> QED
            BY <1>3, <1>4, <3>1
    <2> QED
        BY <2>1, <2>2, <2>3 DEF IsOrder
<1>6. \A x \in S : Lesser(S, R, x) =
          {y \in S : y.value < x.value \/ (y.value = x.value /\ y.key < x.key)}
    BY <1>3 DEF Lesser
<1> HIDE DEF R
<1>7. IsListing(s, S, R)
    <2> DEFINE below(x) == Cardinality({y \in S :
                  y.value < x.value \/ (y.value = x.value /\ y.key < x.key)})
    <2>1. s = [n \in 1..Cardinality(S) |-> CHOOSE x \in S : below(x) = n - 1]
        BY <1>2
    <2>2. \A x \in S : below(x) = Cardinality(Lesser(S, R, x))
        BY <1>6
    <2> HIDE DEF below, s
    <2> QED
        BY <2>1, <2>2 DEF IsListing
<1> HIDE DEF s
<1>8. s \in Seq(S)
    BY <1>1, <1>5, <1>7, InOrderLists
<1>9. s \in Seq(index)
    BY <1>1, <1>8, SeqMonotonic
<1> QED
    BY <1>9 DEF s
(* The entries an ordered select visits are entries of the index. *)
LEMMA VisitedAreEntries ==
    ASSUME TypeInv, NEW f \in IndexedFields, NEW desc \in BOOLEAN, NEW win \in Windows,
           NEW n \in DOMAIN Visited(f, desc, win)
    PROVE  Visited(f, desc, win)[n] \in index
<1> DEFINE up   == Ascending(f)
           all  == IF desc THEN Reverse(up) ELSE up
           stop == IF win[2] > 0 THEN win[1] + win[2] ELSE Len(all)
           last == IF stop < Len(all) THEN stop ELSE Len(all)
<1>1. up \in Seq(index)
    BY AscendingLists
<1> HIDE DEF up
<1>2. /\ Len(up) \in Nat /\ DOMAIN up = 1..Len(up)
      /\ \A m \in 1..Len(up) : up[m] \in index
    BY <1>1, LenProperties
<1>3. /\ Reverse(up) \in [1..Len(up) -> index]
    BY <1>2 DEF Reverse
<1>4. Reverse(up) \in Seq(index)
    BY <1>2, <1>3, SeqDef
<1>5. /\ all \in Seq(index)
      /\ Len(all) \in Nat /\ \A m \in 1..Len(all) : all[m] \in index
    BY <1>1, <1>4, LenProperties
<1>6. Visited(f, desc, win) = SubSeq(all, win[1] + 1, last)
    BY DEF Visited, up
<1>7. win[1] \in Nat /\ win[2] \in Int
    BY NameAssumption
<1> HIDE DEF all
<1>8. last \in Int /\ last <= Len(all)
    BY <1>5, <1>7
<1> HIDE DEF last
<1>9. \A m \in (win[1] + 1)..last : all[m] \in index
    BY <1>5, <1>7, <1>8
<1>10. win[1] + 1 \in Int
    BY <1>7
<1>11. Visited(f, desc, win) \in Seq(index)
    BY <1>6, <1>8, <1>9, <1>10, SubSeqProperties
<1> QED
    BY <1>11, LenProperties
(* One write keeps the types; a delete may name any string as its key. *)
LEMMA WriteTypes ==
    ASSUME TypeInv, Write
    PROVE  TypeInv'
<1> DEFINE w == plan[done + 1]
<1>1. /\ done \in Nat /\ Len(plan) \in Nat /\ DOMAIN plan = 1..Len(plan)
      /\ done + 1 \in DOMAIN plan /\ w \in Writes
    <2>1. Len(plan) \in Nat /\ DOMAIN plan = 1..Len(plan) /\ done \in 0..Len(plan)
        BY LenProperties DEF TypeInv, TypeOK
    <2>2. done + 1 \in DOMAIN plan
        BY DEF Write, Idle
    <2> QED
        BY <2>1, <2>2, LenProperties DEF TypeInv
<1>2. /\ plan' = plan /\ index' = index /\ answer' = answer /\ crashes' = crashes
      /\ done' = done + 1 /\ done' \in 0..Len(plan)
    BY <1>1 DEF Write
<1>3. /\ DOMAIN rows \subseteq Values /\ \A k \in DOMAIN rows : rows[k] \in Row
      /\ IsFiniteSet(DOMAIN rows) /\ deleted \in BOOLEAN
    BY DEF TypeInv, TypeOK
<1>4. ASSUME NEW row \in Row, NEW k \in Values, rows' = Put(rows, k, row), deleted' = deleted
      PROVE  /\ DOMAIN rows' \subseteq Values /\ \A j \in DOMAIN rows' : rows'[j] \in Row
             /\ IsFiniteSet(DOMAIN rows') /\ deleted' \in BOOLEAN
             /\ DOMAIN rows' = DOMAIN rows \cup {k}
    <2>1. DOMAIN rows' = DOMAIN rows \cup {k}
        BY <1>4 DEF Put
    <2>2. \A j \in DOMAIN rows' : rows'[j] \in Row
        BY <1>3, <1>4 DEF Put
    <2> QED
        BY <1>3, <1>4, <2>1, <2>2, FS_AddElement
<1>8. /\ renamed' \subseteq renamed \cup {w.key} /\ renamed \subseteq DOMAIN rows
      /\ w.op = "delete" => w.key \notin renamed'
    BY DEF Write, RenamedBy, TypeInv, TypeOK
<1> HIDE DEF w
<1>5. CASE w.op = "put" /\ rows' = Put(rows, w.key, w.row) /\ deleted' = deleted
    <2>1. w.key \in Values /\ w.row \in Row
        BY <1>1, <1>5 DEF Writes
    <2> QED
        BY <1>2, <1>4, <1>5, <1>8, <2>1 DEF TypeInv, TypeOK, EntriesOf
<1>6. CASE /\ w.op = "merge" /\ w.key \in DOMAIN rows
           /\ rows' = Put(rows, w.key, Merge(w.row, rows[w.key])) /\ deleted' = deleted
    <2>1. w.key \in Values /\ w.row \in Row
        BY <1>1, <1>6 DEF Writes
    <2>2. Merge(w.row, rows[w.key]) \in Row
        BY <1>3, <1>6, <2>1, MergeIsRow
    <2> QED
        BY <1>2, <1>4, <1>6, <1>8, <2>1, <2>2 DEF TypeInv, TypeOK, EntriesOf
<1>7. CASE w.op = "delete" /\ rows' = Delete(rows, w.key) /\ deleted' = TRUE
    <2>1. /\ DOMAIN rows' \subseteq DOMAIN rows /\ \A k \in DOMAIN rows' : rows'[k] = rows[k]
          /\ DOMAIN rows' = DOMAIN rows \ {w.key}
        BY <1>7 DEF Delete
    <2>2. IsFiniteSet(DOMAIN rows')
        BY <1>3, <2>1, FS_Subset
    <2> QED
        BY <1>2, <1>3, <1>7, <1>8, <2>1, <2>2 DEF TypeInv, TypeOK, EntriesOf
<1> QED
    BY <1>5, <1>6, <1>7 DEF Write, w

(* Starting again keeps them too. *)
LEMMA RestartTypes ==
    ASSUME TypeInv, Restart, crashes' \in 0..MaxCrashes
    PROVE  TypeInv'
<1>1. <<>> \in Seq(Writes) /\ Len(<<>>) = 0
    BY EmptySeq
<1>2. DOMAIN rows \subseteq Values /\ IsFiniteSet(DOMAIN rows)
    BY DEF TypeInv, TypeOK
<1>3. /\ index' \subseteq Entries
      /\ \A f \in IndexedFields : IsFiniteSet({e \in index' : e.field = f})
    BY <1>2, RebuiltIndex DEF Restart
<1>4. \A e \in index' : e.field \in IndexedFields /\ e.value \in Values /\ e.key \in Values
    BY <1>3 DEF Entries
<1>5. /\ rows' = rows /\ plan' = <<>> /\ done' = 0 /\ deleted' = FALSE /\ renamed' = renamed
      /\ Len(plan') = 0 /\ DOMAIN answer' = {}
    BY <1>1 DEF Restart
<1>6. done' \in 0..Len(plan')
    BY <1>5
<1>7. TypeOK'
    BY <1>4, <1>5, <1>6 DEF TypeInv, TypeOK
<1> QED
    BY <1>1, <1>2, <1>3, <1>5, <1>7 DEF TypeInv, EntriesOf

LEMMA InitTypeInv == Init => TypeInv
<1> SUFFICES ASSUME Init
             PROVE  TypeInv
    OBVIOUS
<1>1. <<>> \in Seq(Writes) /\ Len(<<>>) = 0 /\ IsFiniteSet({}) /\ DOMAIN <<>> = {}
    BY EmptySeq, FS_EmptySet
<1>2. \A f \in IndexedFields : EntriesOf(f) = {}
    BY DEF Init, EntriesOf
<1>3. /\ DOMAIN rows = {} /\ DOMAIN answer = {} /\ Len(plan) = 0 /\ index = {}
      /\ done = 0 /\ crashes = 0 /\ deleted = FALSE /\ renamed = {}
    BY <1>1 DEF Init
<1>4. TypeOK
    <2>1. MaxCrashes \in Nat
        BY NameAssumption
    <2>2. done \in 0..Len(plan) /\ crashes \in 0..MaxCrashes
        BY <1>3, <2>1
    <2> QED
        BY <1>3, <2>2 DEF TypeOK
<1> QED
    BY <1>1, <1>2, <1>3, <1>4 DEF Init, TypeInv

LEMMA StepTypeInv == TypeInv /\ [Next]_vars => TypeInv'
<1> SUFFICES ASSUME TypeInv, [Next]_vars
             PROVE  TypeInv'
    OBVIOUS
<1>1. ASSUME NEW s \in Statements, Begin(s)
      PROVE  TypeInv'
    <2>1. Plan(s, rows) \in Seq(Writes)
        BY PlanIsListOfWrites DEF TypeInv, TypeOK
    <2>2. /\ plan' = Plan(s, rows) /\ done' = 0 /\ answer' = <<>>
          /\ UNCHANGED <<rows, index, deleted, renamed, crashes>>
        BY <1>1 DEF Begin
    <2>3. Len(plan') \in Nat
        BY <2>1, <2>2, LenProperties
    <2>4. TypeOK'
        BY <2>2, <2>3 DEF TypeInv, TypeOK
    <2> QED
        BY <2>1, <2>2, <2>4 DEF TypeInv, EntriesOf
<1>2. ASSUME NEW f \in IndexedFields, NEW desc \in BOOLEAN, NEW win \in Windows,
             SelectOrdered(f, desc, win)
      PROVE  TypeInv'
    <2> DEFINE visited == Visited(f, desc, win)
    <2>1. \A n \in DOMAIN visited : visited[n].key \in Values
        BY VisitedAreEntries DEF TypeInv, TypeOK
    <2>2. /\ answer' = [n \in DOMAIN visited |-> visited[n].key]
          /\ UNCHANGED <<rows, index, plan, done, deleted, renamed, crashes>>
        BY <1>2 DEF SelectOrdered
    <2> HIDE DEF visited
    <2> QED
        BY <2>1, <2>2 DEF TypeInv, TypeOK, EntriesOf
<1>3. ASSUME NEW f \in IndexedFields, NEW desc \in BOOLEAN, NEW win \in Windows,
             SelectAborts(f, desc, win)
      PROVE  TypeInv'
    BY <1>3, RestartTypes DEF SelectAborts, TypeInv, TypeOK
<1>4. CASE Crash
    <2>1. crashes' \in 0..MaxCrashes
        BY <1>4, NameAssumption DEF Crash, TypeInv, TypeOK
    <2> QED
        BY <1>4, <2>1, RestartTypes DEF Crash
<1>5. CASE UNCHANGED vars
    BY <1>5 DEF vars, TypeInv, TypeOK, EntriesOf
<1> QED
    BY <1>1, <1>2, <1>3, <1>4, <1>5, WriteTypes DEF Next

LEMMA TypesAreKept == Spec => []TypeInv
BY InitTypeInv, StepTypeInv, PTL DEF Spec

(* The variables have their types: what a plan writes is a row under one of *)
(* the strings in use, and what a select answers are such keys.             *)
THEOREM EngineTypes == Spec => []TypeOK
<1>1. TypeInv => TypeOK
    BY DEF TypeInv
<1> QED
    BY <1>1, TypesAreKept, PTL
-----------------------------------------------------------------------------
(* Statements *)

(* The keys the running statement has written *)
Written == {plan[n].key : n \in 1..done}

PutsDone ==
    /\ DOMAIN rows = DOMAIN before \cup Written
    /\ \A k \in DOMAIN before \ Written : rows[k] = before[k]
    /\ \A k \in Written : \E n \in 1..done :
          /\ plan[n].key = k /\ rows[k] = plan[n].row
          /\ \A m \in (n + 1)..done : plan[m].key # k

MergesDone ==
    /\ DOMAIN rows = DOMAIN before
    /\ \A k \in DOMAIN rows :
          rows[k] = IF k \in Written THEN Merge(stmt.row, before[k]) ELSE before[k]

DeletesDone ==
    /\ DOMAIN rows = DOMAIN before \ Written
    /\ \A k \in DOMAIN rows : rows[k] = before[k]

(* What the first writes of a statement have made of the table *)
ProgressInv ==
    /\ rows = [k \in DOMAIN rows |-> rows[k]]
    /\ plan # <<>> =>
         /\ stmt \in Statements /\ plan = Plan(stmt, before)
         /\ DOMAIN before \subseteq Values /\ IsFiniteSet(DOMAIN before)
         /\ stmt.type \in {"INSERT", "BATCH"} => PutsDone
         /\ stmt.type = "UPDATE" => MergesDone
         /\ stmt.type = "DELETE" => DeletesDone

(* The rows a statement inserts *)
Inserted(s) == IF s.type = "INSERT" THEN <<s.row>> ELSE s.batch

(* The writes that each kind of statement plans. *)
LEMMA PlanOf ==
    ASSUME NEW s \in Statements, NEW t, DOMAIN t \subseteq Values, IsFiniteSet(DOMAIN t)
    PROVE  /\ s.type \in {"INSERT", "BATCH", "UPDATE", "DELETE"}
           /\ s.type \in {"INSERT", "BATCH"} =>
                /\ DOMAIN Plan(s, t) = DOMAIN Inserted(s)
                /\ \A n \in DOMAIN Plan(s, t) : Plan(s, t)[n] = Insertion(Inserted(s)[n])
           /\ s.type = "UPDATE" =>
                /\ \A n \in DOMAIN Plan(s, t) : /\ Plan(s, t)[n].op = "merge"
                                                /\ Plan(s, t)[n].row = s.row
                /\ \A k : (\E n \in DOMAIN Plan(s, t) : Plan(s, t)[n].key = k)
                             <=> k \in DOMAIN t /\ Matches(t[k], s.conds)
           /\ s.type = "DELETE" =>
                /\ \A n \in DOMAIN Plan(s, t) : Plan(s, t)[n].op = "delete"
                /\ s.keys # <<>> => \A k : (\E n \in DOMAIN Plan(s, t) : Plan(s, t)[n].key = k)
                             <=> (\E n \in DOMAIN s.keys : s.keys[n] = k)
                /\ s.keys = <<>> => \A k : (\E n \in DOMAIN Plan(s, t) : Plan(s, t)[n].key = k)
                             <=> k \in DOMAIN t /\ Matches(t[k], s.conds)
<1>1. s.type \in {"INSERT", "BATCH", "UPDATE", "DELETE"}
    BY StatementAssumption
<1>2. \A k : (\E n \in DOMAIN Scan(t, s.conds) : Scan(t, s.conds)[n] = k)
                 <=> k \in DOMAIN t /\ Matches(t[k], s.conds)
    BY NameAssumption, ScanFinds
<1>3. CASE s.type = "INSERT"
    <2>1. Plan(s, t) = <<Insertion(s.row)>> /\ Inserted(s) = <<s.row>>
        BY <1>3 DEF Plan, Inserted
    <2> QED
        BY <1>3, <2>1
<1>4. CASE s.type = "BATCH"
    <2>1. Plan(s, t) = [n \in DOMAIN s.batch |-> Insertion(s.batch[n])] /\ Inserted(s) = s.batch
        BY <1>4 DEF Plan, Inserted
    <2> QED
        BY <1>4, <2>1
<1>5. CASE s.type = "UPDATE"
    <2> DEFINE keys == Scan(t, s.conds)
    <2>1. Plan(s, t) = [n \in DOMAIN keys |-> [op |-> "merge", key |-> keys[n], row |-> s.row]]
        BY <1>5 DEF Plan
    <2>2. \A k : (\E n \in DOMAIN keys : keys[n] = k) <=> k \in DOMAIN t /\ Matches(t[k], s.conds)
        BY <1>2
    <2> HIDE DEF keys
    <2> DEFINE p == Plan(s, t)
    <2>3. /\ DOMAIN p = DOMAIN keys
          /\ \A n \in DOMAIN p : p[n].op = "merge" /\ p[n].row = s.row /\ p[n].key = keys[n]
        BY <2>1
    <2> HIDE DEF p
    <2>4. \A k : (\E n \in DOMAIN p : p[n].key = k) <=> k \in DOMAIN t /\ Matches(t[k], s.conds)
        BY <2>2, <2>3
    <2> QED
        BY <1>5, <2>3, <2>4 DEF p
<1>6. CASE s.type = "DELETE"
    <2> DEFINE keys == IF s.keys # <<>> THEN s.keys ELSE Scan(t, s.conds)
    <2>1. Plan(s, t) = [n \in DOMAIN keys |-> [op |-> "delete", key |-> keys[n]]]
        BY <1>6 DEF Plan
    <2>2. /\ s.keys # <<>> => keys = s.keys
          /\ s.keys = <<>> =>
                \A k : (\E n \in DOMAIN keys : keys[n] = k) <=> k \in DOMAIN t /\ Matches(t[k], s.conds)
        BY <1>2
    <2> HIDE DEF keys
    <2> DEFINE p == Plan(s, t)
    <2>3. /\ DOMAIN p = DOMAIN keys
          /\ \A n \in DOMAIN p : p[n].op = "delete" /\ p[n].key = keys[n]
        BY <2>1
    <2> HIDE DEF p
    <2>4. \A k : (\E n \in DOMAIN p : p[n].key = k) <=> (\E n \in DOMAIN keys : keys[n] = k)
        BY <2>3
    <2>5. CASE s.keys # <<>>
        BY <1>6, <2>2, <2>3, <2>4, <2>5 DEF p
    <2>6. CASE s.keys = <<>>
        BY <1>6, <2>2, <2>3, <2>4, <2>6 DEF p
    <2> QED
        BY <2>5, <2>6
<1> QED
    BY <1>1, <1>3, <1>4, <1>5, <1>6

LEMMA MergeTwice == \A new, old : Merge(new, Merge(new, old)) = Merge(new, old)
BY DEF Merge
(* One write adds its key to those written, and changes the row of no other. *)
LEMMA StepWritten ==
    ASSUME TypeInv, Write
    PROVE  /\ done \in Nat /\ done + 1 \in DOMAIN plan /\ done' = done + 1
           /\ 1..done' = 1..done \cup {done + 1}
           /\ plan' = plan /\ stmt' = stmt /\ before' = before /\ plan # <<>>
           /\ Written' = Written \cup {plan[done + 1].key}
<1>1. /\ done \in Nat /\ done + 1 \in DOMAIN plan /\ done' = done + 1
      /\ plan' = plan /\ stmt' = stmt /\ before' = before
    <2>1. Len(plan) \in Nat /\ done \in 0..Len(plan)
        BY LenProperties DEF TypeInv, TypeOK
    <2> QED
        BY <2>1 DEF Write, Idle
<1>2. 1..done' = 1..done \cup {done + 1}
    BY <1>1
<1>3. plan # <<>>
    <2>1. DOMAIN <<>> = {}
        OBVIOUS
    <2> QED
        BY <1>1, <2>1
<1>4. Written' = {plan[n].key : n \in 1..done'}
    BY <1>1 DEF Written
<1>5. Written' = Written \cup {plan[done + 1].key}
    BY <1>2, <1>4 DEF Written
<1> QED
    BY <1>1, <1>2, <1>3, <1>5

LEMMA WriteProgress ==
    ASSUME TypeInv, ProgressInv, Write
    PROVE  ProgressInv'
<1> DEFINE w == plan[done + 1]
<1>1. /\ done \in Nat /\ done + 1 \in DOMAIN plan /\ done' = done + 1
      /\ 1..done' = 1..done \cup {done + 1}
      /\ plan' = plan /\ stmt' = stmt /\ before' = before /\ plan # <<>>
      /\ Written' = Written \cup {w.key}
    BY StepWritten
<1>2. /\ stmt \in Statements /\ plan = Plan(stmt, before)
      /\ DOMAIN before \subseteq Values /\ IsFiniteSet(DOMAIN before)
    BY <1>1 DEF ProgressInv
<1>3. rows' = [k \in DOMAIN rows' |-> rows'[k]]
    BY DEF Write, Put, Delete
<1>4. ASSUME stmt.type \in {"INSERT", "BATCH"}
      PROVE  PutsDone'
    <2>1. w.op = "put"
        BY <1>1, <1>2, <1>4, PlanOf DEF Insertion
    <2>2. PutsDone
        BY <1>1, <1>4 DEF ProgressInv
    <2> HIDE DEF w
    <2>3. rows' = Put(rows, w.key, w.row)
        BY <2>1 DEF Write, w
    <2>4. DOMAIN rows' = DOMAIN before \cup Written'
        BY <1>1, <2>2, <2>3 DEF PutsDone, Put
    <2>5. \A k \in DOMAIN before \ Written' : rows'[k] = before[k]
        BY <1>1, <2>2, <2>3 DEF PutsDone, Put
    <2>6. ASSUME NEW k \in Written'
          PROVE  \E n \in 1..done' :
                    /\ plan[n].key = k /\ rows'[k] = plan[n].row
                    /\ \A m \in (n + 1)..done' : plan[m].key # k
        <3>1. CASE k = w.key
            <4>1. rows'[k] = w.row
                BY <2>3, <3>1 DEF Put
            <4>2. done + 1 \in 1..done' /\ (done + 1 + 1)..done' = {}
                BY <1>1
            <4> QED
                BY <3>1, <4>1, <4>2 DEF w
        <3>2. CASE k # w.key
            <4>1. k \in Written
                BY <1>1, <3>2
            <4>2. PICK n \in 1..done : /\ plan[n].key = k /\ rows[k] = plan[n].row
                                       /\ \A m \in (n + 1)..done : plan[m].key # k
                BY <2>2, <4>1 DEF PutsDone
            <4>3. rows'[k] = rows[k]
                BY <2>2, <2>3, <3>2, <4>1 DEF Put, PutsDone
            <4>4. n \in 1..done' /\ (n + 1)..done' = (n + 1)..done \cup {done + 1}
                BY <1>1
            <4>5. \A m \in (n + 1)..done' : plan[m].key # k
                BY <3>2, <4>2, <4>4 DEF w
            <4> QED
                BY <4>2, <4>3, <4>4, <4>5
        <3> QED
            BY <3>1, <3>2
    <2> QED
        BY <1>1, <2>4, <2>5, <2>6 DEF PutsDone
<1>5. ASSUME stmt.type = "UPDATE"
      PROVE  MergesDone'
    <2>1. w.op = "merge" /\ w.row = stmt.row
        BY <1>1, <1>2, <1>5, PlanOf
    <2>2. MergesDone
        BY <1>1, <1>5 DEF ProgressInv
    <2> HIDE DEF w
    <2>3. w.key \in DOMAIN rows /\ rows' = Put(rows, w.key, Merge(w.row, rows[w.key]))
        BY <2>1 DEF Write, w
    <2>4. DOMAIN rows' = DOMAIN rows
        BY <2>3 DEF Put
    <2>5. ASSUME NEW k \in DOMAIN rows
          PROVE  rows'[k] = IF k \in Written' THEN Merge(stmt.row, before[k]) ELSE before[k]
        <3>1. CASE k # w.key
            <4>1. rows'[k] = rows[k]
                BY <2>3, <3>1 DEF Put
            <4> QED
                BY <1>1, <2>2, <3>1, <4>1 DEF MergesDone
        <3>2. CASE k = w.key
            <4>1. rows'[k] = Merge(stmt.row, rows[k])
                BY <2>1, <2>3, <3>2 DEF Put
            <4>2. rows[k] = before[k] \/ rows[k] = Merge(stmt.row, before[k])
                BY <2>2 DEF MergesDone
            <4>3. rows'[k] = Merge(stmt.row, before[k])
                BY <4>1, <4>2, MergeTwice
            <4> QED
                BY <1>1, <3>2, <4>3
        <3> QED
            BY <3>1, <3>2
    <2> QED
        BY <1>1, <2>2, <2>4, <2>5 DEF MergesDone
<1>6. ASSUME stmt.type = "DELETE"
      PROVE  DeletesDone'
    <2>1. w.op = "delete"
        BY <1>1, <1>2, <1>6, PlanOf
    <2>2. DeletesDone
        BY <1>1, <1>6 DEF ProgressInv
    <2> HIDE DEF w
    <2>3. rows' = Delete(rows, w.key)
        BY <2>1 DEF Write, w
    <2> QED
        BY <1>1, <2>2, <2>3 DEF DeletesDone, Delete
<1> QED
    BY <1>1, <1>2, <1>3, <1>4, <1>5, <1>6 DEF ProgressInv
(* A plan has been carried out when all its keys are written. *)
LEMMA EndOfPlan ==
    ASSUME TypeInv, Idle
    PROVE  DOMAIN plan = 1..done /\ done \in Nat
<1>1. /\ Len(plan) \in Nat /\ DOMAIN plan = 1..Len(plan) /\ done \in 0..Len(plan)
    BY LenProperties DEF TypeInv, TypeOK
<1>2. done + 1 \notin 1..Len(plan)
    BY <1>1 DEF Idle
<1>3. done = Len(plan)
    <2> DEFINE l == Len(plan)
    <2>1. l \in Nat /\ done \in 0..l /\ done + 1 \notin 1..l
        BY <1>1, <1>2
    <2> HIDE DEF l
    <2>2. done = l
        BY <2>1
    <2> QED
        BY <2>2 DEF l
<1> QED
    BY <1>1, <1>3

LEMMA StatementEnds ==
    ASSUME TypeInv, ProgressInv
    PROVE  StatementTakesEffect
<1> SUFFICES ASSUME Idle, plan # <<>>
             PROVE  rows = Effect(stmt, before)
    BY DEF StatementTakesEffect
<1>1. /\ stmt \in Statements /\ plan = Plan(stmt, before)
      /\ DOMAIN before \subseteq Values /\ IsFiniteSet(DOMAIN before)
      /\ rows = [k \in DOMAIN rows |-> rows[k]]
    BY DEF ProgressInv
<1>2. DOMAIN plan = 1..done /\ done \in Nat
    BY EndOfPlan
<1>3. \A k : k \in Written <=> \E n \in DOMAIN plan : plan[n].key = k
    BY <1>2 DEF Written
<1> DEFINE ins == Inserted(stmt)
<1>4. ASSUME stmt.type \in {"INSERT", "BATCH"}
      PROVE  /\ PutsDone /\ DOMAIN plan = DOMAIN ins
             /\ \A n \in DOMAIN plan : plan[n].key = KeyOf(ins[n]) /\ plan[n].row = ins[n]
    BY <1>1, <1>4, PlanOf DEF ProgressInv, Insertion
<1>5. CASE stmt.type = "INSERT"
    <2>1. ins = <<stmt.row>> /\ DOMAIN ins = {1} /\ ins[1] = stmt.row
        BY <1>5 DEF Inserted
    <2> HIDE DEF ins
    <2>2. Written = {KeyOf(stmt.row)}
        BY <1>3, <1>4, <1>5, <2>1
    <2>3. rows[KeyOf(stmt.row)] = stmt.row
        BY <1>2, <1>4, <1>5, <2>1, <2>2 DEF PutsDone
    <2>4. /\ DOMAIN rows = DOMAIN before \cup {KeyOf(stmt.row)}
          /\ \A k \in DOMAIN rows : rows[k] = IF k = KeyOf(stmt.row) THEN stmt.row ELSE before[k]
        BY <1>4, <1>5, <2>2, <2>3 DEF PutsDone
    <2>5. Effect(stmt, before) = Put(before, KeyOf(stmt.row), stmt.row)
        BY <1>5 DEF Effect
    <2> QED
        BY <1>1, <2>4, <2>5 DEF Put
<1>6. CASE stmt.type = "BATCH"
    <2> DEFINE last(k) == CHOOSE n \in BatchAt(stmt.batch, k) :
                              \A m \in BatchAt(stmt.batch, k) : m <= n
    <2>1. ins = stmt.batch
        BY <1>6 DEF Inserted
    <2> HIDE DEF ins
    <2>2. DOMAIN rows = DOMAIN before \cup {KeyOf(stmt.batch[n]) : n \in DOMAIN stmt.batch}
        <3>1. Written = {KeyOf(stmt.batch[n]) : n \in DOMAIN stmt.batch}
            BY <1>3, <1>4, <1>6, <2>1
        <3> QED
            BY <1>4, <1>6, <3>1 DEF PutsDone
    <2>3. ASSUME NEW k \in Written
          PROVE  BatchAt(stmt.batch, k) # {} /\ rows[k] = stmt.batch[last(k)]
        <3>1. PICK n \in 1..done : /\ plan[n].key = k /\ rows[k] = plan[n].row
                                   /\ \A m \in (n + 1)..done : plan[m].key # k
            BY <1>4, <1>6 DEF PutsDone
        <3>2. BatchAt(stmt.batch, k) = {m \in 1..done : plan[m].key = k}
            BY <1>2, <1>4, <1>6, <2>1 DEF BatchAt
        <3>3. n \in BatchAt(stmt.batch, k)
            BY <3>1, <3>2
        <3>4. \A m \in BatchAt(stmt.batch, k) : m \in Int /\ m <= n
            BY <1>2, <3>1, <3>2
        <3>5. last(k) \in BatchAt(stmt.batch, k) /\ n <= last(k)
            BY <3>3, <3>4
        <3> HIDE DEF last
        <3>6. last(k) = n
            BY <3>4, <3>5
        <3> QED
            BY <1>2, <1>4, <1>6, <2>1, <3>1, <3>3, <3>6
    <2>4. ASSUME NEW k \in DOMAIN before \ Written
          PROVE  BatchAt(stmt.batch, k) = {} /\ rows[k] = before[k]
        BY <1>3, <1>4, <1>6, <2>1 DEF PutsDone, BatchAt
    <2>5. Effect(stmt, before) =
            [k \in DOMAIN before \cup {KeyOf(stmt.batch[n]) : n \in DOMAIN stmt.batch} |->
                IF BatchAt(stmt.batch, k) = {} THEN before[k] ELSE stmt.batch[last(k)]]
        BY <1>6 DEF Effect
    <2> HIDE DEF last
    <2>6. \A k \in DOMAIN rows :
            rows[k] = IF BatchAt(stmt.batch, k) = {} THEN before[k] ELSE stmt.batch[last(k)]
        BY <1>4, <1>6, <2>3, <2>4 DEF PutsDone
    <2> QED
        BY <1>1, <2>2, <2>5, <2>6
<1>7. CASE stmt.type = "UPDATE"
    <2>1. /\ MergesDone
          /\ \A k : k \in Written <=> k \in DOMAIN before /\ Matches(before[k], stmt.conds)
        BY <1>1, <1>3, <1>7, PlanOf DEF ProgressInv
    <2>2. Effect(stmt, before) =
            [k \in DOMAIN before |-> IF Matches(before[k], stmt.conds)
                                     THEN Merge(stmt.row, before[k]) ELSE before[k]]
        BY <1>7 DEF Effect
    <2> QED
        BY <1>1, <2>1, <2>2 DEF MergesDone
<1>8. CASE stmt.type = "DELETE"
    <2>1. /\ DeletesDone
          /\ stmt.keys # <<>> => \A k : k \in Written <=> \E n \in DOMAIN stmt.keys : stmt.keys[n] = k
          /\ stmt.keys = <<>> =>
                \A k : k \in Written <=> k \in DOMAIN before /\ Matches(before[k], stmt.conds)
        BY <1>1, <1>3, <1>8, PlanOf DEF ProgressInv
    <2> DEFINE kept == {x \in DOMAIN before : IF stmt.keys # <<>>
                                              THEN \A n \in DOMAIN stmt.keys : x # stmt.keys[n]
                                              ELSE ~Matches(before[x], stmt.conds)}
    <2>2. Effect(stmt, before) = [k \in kept |-> before[k]]
        BY <1>8 DEF Effect
    <2>3. kept = DOMAIN before \ Written
        BY <2>1
    <2> HIDE DEF kept
    <2> QED
        BY <1>1, <2>1, <2>2, <2>3 DEF DeletesDone
<1> QED
    BY <1>1, <1>5, <1>6, <1>7, <1>8, PlanOf

(* Each row is as it was, or as one of the writes of the statement makes it. *)
LEMMA NoRowIsTorn == TypeInv /\ ProgressInv /\ plan # <<>> => NoTornRow
<1> SUFFICES ASSUME TypeInv, ProgressInv, plan # <<>>
             PROVE  NoTornRow
    OBVIOUS
<1> DEFINE At(t, k) == IF k \in DOMAIN t THEN <<t[k]>> ELSE <<>>
           after == Effect(stmt, before)
           ins == Inserted(stmt)
<1> SUFFICES ASSUME NEW k
             PROVE  \/ At(rows, k) = At(before, k)
                    \/ At(rows, k) = At(after, k)
                    \/ /\ stmt.type = "BATCH"
                       /\ \E n \in BatchAt(stmt.batch, k) : At(rows, k) = <<stmt.batch[n]>>
    BY DEF NoTornRow
<1> HIDE DEF after
<1>1. /\ stmt \in Statements /\ plan = Plan(stmt, before)
      /\ DOMAIN before \subseteq Values /\ IsFiniteSet(DOMAIN before)
    BY DEF ProgressInv
<1>2. 1..done \subseteq DOMAIN plan
    BY LenProperties DEF TypeInv, TypeOK
<1>3. ASSUME stmt.type \in {"INSERT", "BATCH"}
      PROVE  /\ PutsDone /\ DOMAIN plan = DOMAIN ins
             /\ \A n \in DOMAIN plan : plan[n].key = KeyOf(ins[n]) /\ plan[n].row = ins[n]
    BY <1>1, <1>3, PlanOf DEF ProgressInv, Insertion
<1>4. ASSUME stmt.type \in {"INSERT", "BATCH"}, k \in Written
      PROVE  \E n \in DOMAIN ins : KeyOf(ins[n]) = k /\ At(rows, k) = <<ins[n]>>
    <2>1. k \in DOMAIN rows
        BY <1>3, <1>4 DEF PutsDone
    <2>2. PICK n \in 1..done : plan[n].key = k /\ rows[k] = plan[n].row
        BY <1>3, <1>4 DEF PutsDone
    <2> HIDE DEF ins
    <2> QED
        BY <1>2, <1>3, <1>4, <2>1, <2>2
<1>5. ASSUME stmt.type \in {"INSERT", "BATCH"}, k \notin Written
      PROVE  At(rows, k) = At(before, k)
    BY <1>3, <1>5 DEF PutsDone
<1>6. CASE stmt.type = "INSERT"
    <2>1. ins = <<stmt.row>> /\ DOMAIN ins = {1} /\ ins[1] = stmt.row
        BY <1>6 DEF Inserted
    <2> HIDE DEF ins
    <2>2. after = Put(before, KeyOf(stmt.row), stmt.row)
        BY <1>6 DEF Effect, after
    <2>3. At(after, KeyOf(stmt.row)) = <<stmt.row>>
        BY <2>2 DEF Put
    <2> QED
        BY <1>4, <1>5, <1>6, <2>1, <2>3
<1>7. CASE stmt.type = "BATCH"
    <2>1. ins = stmt.batch
        BY <1>7 DEF Inserted
    <2> HIDE DEF ins
    <2> QED
        BY <1>4, <1>5, <1>7, <2>1 DEF BatchAt
<1>8. CASE stmt.type = "UPDATE"
    <2>1. /\ MergesDone
          /\ k \in Written => k \in DOMAIN before /\ Matches(before[k], stmt.conds)
        BY <1>1, <1>2, <1>8, PlanOf DEF ProgressInv, Written
    <2>2. after = [x \in DOMAIN before |-> IF Matches(before[x], stmt.conds)
                                           THEN Merge(stmt.row, before[x]) ELSE before[x]]
        BY <1>8 DEF Effect, after
    <2> QED
        BY <2>1, <2>2 DEF MergesDone
<1>9. CASE stmt.type = "DELETE"
    <2>1. DeletesDone
        BY <1>9 DEF ProgressInv
    <2>2. CASE k \notin Written
        BY <2>1, <2>2 DEF DeletesDone
    <2>3. CASE k \in Written
        <3>1. k \notin DOMAIN rows
            BY <2>1, <2>3 DEF DeletesDone
        <3>2. \/ stmt.keys # <<>> /\ \E n \in DOMAIN stmt.keys : stmt.keys[n] = k
              \/ stmt.keys = <<>> /\ Matches(before[k], stmt.conds)
            <4>1. \E n \in DOMAIN plan : plan[n].key = k
                BY <1>2, <2>3 DEF Written
            <4>2. /\ stmt.keys # <<>> =>
                        \A j : (\E n \in DOMAIN plan : plan[n].key = j)
                                   <=> (\E n \in DOMAIN stmt.keys : stmt.keys[n] = j)
                  /\ stmt.keys = <<>> =>
                        \A j : (\E n \in DOMAIN plan : plan[n].key = j)
                                   <=> j \in DOMAIN before /\ Matches(before[j], stmt.conds)
                BY <1>1, <1>9, PlanOf
            <4> QED
                BY <4>1, <4>2
        <3> DEFINE kept == {x \in DOMAIN before : IF stmt.keys # <<>>
                                                  THEN \A n \in DOMAIN stmt.keys : x # stmt.keys[n]
                                                  ELSE ~Matches(before[x], stmt.conds)}
        <3>3. after = [x \in kept |-> before[x]]
            BY <1>9 DEF Effect, after
        <3>4. k \notin DOMAIN after
            BY <3>2, <3>3
        <3> QED
            BY <3>1, <3>4
    <2> QED
        BY <2>2, <2>3
<1> QED
    BY <1>1, <1>6, <1>7, <1>8, <1>9, PlanOf

TornInv == TypeInv /\ ProgressInv /\ NoTornRow

LEMMA ProgressIsKept == Spec => []TornInv
<1>1. Init => TornInv
    <2> SUFFICES ASSUME Init
                 PROVE  ProgressInv /\ NoTornRow
        BY InitTypeInv DEF TornInv
    <2>1. rows = [k \in DOMAIN rows |-> rows[k]] /\ plan = <<>> /\ stmt.type = "none"
        BY DEF Init
    <2> QED
        BY <2>1 DEF ProgressInv, NoTornRow
<1>2. TornInv /\ [Next]_vars => TornInv'
    <2> SUFFICES ASSUME TornInv, [Next]_vars
                 PROVE  TornInv'
        OBVIOUS
    <2>1. TypeInv /\ ProgressInv /\ NoTornRow /\ TypeInv'
        BY StepTypeInv DEF TornInv
    <2>2. CASE Write
        <3>1. ProgressInv'
            BY <2>1, <2>2, WriteProgress
        <3>2. (plan # <<>>)'
            BY <2>1, <2>2, StepWritten
        <3>3. (TypeInv /\ ProgressInv /\ plan # <<>> => NoTornRow)'
            BY NoRowIsTorn, PTL
        <3> QED
            BY <2>1, <3>1, <3>2, <3>3 DEF TornInv
    <2>3. ASSUME NEW s \in Statements, Begin(s)
          PROVE  TornInv'
        <3>1. /\ rows' = rows /\ before' = rows /\ stmt' = s /\ plan' = Plan(s, rows) /\ done' = 0
              /\ rows = [k \in DOMAIN rows |-> rows[k]]
              /\ DOMAIN rows \subseteq Values /\ IsFiniteSet(DOMAIN rows)
            BY <2>1, <2>3 DEF Begin, ProgressInv, TypeInv, TypeOK
        <3>2. Written' = {}
            BY <3>1 DEF Written
        <3>3. PutsDone' /\ MergesDone' /\ DeletesDone'
            BY <3>1, <3>2 DEF PutsDone, MergesDone, DeletesDone
        <3>4. ProgressInv'
            BY <3>1, <3>3 DEF ProgressInv
        <3>5. NoTornRow'
            BY <3>1 DEF NoTornRow
        <3> QED
            BY <2>1, <3>4, <3>5 DEF TornInv
    <2>4. ASSUME Restart
          PROVE  TornInv'
        BY <2>1, <2>4 DEF Restart, TornInv, ProgressInv, NoTornRow
    <2>5. ASSUME UNCHANGED <<rows, before, stmt, plan, done>>
          PROVE  TornInv'
        BY <2>1, <2>5 DEF TornInv, ProgressInv, NoTornRow, PutsDone, MergesDone, DeletesDone, Written
    <2> QED
        BY <2>2, <2>3, <2>4, <2>5 DEF Next, SelectOrdered, SelectAborts, Crash, vars
<1> QED
    BY <1>1, <1>2, PTL DEF Spec

(* A statement that ran to its end did what it says, in one step, to the    *)
(* rows there were when it began; its own writes do not disturb its loop.   *)
THEOREM StatementsMeanWhatTheySay == Spec => []StatementTakesEffect
<1>1. TornInv => StatementTakesEffect
    BY StatementEnds DEF TornInv
<1> QED
    BY <1>1, ProgressIsKept, PTL

(* Whenever the process dies, each row is as before the statement or as the *)
(* statement makes it: a statement may be cut between rows, never in one.   *)
THEOREM RowsAreNeverTorn == Spec => []NoTornRow
<1>1. TornInv => NoTornRow
    BY DEF TornInv
<1> QED
    BY <1>1, ProgressIsKept, PTL
=============================================================================
