----------------------------- MODULE SqlEngine ------------------------------
(***************************************************************************)
(* One table of the SQL engine: the rows in its RocksDB column family      *)
(* (DBManager), the in-memory index built when the process starts          *)
(* (IndexManager::rebuildAll), and the statements QueryExecutor runs.      *)
(*                                                                         *)
(* A statement runs under the V8 Locker of its request, so statements do   *)
(* not interleave.  RocksDB makes one Put or Delete atomic and nothing     *)
(* more: every write of a statement is a step of its own, and the process  *)
(* may end between two of them.                                            *)
(*                                                                         *)
(* Strings are numbers in lexicographic order, 0 the empty string; columns *)
(* are numbers in the alphabetical order of std::map.                      *)
(***************************************************************************)
EXTENDS Integers, Sequences, FiniteSets, SequencesExt

CONSTANTS
    Columns,        \* the column names in use
    IdColumn,       \* the column "id"
    IndexedFields,  \* indexedFields of the table in schemas.json
    Values,         \* the strings in use, "" among them
    Statements,     \* the write statements clients issue, parsed
    Windows,        \* the <<skip, limit>> of ordered selects
    MaxCrashes      \* bound: deaths of the process

ASSUME NameAssumption ==
    /\ Columns \subseteq Nat
    /\ IdColumn \in Columns
    /\ IndexedFields \subseteq Columns
    /\ Values \subseteq Nat /\ 0 \in Values
    /\ Windows \subseteq Nat \X Int
    /\ MaxCrashes \in Nat

(* What a std::map from columns to strings may be *)
RowOf(cols) == [cols -> Values]
Row == UNION {RowOf(cols) : cols \in SUBSET Columns}

(* What the parser makes of a statement: its rows, its keys, its conditions *)
ASSUME StatementAssumption ==
    \A s \in Statements :
        \/ s.type \in {"INSERT", "UPDATE"} /\ s.row \in Row
        \/ s.type = "BATCH" /\ s.batch \in Seq(Row)
        \/ s.type = "DELETE" /\ s.keys \in Seq(Values)

VARIABLES
    rows,     \* the column family: a function from keys to rows
    index,    \* index[table]: a set of records [field, value, key]
    plan,     \* the writes of the running statement, <<>> when there is none
    done,     \* how many of them were made
    stmt,     \* the running or the last statement
    before,   \* rows when that statement started (history)
    deleted,  \* a row was deleted since the process started (history)
    renamed,  \* the keys whose row an UPDATE gave another id (history)
    answer,   \* the keys of the rows the last ordered select returned
    crashes   \* deaths of the process so far

vars == <<rows, index, plan, done, stmt, before, deleted, renamed, answer, crashes>>
-----------------------------------------------------------------------------
(* Rows *)

EmptyString == 0

Field(row, c) == IF c \in DOMAIN row THEN row[c] ELSE EmptyString

(* DBManager::insert: the id column, or else the first column there is *)
FirstColumn(row) == CHOOSE c \in DOMAIN row : \A d \in DOMAIN row : c <= d

(* Mutant: the legacy behaviour, the id column has no precedence *)
KeyOfMutant(row) ==
    IF DOMAIN row = {} THEN EmptyString ELSE row[FirstColumn(row)]

KeyOf(row) ==
    IF IdColumn \in DOMAIN row THEN row[IdColumn]
    ELSE IF DOMAIN row = {} THEN EmptyString
    ELSE row[FirstColumn(row)]

(* DBManager::update: the given columns over the existing ones *)
Merge(new, old) ==
    [c \in DOMAIN new \cup DOMAIN old |->
        IF c \in DOMAIN new THEN new[c] ELSE old[c]]

Put(t, k, row) == [x \in DOMAIN t \cup {k} |-> IF x = k THEN row ELSE t[x]]
Delete(t, k)   == [x \in DOMAIN t \ {k} |-> t[x]]

Holds(lhs, op, rhs) ==
    \/ op = "="  /\ lhs = rhs
    \/ op = "!=" /\ lhs # rhs
    \/ op = "<"  /\ lhs < rhs
    \/ op = ">"  /\ lhs > rhs
    \/ op = "<=" /\ lhs <= rhs
    \/ op = ">=" /\ lhs >= rhs

Matches(row, conds) ==
    \A c \in conds : Holds(Field(row, c.key), c.op, c.value)

(* The members of a set in an order: before each of them, the lesser ones *)
InOrder(S, Less(_, _)) ==
    [n \in 1..Cardinality(S) |->
        CHOOSE x \in S : Cardinality({y \in S : Less(y, x)}) = n - 1]

(* DBManager::scan with skip 0 and no limit: the matching keys in key order *)
Scan(t, conds) ==
    InOrder({k \in DOMAIN t : Matches(t[k], conds)}, LAMBDA x, y : x < y)
-----------------------------------------------------------------------------
(* IndexManager *)

RebuildAll(t) ==
    {e \in [field : IndexedFields, value : Values, key : DOMAIN t] :
        e.field \in DOMAIN t[e.key] /\ e.value = t[e.key][e.field]}

HasIndex(f) == \E e \in index : e.field = f

(* The multimap of a field in iteration order: by value, and among equal    *)
(* values in order of insertion, which rebuildAll makes the key order       *)
Ascending(f) ==
    InOrder({e \in index : e.field = f},
        LAMBDA d, e : d.value < e.value \/ (d.value = e.value /\ d.key < e.key))

(* The entries an ordered select visits; "++taken == limit" never stops a   *)
(* limit of 0 or -1                                                         *)
Visited(f, desc, window) ==
    LET all  == IF desc THEN Reverse(Ascending(f)) ELSE Ascending(f)
        stop == IF window[2] > 0 THEN window[1] + window[2] ELSE Len(all)
    IN  SubSeq(all, window[1] + 1, IF stop < Len(all) THEN stop ELSE Len(all))
-----------------------------------------------------------------------------
(* The writes of a statement, in the order QueryExecutor makes them         *)

Insertion(row) == [op |-> "put", key |-> KeyOf(row), row |-> row]

(* Mutant: DELETE stops after the first row *)
PlanMutant(s, t) ==
    CASE s.type = "INSERT" -> <<Insertion(s.row)>>
      [] s.type = "BATCH"  -> [n \in DOMAIN s.batch |-> Insertion(s.batch[n])]
      [] s.type = "UPDATE" ->
            LET keys == Scan(t, s.conds) IN
            [n \in DOMAIN keys |-> [op |-> "merge", key |-> keys[n], row |-> s.row]]
      [] s.type = "DELETE" ->
            LET keys == IF s.keys # <<>> THEN s.keys ELSE Scan(t, s.conds) IN
            [n \in DOMAIN keys \cap {1} |-> [op |-> "delete", key |-> keys[n]]]

Plan(s, t) ==
    CASE s.type = "INSERT" -> <<Insertion(s.row)>>
      [] s.type = "BATCH"  -> [n \in DOMAIN s.batch |-> Insertion(s.batch[n])]
      [] s.type = "UPDATE" ->
            LET keys == Scan(t, s.conds) IN
            [n \in DOMAIN keys |-> [op |-> "merge", key |-> keys[n], row |-> s.row]]
      [] s.type = "DELETE" ->
            LET keys == IF s.keys # <<>> THEN s.keys ELSE Scan(t, s.conds) IN
            [n \in DOMAIN keys |-> [op |-> "delete", key |-> keys[n]]]

Idle == done + 1 \notin DOMAIN plan

Init ==
    /\ rows = <<>> /\ index = {}
    /\ plan = <<>> /\ done = 0
    /\ stmt = [type |-> "none"] /\ before = <<>>
    /\ deleted = FALSE /\ renamed = {} /\ answer = <<>> /\ crashes = 0

(* Mutant: the count of writes is not reset *)
BeginMutant(s) ==
    /\ Idle
    /\ stmt' = s
    /\ before' = rows
    /\ plan' = Plan(s, rows)
    /\ done' = done
    /\ answer' = <<>>
    /\ UNCHANGED <<rows, index, deleted, renamed, crashes>>

Begin(s) ==
    /\ Idle
    /\ stmt' = s
    /\ before' = rows
    /\ plan' = Plan(s, rows)
    /\ done' = 0
    /\ answer' = <<>>
    /\ UNCHANGED <<rows, index, deleted, renamed, crashes>>

(* A row that is written anew or deleted is not the renamed one any more *)
RenamedBy(w) ==
    (renamed \ {w.key}) \cup
        {k \in {w.key} :
            /\ w.op = "merge"
            /\ IF IdColumn \in DOMAIN w.row THEN w.row[IdColumn] # k ELSE k \in renamed}

(* Mutant: UPDATE replaces the row instead of merging into it *)
WriteMutant ==
    /\ ~Idle
    /\ LET w == plan[done + 1] IN
         \/ /\ w.op \in {"put", "merge"}
            /\ rows' = Put(rows, w.key, w.row)
            /\ UNCHANGED deleted
         \/ /\ w.op = "delete"
            /\ rows' = Delete(rows, w.key)
            /\ deleted' = TRUE
    /\ renamed' = RenamedBy(plan[done + 1])
    /\ done' = done + 1
    /\ UNCHANGED <<index, plan, stmt, before, answer, crashes>>

(* Mutant: UPDATE moves the row to the key of its new contents *)
WriteRekeysMutant ==
    /\ ~Idle
    /\ LET w == plan[done + 1] IN
         \/ /\ w.op = "put"
            /\ rows' = Put(rows, w.key, w.row)
            /\ UNCHANGED deleted
         \/ /\ w.op = "merge"
            /\ LET row == Merge(w.row, rows[w.key]) IN
               rows' = Put(Delete(rows, w.key), KeyOf(row), row)
            /\ UNCHANGED deleted
         \/ /\ w.op = "delete"
            /\ rows' = Delete(rows, w.key)
            /\ deleted' = TRUE
    /\ renamed' = RenamedBy(plan[done + 1])
    /\ done' = done + 1
    /\ UNCHANGED <<index, plan, stmt, before, answer, crashes>>

(* One RocksDB write.  The index is not told of it: nothing in QueryExecutor *)
(* or DBManager calls IndexManager::add or remove.                           *)
Write ==
    /\ ~Idle
    /\ LET w == plan[done + 1] IN
         \/ /\ w.op = "put"
            /\ rows' = Put(rows, w.key, w.row)
            /\ UNCHANGED deleted
         \/ /\ w.op = "merge"
            /\ w.key \in DOMAIN rows
            /\ rows' = Put(rows, w.key, Merge(w.row, rows[w.key]))
            /\ UNCHANGED deleted
         \/ /\ w.op = "delete"
            /\ rows' = Delete(rows, w.key)
            /\ deleted' = TRUE
    /\ renamed' = RenamedBy(plan[done + 1])
    /\ done' = done + 1
    /\ UNCHANGED <<index, plan, stmt, before, answer, crashes>>

(* SELECT * FROM t ORDER BY f SKIP m LIMIT n, answered from the index *)
SelectOrdered(f, desc, window) ==
    LET visited == Visited(f, desc, window) IN
    /\ Idle
    /\ HasIndex(f)
    /\ \A n \in DOMAIN visited : visited[n].key \in DOMAIN rows
    /\ answer' = [n \in DOMAIN visited |-> visited[n].key]
    /\ UNCHANGED <<rows, index, plan, done, stmt, before, deleted, renamed, crashes>>

Restart ==
    /\ index' = RebuildAll(rows)
    /\ plan' = <<>> /\ done' = 0
    /\ deleted' = FALSE
    /\ answer' = <<>>
    /\ UNCHANGED <<rows, stmt, before, renamed>>

(* The same select when an entry it visits has lost its row: get finds no    *)
(* JSON to parse, the exception leaves JsDbQuery through V8 and the process  *)
(* is terminated and started again.                                          *)
SelectAborts(f, desc, window) ==
    LET visited == Visited(f, desc, window) IN
    /\ Idle
    /\ HasIndex(f)
    /\ \E n \in DOMAIN visited : visited[n].key \notin DOMAIN rows
    /\ Restart
    /\ UNCHANGED crashes

(* The process dies for another reason, between two writes, and restarts *)
Crash ==
    /\ crashes < MaxCrashes
    /\ crashes' = crashes + 1
    /\ Restart

Next ==
    \/ \E s \in Statements : Begin(s)
    \/ Write
    \/ \E f \in IndexedFields, desc \in BOOLEAN, w \in Windows :
          SelectOrdered(f, desc, w) \/ SelectAborts(f, desc, w)
    \/ Crash

Spec == Init /\ [][Next]_vars
-----------------------------------------------------------------------------
(* Properties *)

(* The types of the variables *)
TypeOK ==
    /\ DOMAIN rows \subseteq Values
    /\ \A k \in DOMAIN rows : rows[k] \in Row
    /\ \A e \in index : e.field \in IndexedFields /\ e.value \in Values /\ e.key \in Values
    /\ done \in 0..Len(plan)
    /\ deleted \in BOOLEAN
    /\ renamed \subseteq DOMAIN rows
    /\ \A n \in DOMAIN answer : answer[n] \in Values
    /\ crashes \in 0..MaxCrashes

(* What a statement means, in one step *)
BatchAt(batch, k) == {n \in DOMAIN batch : KeyOf(batch[n]) = k}

Effect(s, t) ==
    CASE s.type = "INSERT" -> Put(t, KeyOf(s.row), s.row)
      [] s.type = "BATCH"  ->
            [k \in DOMAIN t \cup {KeyOf(s.batch[n]) : n \in DOMAIN s.batch} |->
                LET at == BatchAt(s.batch, k) IN
                IF at = {} THEN t[k]
                ELSE s.batch[CHOOSE n \in at : \A m \in at : m <= n]]
      [] s.type = "UPDATE" ->
            [k \in DOMAIN t |-> IF Matches(t[k], s.conds)
                               THEN Merge(s.row, t[k]) ELSE t[k]]
      [] s.type = "DELETE" ->
            [k \in {x \in DOMAIN t : IF s.keys # <<>>
                                     THEN \A n \in DOMAIN s.keys : x # s.keys[n]
                                     ELSE ~Matches(t[x], s.conds)} |-> t[k]]

(* A statement that ran to its end did what it says to the rows that were   *)
(* there when it began: the loop over the keys collected beforehand is not  *)
(* disturbed by its own writes.                                             *)
StatementTakesEffect ==
    Idle /\ plan # <<>> => rows = Effect(stmt, before)

(* No crash leaves a row that is neither as it was before the statement nor *)
(* as the statement (or an earlier row of the same batch) makes it.         *)
NoTornRow ==
    stmt.type # "none" =>
        LET At(t, k) == IF k \in DOMAIN t THEN <<t[k]>> ELSE <<>>
            after    == Effect(stmt, before)
        IN  \A k \in DOMAIN rows \cup DOMAIN before \cup DOMAIN after :
               \/ At(rows, k) \in {At(before, k), At(after, k)}
               \/ /\ stmt.type = "BATCH"
                  /\ \E n \in BatchAt(stmt.batch, k) : At(rows, k) = <<stmt.batch[n]>>

(* Every stored row that has an id is stored under it ("Prefer explicit     *)
(* 'id' field as primary key", DBManager::insert), except where an UPDATE   *)
(* has set another id: update keeps the key of the row (DBManager.cpp:86).  *)
(* So two rows have one id only after such an UPDATE of one of them.        *)
KeyIsId ==
    \A k \in DOMAIN rows :
        IdColumn \in DOMAIN rows[k] => rows[k][IdColumn] = k \/ k \in renamed

(* Until a row is deleted, no ordered select can hit an index entry without *)
(* a row and terminate the process, however stale the index is otherwise.   *)
EntriesHaveRows == ~deleted => \A e \in index : e.key \in DOMAIN rows

(* The inductive invariant of KeyIsId: no insertion that is still to come    *)
(* stores an id under another key.                                          *)
PlanKeepsIds ==
    \A n \in DOMAIN plan :
        plan[n].op = "put" /\ IdColumn \in DOMAIN plan[n].row
            => plan[n].row[IdColumn] = plan[n].key

KeyInv == KeyIsId /\ PlanKeepsIds
=============================================================================
