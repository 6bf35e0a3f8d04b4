--------------------------- MODULE SelectPipeline ---------------------------
(***************************************************************************)
(* QueryExecutor::handleSelect: the pipeline a parsed SELECT goes through, *)
(* and the shortcut that answers an ORDER BY from the in-memory index.     *)
(*                                                                         *)
(* A table is the sequence of its rows in key order, a row a function from *)
(* column names to values.  An index is built when the process starts and  *)
(* never again, so that a database also holds the tables of that time.     *)
(* A value is the decimal string of a number below 100, the empty string,  *)
(* or a word, for which a number from 100 stands; all comparisons are      *)
(* those of strings.                                                       *)
(***************************************************************************)
EXTENDS Integers, Sequences, FiniteSets, SequencesExt

CONSTANTS
    Databases,  \* the contents of the store and the indices in memory: records
                \* [tables, built, kept, declared], see DatabaseAssumption
    Queries     \* parsed SELECTs: records [table, joins, conds, cols, sums,
                \* count, group, order, desc, skip, limit]

Empty  == -1    \* the string ""
NoName == ""    \* a query has no GROUP BY, no ORDER BY, no table in a condition

IsRow(r) == DOMAIN r \subseteq STRING /\ r \in [DOMAIN r -> Nat \cup {Empty}]

IsTable(s) == s \in Seq(Range(s)) /\ \A n \in DOMAIN s : IsRow(s[n])

(* tables, and built, what they were when rebuildAll ran, are functions from *)
(* names to tables.  kept says where the row under a key of that time is    *)
(* now, 0 if it has been deleted, and declared is the set of the pairs of a *)
(* table and a column that schemas.json gives an index.                     *)
ASSUME DatabaseAssumption ==
    \A d \in Databases :
        /\ \A t \in DOMAIN d.tables : IsTable(d.tables[t])
        /\ \A t \in DOMAIN d.built : /\ t \in DOMAIN d.tables /\ IsTable(d.built[t])
                                     /\ d.kept[t] \in [DOMAIN d.built[t] -> 0..Len(d.tables[t])]

(* Tables without an index, as with the schemas.json of the repository      *)
Unindexed(tables) == [tables |-> tables, built |-> <<>>, kept |-> <<>>, declared |-> {}]

IsQuery(q) ==
    /\ q = [table |-> q.table, joins |-> q.joins, conds |-> q.conds, cols |-> q.cols,
            sums |-> q.sums, count |-> q.count, group |-> q.group, order |-> q.order,
            desc |-> q.desc, skip |-> q.skip, limit |-> q.limit]
    /\ q.joins \in Seq(Range(q.joins)) /\ \A j \in Range(q.joins) : j.rightField \in STRING
    /\ {c.key : c \in q.conds} \cup q.sums \cup {q.group, q.order} \subseteq STRING
    /\ q.skip \in Nat /\ q.limit \in Nat \cup {-1}

ASSUME QueryAssumption == \A q \in Queries : IsQuery(q)

VARIABLES
    db,      \* the tables and their indices
    query,   \* the last SELECT
    answer   \* the rows it gave

vars == <<db, query, answer>>
-----------------------------------------------------------------------------
(* Values and rows *)

(* The place of a value in the order of strings: "5" < "50" < "6" < "a" *)
Lexical(v) ==
    IF v = Empty THEN -1
    ELSE IF v < 10 THEN 11 * v ELSE 11 * (v \div 10) + 1 + (v % 10)

(* std::stod, 0 when it throws *)
Number(v) == IF v = Empty \/ v >= 100 THEN 0 ELSE v

Field(row, c) == IF c \in DOMAIN row THEN row[c] ELSE Empty

(* std::map::insert of the one into the other: what is there stays *)
Extend(row, more) ==
    [c \in DOMAIN row \cup DOMAIN more |-> IF c \in DOMAIN row THEN row[c] ELSE more[c]]

(* operator[] of std::map, which adds a missing column *)
Touch(row, columns) == Extend(row, [c \in columns |-> Empty])

Holds(lhs, op, rhs) ==
    \/ op = "="  /\ lhs = rhs
    \/ op = "!=" /\ lhs # rhs
    \/ op = "<"  /\ Lexical(lhs) < Lexical(rhs)
    \/ op = ">"  /\ Lexical(lhs) > Lexical(rhs)
    \/ op = "<=" /\ Lexical(lhs) <= Lexical(rhs)
    \/ op = ">=" /\ Lexical(lhs) >= Lexical(rhs)

Matches(row, conds) == \A c \in conds : Holds(Field(row, c.key), c.op, c.value)

(* The members of a set in an order: before each of them, the lesser ones *)
InOrder(S, Less(_, _)) ==
    [n \in 1..Cardinality(S) |->
        CHOOSE x \in S : Cardinality({y \in S : Less(y, x)}) = n - 1]

(* What is at these places of s *)
Picked(s, places) ==
    LET listed == InOrder(places, LAMBDA m, n : m < n)
    IN  [n \in 1..Cardinality(places) |-> s[listed[n]]]

Where(rows, conds) == Picked(rows, {n \in DOMAIN rows : Matches(rows[n], conds)})

(* The rows whose column has the value *)
With(rows, column, value) == Picked(rows, {n \in DOMAIN rows : Field(rows[n], column) = value})

(* A table nothing has been written to has no rows *)
Table(d, t) == IF t \in DOMAIN d.tables THEN d.tables[t] ELSE <<>>
Built(d, t) == IF t \in DOMAIN d.built THEN d.built[t] ELSE <<>>

(* IndexManager::hasIndex: rebuildAll makes the index of a declared field   *)
(* with its first entry                                                     *)
HasIndex(d, t, f) ==
    /\ <<t, f>> \in d.declared
    /\ \E n \in DOMAIN Built(d, t) : f \in DOMAIN Built(d, t)[n]

(* No row of the table was written since its indices were built *)
Current(d, t) ==
    /\ Built(d, t) = Table(d, t)
    /\ \A n \in DOMAIN Built(d, t) : d.kept[t][n] = n

Page(s, skip, limit) ==
    SubSeq(s, skip + 1, IF limit >= 0 /\ skip + limit < Len(s) THEN skip + limit ELSE Len(s))
-----------------------------------------------------------------------------
(* The generic path *)

(* Conditions on columns of the first table are tested while it is scanned *)
BaseConds(q) == {c \in q.conds : c.table \in {NoName, q.table}}
PostConds(q) == q.conds \ BaseConds(q)

(* Mutant: rows that do not match count as skipped ones *)
ScanMutant(table, conds, skip, limit) ==
    Page(Where(Page(table, skip, -1), conds), 0, IF limit > 0 THEN limit ELSE -1)

(* DBManager::scan, where a limit of 0 is no limit *)
Scan(table, conds, skip, limit) ==
    Page(Where(table, conds), skip, IF limit > 0 THEN limit ELSE -1)

(* equal_range of the index: the places, at the time it was built, of the   *)
(* rows that had the column with this value                                 *)
Entered(d, j, value) ==
    LET built == Built(d, j.rightTable)
    IN  {n \in DOMAIN built : j.rightField \in DOMAIN built[n] /\ built[n][j.rightField] = value}

(* get of the key of an entry throws when its row has been deleted *)
IsGone(d, j, value) ==
    /\ HasIndex(d, j.rightTable, j.rightField)
    /\ \E n \in Entered(d, j, value) : d.kept[j.rightTable][n] = 0

(* The rows on the right: those under the keys of the index as they are now *)
Fetched(d, j, value) ==
    LET left   == {n \in Entered(d, j, value) : d.kept[j.rightTable][n] # 0}
        listed == InOrder(left, LAMBDA m, n : m < n)
    IN  [k \in 1..Cardinality(left) |->
            Table(d, j.rightTable)[d.kept[j.rightTable][listed[k]]]]

(* or, without one, those with the value, to which operator[] has added it  *)
Scanned(d, j, value) ==
    LET found == With(Table(d, j.rightTable), j.rightField, value)
    IN  [k \in DOMAIN found |-> Touch(found[k], {j.rightField})]

Hits(d, j, value) ==
    IF HasIndex(d, j.rightTable, j.rightField) THEN Fetched(d, j, value) ELSE Scanned(d, j, value)

(* Mutant: only the first match on the right counts *)
JoinRowMutant(d, row, j) ==
    LET hits == Hits(d, j, Field(row, j.leftField))
    IN  IF hits = <<>> /\ j.type = "LEFT" THEN <<row>>
        ELSE [k \in DOMAIN hits \cap {1} |-> Extend(row, hits[k])]

(* One row of the left side with all it matches on the right; columns that  *)
(* both have keep the value of the left                                     *)
JoinRow(d, row, j) ==
    LET hits == Hits(d, j, Field(row, j.leftField))
    IN  IF hits = <<>> /\ j.type = "LEFT" THEN <<row>>
        ELSE [k \in DOMAIN hits |-> Extend(row, hits[k])]

JoinedTo(d, left, j) == FlattenSeq([n \in DOMAIN left |-> JoinRow(d, left[n], j)])

Joined(d, q, rows) == FoldLeft(LAMBDA left, j : JoinedTo(d, left, j), rows, q.joins)

(* A join comes to the entry of a row that has been deleted *)
Throws(d, q) ==
    \E k \in DOMAIN q.joins :
        LET base == Scan(Table(d, q.table), BaseConds(q), q.skip, q.limit)
            left == Joined(d, [q EXCEPT !.joins = SubSeq(@, 1, k - 1)], base)
        IN  \E n \in DOMAIN left : IsGone(d, q.joins[k], Field(left[n], q.joins[k].leftField))

Filtered(q, rows) ==
    LET conds == PostConds(q)
        kept  == Where(rows, conds)
    IN  [n \in DOMAIN kept |-> Touch(kept[n], {c.key : c \in conds})]

Total(rows, c) == SumFunction([n \in DOMAIN rows |-> Number(Field(rows[n], c))])

(* Mutant: rows without the column are in no group *)
GroupedMutant(q, rows) ==
    LET keys     == InOrder({Field(rows[n], q.group) : n \in DOMAIN rows} \ {Empty},
                            LAMBDA v, w : Lexical(v) < Lexical(w))
        Sums(v)  == [s \in q.sums |-> Total(With(rows, q.group, v), s)]
        Count(v) == [c \in {"count"} |-> Len(With(rows, q.group, v))]
        Key(v)   == [c \in {q.group} |-> v]
    IN  [n \in DOMAIN keys |->
            Extend(IF q.sums # {} THEN Sums(keys[n]) ELSE Count(keys[n]), Key(keys[n]))]

(* One row of the result for each group, in the order of the group's value: *)
(* the sums asked for, or else the count                                    *)
Grouped(q, rows) ==
    LET keys     == InOrder({Field(rows[n], q.group) : n \in DOMAIN rows},
                            LAMBDA v, w : Lexical(v) < Lexical(w))
        Sums(v)  == [s \in q.sums |-> Total(With(rows, q.group, v), s)]
        Count(v) == [c \in {"count"} |-> Len(With(rows, q.group, v))]
        Key(v)   == [c \in {q.group} |-> v]
    IN  [n \in DOMAIN keys |->
            Extend(IF q.sums # {} THEN Sums(keys[n]) ELSE Count(keys[n]), Key(keys[n]))]

Projected(q, rows) ==
    IF q.cols = {"*"} THEN rows
    ELSE [n \in DOMAIN rows |-> [c \in q.cols |-> Field(rows[n], c)]]

(* std::sort keeps no order among equal values, and its comparison adds the *)
(* column to the rows it sees                                               *)
Sorted(q, rows) ==
    IF q.order = NoName THEN {rows}
    ELSE LET Place(r)  == Lexical(Field(r, q.order))
             touched   == IF Len(rows) < 2 THEN rows
                          ELSE [n \in DOMAIN rows |-> Touch(rows[n], {q.order})]
             orders    == {p \in [DOMAIN rows -> DOMAIN rows] :
                              /\ Cardinality({p[n] : n \in DOMAIN rows}) = Len(rows)
                              /\ \A n \in 2..Len(rows) :
                                    IF q.desc
                                    THEN Place(rows[p[n]]) <= Place(rows[p[n - 1]])
                                    ELSE Place(rows[p[n - 1]]) <= Place(rows[p[n]])}
         IN  {[n \in DOMAIN rows |-> touched[p[n]]] : p \in orders}

Aggregates(q) == q.joins # <<>> \/ q.group # NoName \/ q.count

Generic(d, q) ==
    LET base   == Scan(Table(d, q.table), BaseConds(q), q.skip, q.limit)
        rows   == Filtered(q, Joined(d, q, base))
        result == IF q.group # NoName THEN Grouped(q, rows) ELSE Projected(q, rows)
    IN  {IF Aggregates(q) THEN Page(s, q.skip, q.limit) ELSE s : s \in Sorted(q, result)}
-----------------------------------------------------------------------------
(* The shortcut: walk the multimap of the field, as rebuildAll left it, and *)
(* get the rows under its keys, whatever columns are selected.              *)

(* Mutant: a map, which has one entry for a value *)
EntriesMutant(table, f) ==
    InOrder({n \in DOMAIN table : /\ f \in DOMAIN table[n]
                                  /\ \A m \in 1..(n - 1) : Field(table[m], f) # table[n][f]},
        LAMBDA m, n : Lexical(table[m][f]) < Lexical(table[n][f]))

Entries(table, f) ==
    InOrder({n \in DOMAIN table : f \in DOMAIN table[n]},
        LAMBDA m, n : \/ Lexical(table[m][f]) < Lexical(table[n][f])
                      \/ table[m][f] = table[n][f] /\ m < n)

PushesOrder(q) == q.order # NoName /\ ~Aggregates(q) /\ q.conds = {}

(* The places, at the time the index was built, of the rows it gives        *)
Visited(d, q) ==
    LET entries == Entries(Built(d, q.table), q.order)
        walked  == IF q.desc THEN Reverse(entries) ELSE entries
    IN  Page(walked, q.skip, IF q.limit > 0 THEN q.limit ELSE -1)

Indexed(d, q) ==
    [n \in DOMAIN Visited(d, q) |-> Table(d, q.table)[d.kept[q.table][Visited(d, q)[n]]]]
-----------------------------------------------------------------------------
NoQuery == [table |-> NoName]

Init ==
    /\ db \in Databases
    /\ query = NoQuery
    /\ answer = <<>>

(* A SELECT on the generic path.  One that throws gives no answer. *)
SelectGeneric(q) ==
    /\ ~(PushesOrder(q) /\ HasIndex(db, q.table, q.order))
    /\ ~Throws(db, q)
    /\ query' = q
    /\ answer' \in Generic(db, q)
    /\ UNCHANGED db

(* A SELECT that the index of its ORDER BY answers; it throws at a row that *)
(* has been deleted                                                         *)
SelectIndexed(q) ==
    /\ PushesOrder(q) /\ HasIndex(db, q.table, q.order)
    /\ \A n \in DOMAIN Visited(db, q) : db.kept[q.table][Visited(db, q)[n]] # 0
    /\ query' = q
    /\ answer' = Indexed(db, q)
    /\ UNCHANGED db

Next == \E q \in Queries : SelectGeneric(q) \/ SelectIndexed(q)

Spec == Init /\ [][Next]_vars
-----------------------------------------------------------------------------
(* Properties *)

Unpaged(q) == [q EXCEPT !.skip = 0, !.limit = -1]
IsUnpaged(q) == q.skip = 0 /\ q.limit = -1
Only(answers) == CHOOSE a \in answers : TRUE

(* Reading a table page by page, without ORDER BY, gives every matching row *)
(* exactly once: what comes before a page, the page and what comes after it *)
(* make up the whole answer.                                                *)
PagesTile ==
    query # NoQuery /\ query.order = NoName /\ ~Aggregates(query) /\ query.skip > 0 /\ query.limit > 0
        => LET front == [query EXCEPT !.skip = 0, !.limit = query.skip]
               back  == [query EXCEPT !.skip = query.skip + query.limit, !.limit = -1]
           IN  Only(Generic(db, front)) \o answer \o Only(Generic(db, back))
                   = Only(Generic(db, Unpaged(query)))

(* The rows of the right table that belong to row m of the left *)
Partners(d, q, m) ==
    LET j     == q.joins[1]
        right == Table(d, j.rightTable)
    IN  {n \in DOMAIN right :
            Field(right[n], j.rightField) = Field(Table(d, q.table)[m], j.leftField)}

(* What a join of two tables puts together; 0 for no partner *)
Pairs(d, q) ==
    LET left == DOMAIN Table(d, q.table)
    IN  (UNION {{m} \X Partners(d, q, m) : m \in left})
            \cup ({m \in left : q.joins[1].type = "LEFT" /\ Partners(d, q, m) = {}} \X {0})

(* The value of a column on the left and on the right of a pair *)
OnLeft(d, q, p, c) == Field(Table(d, q.table)[p[1]], c)

OnRight(d, q, p, c) ==
    IF p[2] = 0 THEN Empty ELSE Field(Table(d, q.joins[1].rightTable)[p[2]], c)

(* A pair meets the conditions on the first table and those on the second *)
Meets(d, q, p) ==
    /\ \A c \in BaseConds(q) : Holds(OnLeft(d, q, p, c.key), c.op, c.value)
    /\ \A c \in PostConds(q) : Holds(OnRight(d, q, p, c.key), c.op, c.value)

(* The pairs in the order of the rows on the left, then of those on the right *)
Answers(d, q) ==
    InOrder({p \in Pairs(d, q) : Meets(d, q, p)},
            LAMBDA p, r : p[1] < r[1] \/ (p[1] = r[1] /\ p[2] < r[2]))

(* A join of two tables is the relational one, although the conditions on   *)
(* the first table are tested before it, those on the second after it and   *)
(* on merged rows: every pair of rows that belongs together and meets all   *)
(* conditions, once; a LEFT JOIN also keeps the rows without a partner.     *)
(* (Where a condition on the second table names a column that the first     *)
(* has as well, it is the first table's value that is tested.)  So it is    *)
(* without an index on the joined column, and with one only as long as      *)
(* nothing was written to the second table since the process started and    *)
(* all of its rows have the column: no write adds to the index, so that a   *)
(* later row is not found, a changed one is found by its former value, and  *)
(* at a deleted one the SELECT throws.                                      *)
RightIsFound(d, j) ==
    HasIndex(d, j.rightTable, j.rightField) =>
        /\ Current(d, j.rightTable)
        /\ \A n \in DOMAIN Table(d, j.rightTable) : j.rightField \in DOMAIN Table(d, j.rightTable)[n]

JoinIsRelational ==
    query # NoQuery /\ Len(query.joins) = 1 /\ query.group = NoName
        /\ query.order = NoName /\ query.cols = {"*"} /\ IsUnpaged(query)
        /\ RightIsFound(db, query.joins[1])
        /\ (\A m \in DOMAIN Table(db, query.table) : \A c \in PostConds(query) :
                c.key \notin DOMAIN Table(db, query.table)[m])
    => LET pairs == Answers(db, query)
           Left(k)  == Table(db, query.table)[pairs[k][1]]
       IN  /\ Len(answer) = Len(pairs)
           /\ \A k \in DOMAIN answer :
                 /\ DOMAIN Left(k) \subseteq DOMAIN answer[k]
                 /\ \A c \in DOMAIN answer[k] :
                       answer[k][c] = IF c \in DOMAIN Left(k) THEN Left(k)[c]
                                      ELSE OnRight(db, query, pairs[k], c)

(* Every row of the query without its GROUP BY is counted, or added up, in  *)
(* exactly one group.  (A sum or the count that is called like the column   *)
(* of the groups takes its place in the answer.)                            *)
GroupsPartitionRows ==
    query # NoQuery /\ query.group # NoName /\ IsUnpaged(query)
        /\ query.group \notin (IF query.sums = {} THEN {"count"} ELSE query.sums)
    => LET flat   == Only(Generic(db, [query EXCEPT !.group = NoName, !.order = NoName,
                                                   !.sums = {}, !.cols = {"*"}]))
           Sum(c) == SumFunction([n \in DOMAIN answer |-> answer[n][c]])
       IN  /\ \A m, n \in DOMAIN answer :
                 answer[m][query.group] = answer[n][query.group] => m = n
           /\ query.sums = {} => Sum("count") = Len(flat)
           /\ \A c \in query.sums : Sum(c) = Total(flat, c)

(* With an index on a column that every row has, and no write since it was  *)
(* built, the shortcut gives an answer that the generic path may give, as   *)
(* long as no page is asked for.                                            *)
ShortcutAgrees ==
    query # NoQuery /\ PushesOrder(query) /\ query.cols = {"*"} /\ IsUnpaged(query)
        /\ (HasIndex(db, query.table, query.order) => Current(db, query.table))
        /\ (\A n \in DOMAIN Table(db, query.table) :
                query.order \in DOMAIN Table(db, query.table)[n])
    => answer \in Generic(db, query)
=============================================================================
