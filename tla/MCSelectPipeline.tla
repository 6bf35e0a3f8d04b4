-------------------------- MODULE MCSelectPipeline --------------------------
(* Instances of SelectPipeline for TLC: the tables orders and users of the  *)
(* README, with an id in both.                                              *)
EXTENDS SelectPipeline, TLC

Order(user, stock) == ("user" :> user) @@ ("stock" :> stock)
User(email, city)  == ("email" :> email) @@ ("city" :> city)

\* "5" < "50" < "6", and a row without the column that joins and groups
OrderRows == { Order(1, 5), Order(2, 50), ("stock" :> 6) }
UserRows  == { User(1, 5), User(2, 6), ("city" :> 5) }

WithIds(rows, first) == [n \in DOMAIN rows |-> rows[n] @@ ("id" :> first + n)]

Tables(o, u) == ("orders" :> WithIds(o, 0)) @@ ("users" :> WithIds(u, 10))

\* one index for the JOIN and two for ORDER BY, built for other tables
Indices(tables, built, kept) ==
    [tables |-> tables, built |-> built, kept |-> kept,
     declared |-> {<<"users", "email">>, <<"orders", "stock">>, <<"orders", "user">>}]

Same(table) == [n \in DOMAIN table |-> n]
Places(tables) == [t \in DOMAIN tables |-> Same(tables[t])]

\* since the start, a row of either table was added or deleted, or a row on
\* the right was changed
Histories(tables) ==
    LET Added(t)   == LET fewer == [tables EXCEPT ![t] = Front(@)]
                      IN  Indices(tables, fewer, Places(fewer))
        Deleted(t, row) ==
            Indices(tables, [tables EXCEPT ![t] = Append(@, row)],
                    [Places(tables) EXCEPT ![t] = Append(@, 0)])
        Changed(other)  == Indices(tables, other, Places(other))
    IN  {Unindexed(tables), Indices(tables, tables, Places(tables)),
         Deleted("users", User(1, 6)), Deleted("orders", Order(1, 6))}
        \cup {Added(t) : t \in {u \in DOMAIN tables : tables[u] # <<>>}}
        \cup {Changed([tables EXCEPT !["users"][1] = User(2, 6)]) :
                 n \in {1} \cap DOMAIN tables["users"]}

MCDatabases ==
    UNION {Histories(Tables(o, u)) : o \in BoundedSeq(OrderRows, 3), u \in BoundedSeq(UserRows, 2)}

Select == [table |-> "orders", joins |-> <<>>, conds |-> {}, cols |-> {"*"},
           sums |-> {}, count |-> FALSE, group |-> NoName, order |-> NoName,
           desc |-> FALSE, skip |-> 0, limit |-> -1]

Join(type) == [type |-> type, leftField |-> "user",
               rightTable |-> "users", rightField |-> "email"]

Cond(table, key, op, value) ==
    [table |-> table, key |-> key, op |-> op, value |-> value]

SmallStock == {Cond(NoName, "stock", "<", 6)}
BothSides  == {Cond(NoName, "stock", "!=", 5), Cond("users", "city", "=", 5)}

MCQueries == {
    [Select EXCEPT !.conds = SmallStock, !.skip = 1, !.limit = 1],
    [Select EXCEPT !.joins = <<Join("INNER")>>, !.conds = BothSides],
    [Select EXCEPT !.joins = <<Join("LEFT")>>, !.conds = BothSides],
    [Select EXCEPT !.joins = <<Join("LEFT")>>],
    [Select EXCEPT !.group = "user", !.order = "COUNT", !.desc = TRUE],
    [Select EXCEPT !.joins = <<Join("LEFT")>>, !.group = "user", !.sums = {"stock", "city"}],
    [Select EXCEPT !.order = "stock"],
    [Select EXCEPT !.order = "user", !.desc = TRUE],
    [Select EXCEPT !.cols = {"id"}, !.order = "stock", !.conds = SmallStock],
    [Select EXCEPT !.cols = {"COUNT(*)"}, !.count = TRUE, !.limit = 0] }
=============================================================================
