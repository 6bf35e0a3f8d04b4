------------------------- MODULE MCGeneratedEndpoint -------------------------
(* Instances of GeneratedEndpoint for TLC: SELECTs of business.js and of    *)
(* requirements/agent.md, its INSERT, and UPDATE and DELETE endpoints as    *)
(* requirements/README.md describes them.                                   *)
EXTENDS GeneratedEndpoint, TLC

MCWords == {"SELECT", "FROM", "WHERE", "AND", "ORDER", "BY", "GROUP", "SKIP", "LIMIT", "ASC", "DESC",
            "JOIN", "ON", "SUM", "AS", "UPDATE", "SET", "DELETE", "INSERT", "INTO", "VALUES", "l", "e",
            "accounts", "journal_entries", "journal_lines", "id", "project_id", "code", "name",
            "date", "account_code", "debit", "entry_id", "is_active", "acme", "7", "07", "1", "2", "0"}
MCDotted == [d \in {"l.account_code", "l.debit", "l.entry_id", "e.id", "l.project_id", "e.date"} |->
    CASE d = "l.account_code" -> <<"l", "account_code">>
      [] d = "l.debit"        -> <<"l", "debit">>
      [] d = "l.entry_id"     -> <<"l", "entry_id">>
      [] d = "l.project_id"   -> <<"l", "project_id">>
      [] d = "e.id"           -> <<"e", "id">>
      [] d = "e.date"         -> <<"e", "date">>]
MCNumbers == ("7" :> "7") @@ ("07" :> "7") @@ ("0" :> "0") @@ ("1" :> "1") @@ ("2" :> "2")
MCDigits  == ("7" :> 7) @@ ("07" :> 7) @@ ("0" :> 0) @@ ("1" :> 1) @@ ("2" :> 2)
MCValues  == (<<>> :> -1) @@ (<<"">> :> -1) @@ (<<"0">> :> 0) @@ (<<"1">> :> 1) @@ (<<"2">> :> 2) @@ (<<"7">> :> 7)
             @@ (<<"acme">> :> 100) @@ (<<"true">> :> 101) @@ (<<"'", "acme", "'">> :> 102)
             @@ (<<"'", "'">> :> 103) @@ (<<"07">> :> 104)
             @@ [q \in {<<"'", n, "'">> : n \in {"1", "2", "7", "07"}} |-> 104 + MCDigits[q[2]]]
MCParameters == ("${project_id}" :> {"7", "07", "acme", ""}) @@ ("${code}" :> {"1", "2"})
                @@ ("${name}" :> {"acme", "1", ""}) @@ ("${skip}" :> {"0", "1", ""}) @@ ("${limit}" :> {"1", "acme"})
                @@ ("${from}" :> {"1", "2"}) @@ ("${to}" :> {"2"})

Account(id, project, code) == [id |-> id, project_id |-> project, code |-> code]
Entry(id, project, date)   == [id |-> id, project_id |-> project, date |-> date]
Line(id, entry, project, account, debit) ==
    [id |-> id, entry_id |-> entry, project_id |-> project, account_code |-> account, debit |-> debit]

MCTables == {
    [accounts        |-> <<Account(1, 7, 1), Account(2, 100, 2), Account(5, 7, 2)>>,
     journal_entries |-> <<Entry(1, 7, 1), Entry(2, 7, 2), Entry(5, 100, 1)>>,
     journal_lines   |-> <<Line(1, 1, 7, 1, 5), Line(2, 2, 7, 1, 2), Line(5, 2, 7, 2, 1), Line(7, 5, 100, 1, 2)>>],
    [accounts        |-> <<Account(7, 100, 1)>>,
     journal_entries |-> <<Entry(1, 100, 2), Entry(2, 7, 1)>>,
     journal_lines   |-> <<Line(1, 1, 100, 1, 5), Line(2, 2, 7, 1, 2), Line(5, 2, 7, 2, 1)>>] }

Q(value) == <<"'", value, "'">>
All(table) == [table |-> table, joins |-> <<>>, conds |-> {}, cols |-> {"*"}, sums |-> {}, count |-> FALSE,
               group |-> "", order |-> "", desc |-> FALSE, skip |-> "", limit |-> ""]
Cond(table, key, op, value) == [table |-> table, key |-> key, op |-> op, value |-> value]
Is(key, value) == Cond("", key, "=", value)
InProject == Is("project_id", "${project_id}")

Accounts(name, raw) ==
    [name |-> name, raw |-> raw,
     text |-> <<"SELECT", "*", "FROM", "accounts", "WHERE", "project_id", "=">> \o Q("${project_id}")
                  \o <<"ORDER", "BY", "code", "ASC">>,
     means |-> [All("accounts") EXCEPT !.conds = {InProject}, !.order = "code"]]

Journals ==
    [name |-> "acct_journals_by_project", raw |-> FALSE,
     text |-> <<"SELECT", "*", "FROM", "journal_entries", "WHERE", "project_id", "=">> \o Q("${project_id}")
                  \o <<"ORDER", "BY", "date", "DESC", "SKIP", "${skip}", "LIMIT", "${limit}">>,
     means |-> [All("journal_entries") EXCEPT !.conds = {InProject}, !.order = "date", !.desc = TRUE,
                                              !.skip = "${skip}", !.limit = "${limit}"]]

ProfitAndLoss ==
    [name |-> "profitAndLoss", raw |-> TRUE,
     text |-> <<"SELECT", "l.account_code", ",", "SUM", "l.debit", "AS", "debit", "FROM", "journal_lines", "l",
                "JOIN", "journal_entries", "e", "ON", "l.entry_id", "=", "e.id", "WHERE", "l.project_id", "=">>
                  \o Q("${project_id}") \o <<"AND", "e.date", ">=">> \o Q("${from}")
                  \o <<"AND", "e.date", "<=">> \o Q("${to}") \o <<"GROUP", "BY", "l.account_code">>,
     means |-> [All("journal_lines") EXCEPT
                   !.joins = <<[type |-> "INNER", leftField |-> "entry_id",
                                rightTable |-> "journal_entries", rightField |-> "id"]>>,
                   !.conds = {InProject, Cond("journal_entries", "date", ">=", "${from}"),
                              Cond("journal_entries", "date", "<=", "${to}")},
                   !.cols = {"account_code"}, !.sums = {"debit"}, !.group = "account_code"]]

Member(name, value) == <<"\"", name, "\"", ":">> \o value
DQ(value) == <<"\"", value, "\"">>

AddAccount ==
    [name |-> "acct_add_account", raw |-> FALSE,
     text |-> <<"INSERT", "INTO", "accounts", "VALUES", "{">>
                  \o Member("id", DQ("${code}")) \o <<",">> \o Member("project_id", DQ("${project_id}")) \o <<",">>
                  \o Member("code", DQ("${code}")) \o <<",">> \o Member("is_active", <<"true">>) \o <<"}">>,
     means |-> All("accounts")]

Write(name, text, conds) ==
    [name |-> name, raw |-> FALSE, text |-> text, means |-> [All("accounts") EXCEPT !.conds = conds]]

MCEndpoints == {
    Accounts("listAccounts", TRUE), Accounts("acct_accounts_by_project", FALSE), Journals, ProfitAndLoss, AddAccount,
    Write("rename", <<"UPDATE", "accounts", "SET", "name", "=">> \o Q("${name}")
                       \o <<"WHERE", "code", "=">> \o Q("${code}"), {Is("code", "${code}")}),
    Write("renameIn", <<"UPDATE", "accounts", "SET", "{">> \o Member("name", DQ("${name}")) \o <<"}">>
                       \o <<"WHERE", "project_id", "=", "${project_id}", "AND", "code", "=">> \o Q("2"),
          {InProject, Is("code", "2")}),
    Write("number", <<"UPDATE", "accounts", "SET", "{">> \o Member("name", <<"${name}">>) \o <<"}">>, {}),
    Write("close", <<"DELETE", "FROM", "accounts", "WHERE", "code", "=">> \o Q("${code}"), {Is("code", "${code}")}),
    Write("drop", <<"DELETE", "FROM", "accounts", "WHERE", "project_id", "=", "${project_id}">>, {InProject}) }
=============================================================================
