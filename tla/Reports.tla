------------------------------ MODULE Reports -------------------------------
(***************************************************************************)
(* The reports of scripts/business.js on the rows of Accounting: trial     *)
(* balance, overall trial balance, balance sheet, profit and loss, account *)
(* ledger.  They only read, when no other handler runs.                    *)
(***************************************************************************)
EXTENDS Accounting

CONSTANT Namings  \* what a project's accounts may say of the type of each code

(* The types that reports know; addAccount takes any other as well *)
Types == {"Asset", "Liability", "Equity", "Revenue", "Expense"}

ASSUME NamingAssumption == \A naming \in Namings : DOMAIN naming = Codes

AnyDate == {0}  \* neither from nor to is given (there is no entry 0)

(* nameByCode: the type of a code that the project has an account for.  If   *)
(* addAccount gave it several, the last one read counts, in every report.   *)
TypeNamed(p, naming, code) == IF accounts[p][code] > 0 THEN naming[code] ELSE "Unknown"

(* journal_lines LEFT JOIN journal_entries, with from and to, or without;   *)
(* dates are the entries in that time                                       *)
LinesWithDates(p, dates) ==
    {l \in lines : l.project = p /\ (dates = AnyDate \/ l.entry \in DOMAIN entries \cap dates)}

(* journal_lines JOIN journal_entries *)
LinesWithHeaders(p, dates) ==
    {l \in LinesWithDates(p, dates) : l.entry \in DOMAIN entries}

(* SUM(debit), SUM(credit) ... GROUP BY account_code *)
ByCode(ls) ==
    [code \in {l.code : l \in ls} |->
        LET group == {l \in ls : l.code = code}
        IN  [debit  |-> SumFunction([l \in group |-> l.debit]),
             credit |-> SumFunction([l \in group |-> l.credit])]]

Balance(row) == ToFixed2(row.debit - row.credit)

TotalOf(rows, codes) == SumFunction([code \in codes |-> Balance(rows[code])])

OfType(p, naming, rows, type) == {code \in DOMAIN rows : TypeNamed(p, naming, code) = type}
-----------------------------------------------------------------------------
TrialBalance(p) == ByCode(LinesWithDates(p, AnyDate))

(* Summed up in JavaScript, over all lines there are *)
OverallTrialBalance ==
    FoldSet(LAMBDA l, acc :
                LET key  == <<l.project, l.code>>
                    old  == IF key \in DOMAIN acc THEN acc[key] ELSE [debit |-> 0, credit |-> 0]
                    new  == [debit |-> old.debit + l.debit, credit |-> old.credit + l.credit]
                IN  [k \in DOMAIN acc \cup {key} |-> IF k = key THEN new ELSE acc[k]],
            <<>>, lines)

(* Mutant: expenses do not reduce the earnings *)
EarningsMutant(p, naming, rows) == TotalOf(rows, OfType(p, naming, rows, "Revenue"))

(* "Earnings before closing" *)
Earnings(p, naming, rows) ==
    TotalOf(rows, OfType(p, naming, rows, "Revenue") \cup OfType(p, naming, rows, "Expense"))

(* The totals of the balance sheet; the sign of all is debit less credit *)
BalanceSheet(p, naming, dates) ==
    LET rows == ByCode(LinesWithHeaders(p, dates))
    IN  [assets      |-> TotalOf(rows, OfType(p, naming, rows, "Asset")),
         liabilities |-> TotalOf(rows, OfType(p, naming, rows, "Liability")),
         earnings    |-> Earnings(p, naming, rows),
         equity      |-> TotalOf(rows, OfType(p, naming, rows, "Equity")) + Earnings(p, naming, rows)]

ProfitAndLoss(p, naming, dates) ==
    LET rows    == ByCode(LinesWithDates(p, dates))
        revenue == ToFixed2(SumFunction([code \in OfType(p, naming, rows, "Revenue") |->
                                            rows[code].credit - rows[code].debit]))
        expense == ToFixed2(SumFunction([code \in OfType(p, naming, rows, "Expense") |->
                                            rows[code].debit - rows[code].credit]))
    IN  [revenue |-> revenue, expense |-> expense, net |-> ToFixed2(revenue - expense)]

(* Mutant: the running balance is rounded at each line *)
RunningMutant(s) ==
    FoldLeft(LAMBDA running, l : Append(running,
                ToFixed2((IF running = <<>> THEN 0 ELSE Last(running)) + l.debit - l.credit)), <<>>, s)

(* The balance after each line of an account ledger *)
Running(s) == [n \in DOMAIN s |-> ToFixed2(SumFunction([k \in 1..n |-> s[k].debit - s[k].credit]))]

(* ORDER BY entry_id, line_no: the parser reads the first column alone *)
AccountLedgers(p, code) ==
    {Running(s) : s \in {s \in SetToSeqs({l \in lines : l.project = p /\ l.code = code}) :
                             \A m, n \in DOMAIN s : m < n => s[m].entry <= s[n].entry}}
-----------------------------------------------------------------------------
(* Properties *)

(* The entries stored whole, in whole cents, in all their lines *)
Rounded == {e \in DOMAIN entries : Cardinality(LinesOf(e)) = Len(posted[e])
                                       /\ UnroundedDebits(e) \cup UnroundedCredits(e) = {}}

Dates == (SUBSET Rounded) \cup {d \in {AnyDate} : DOMAIN entries = Rounded}

(* The accounts that a balance sheet leaves out *)
Unfiled(p, naming, rows) == {code \in DOMAIN rows : TypeNamed(p, naming, code) \notin Types}

(* Whatever crashes came between, whatever dates a report is asked for and  *)
(* whatever types addAccount took: the balance sheet of entries that are    *)
(* stored whole, in whole cents, is out of balance by the accounts of a     *)
(* type it does not know and by nothing else, so that it balances if it     *)
(* knows them all; and its earnings are the net income of profit and loss,  *)
(* which joins the headers in another way.                                  *)
BooksBalance ==
    pc = "idle" => \A p \in Projects : \A dates \in Dates : \A naming \in Namings :
        LET sheet == BalanceSheet(p, naming, dates)
            rows  == ByCode(LinesWithHeaders(p, dates))
        IN  /\ sheet.assets + sheet.liabilities + sheet.equity
                   = -TotalOf(rows, Unfiled(p, naming, rows))
            /\ sheet.earnings = -ProfitAndLoss(p, naming, dates).net

(* The reports that add up the same lines in different ways, in SQL, over   *)
(* all projects in JavaScript, line by line, come to the same balances,     *)
(* with interrupted entries and fractions of a cent among the lines.        *)
ReportsAgree ==
    pc = "idle" => \A p \in Projects :
        LET rows == TrialBalance(p)
        IN  /\ {code \in Codes : <<p, code>> \in DOMAIN OverallTrialBalance} = DOMAIN rows
            /\ \A code \in DOMAIN rows :
                  /\ OverallTrialBalance[<<p, code>>] = rows[code]
                  /\ \A ledger \in AccountLedgers(p, code) : Last(ledger) = Balance(rows[code])
=============================================================================
