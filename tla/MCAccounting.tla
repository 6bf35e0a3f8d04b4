---------------------------- MODULE MCAccounting ----------------------------
(* Instances of Accounting and Reports for TLC *)
EXTENDS Reports, TLC

MCDefaults == <<"1000", "4000">>

Naming(cash, sales, extra) == ("1000" :> cash) @@ ("4000" :> sales) @@ ("9000" :> extra)

\* one that all reports know, one with a type that addAccount alone accepts
MCNamings == {Naming("Asset", "Revenue", "Expense"), Naming("Equity", "Income", "Liability")}

Line(code, debit, credit) == [code |-> code, debit |-> debit, credit |-> credit]

\* balanced, unbalanced, to an account only addAccount provides, balanced
\* once each amount is rounded to the cent (one line has two that are), and empty
MCPostings ==
    { << Line("1000", 500, 0), Line("4000", 0, 500) >>,
      << Line("1000", 500, 0), Line("4000", 0, 300) >>,
      << Line("9000", 500, 0), Line("1000", 0, 300), Line("4000", 0, 200) >>,
      << Line("1000", 1004, 0), Line("1000", 4, 0), Line("4000", 4, 996) >>,
      << >> }
=============================================================================
