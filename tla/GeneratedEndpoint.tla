------------------------- MODULE GeneratedEndpoint -------------------------
(***************************************************************************)
(* SQL from a template to the rows: a handler, one of business.js or one   *)
(* that RequirementsWatcher generates, puts its parameters into a text,    *)
(* SqlParser reads it, and the query runs on the tables.  SELECTs go       *)
(* through the pipeline of SelectPipeline.                                 *)
(***************************************************************************)
EXTENDS SqlParser

CONSTANTS
    Tables,     \* the tables before the first call: functions from names to tables
    Endpoints,  \* records [name, text, raw, means]
    Parameters, \* the tokens ${...}: a function to the arguments they may get
    Numbers,    \* the arguments JavaScript takes for numbers: a function to String(Number(v))
    MaxCalls    \* bound on calls

(* The text of an endpoint has parameters among its tokens.  raw: as in     *)
(* business.js, nothing is put around an argument.  means: what the text    *)
(* says to its reader, with parameters as values: a Query whose conditions  *)
(* are those of the whole WHERE.                                            *)
ASSUME EndpointAssumption ==
    /\ \A e \in Endpoints : \A c \in e.means.conds :
          <<c.value>> \in DOMAIN Values \/ c.value \in DOMAIN Parameters
    /\ Range(Numbers) \subseteq DOMAIN Numbers \cap DOMAIN Digits

VARIABLES
    db,      \* the tables
    before,  \* the tables when the last call began
    call,    \* the last call: the endpoint and its arguments
    answer,  \* its rows
    calls    \* number of calls

vars == <<db, before, call, answer, calls>>

Engine == INSTANCE SelectPipeline
              WITH Databases <- {}, Queries <- {}, query <- call

NoCall == [endpoint |-> [name |-> Missing], arguments |-> <<>>]

ArgumentsOf(e) ==
    LET own == Range(e.text) \cap DOMAIN Parameters
    IN  {a \in [own -> UNION Range(Parameters)] : \A p \in own : a[p] \in Parameters[p]}
-----------------------------------------------------------------------------
(* Mutant: numbers get quotes as well *)
SubstitutedMutant(e, argument) ==
    IF argument = Missing THEN (IF e.raw THEN <<>> ELSE <<Quote, Quote>>)
    ELSE IF e.raw THEN <<argument>> ELSE <<Quote, argument, Quote>>

(* What the handler puts in the place of a parameter *)
Substituted(e, argument) ==
    IF e.raw THEN (IF argument = Missing THEN <<>> ELSE <<argument>>)
    ELSE IF argument \in DOMAIN Numbers THEN <<Numbers[argument]>>
    ELSE IF argument = Missing THEN <<Quote, Quote>>
    ELSE <<Quote, argument, Quote>>

TextOf(e, arguments) ==
    FlattenSeq([n \in DOMAIN e.text |->
        IF e.text[n] \in DOMAIN Parameters THEN Substituted(e, arguments[e.text[n]])
        ELSE <<e.text[n]>>])

Init ==
    /\ db \in Tables
    /\ before = db
    /\ call = NoCall
    /\ answer = <<>>
    /\ calls = 0

Called(e, arguments) ==
    /\ calls' = calls + 1
    /\ call' = [endpoint |-> e, arguments |-> arguments]
    /\ before' = db

(* db.query of a SELECT *)
Query(e, arguments) ==
    LET text == TextOf(e, arguments)
    IN  /\ text[1] = "SELECT"
        /\ Called(e, arguments)
        /\ answer' \in Engine!Generic(Engine!Unindexed(db), ParseSelect(text))
        /\ UNCHANGED db

(* The rows a statement that writes finds *)
Hit(table, conds) == {n \in DOMAIN table : Engine!Matches(table[n], conds)}

Inserted(table, row) ==
    LET rest == SelectSeq(table, LAMBDA r : r["id"] # row["id"])
    IN  SortSeq(Append(rest, row), LAMBDA r, t : Engine!Lexical(r["id"]) < Engine!Lexical(t["id"]))

Updated(table, hit, row) ==
    [n \in DOMAIN table |-> IF n \in hit THEN Engine!Extend(row, table[n]) ELSE table[n]]

Deleted(table, hit) ==
    LET kept == SetToSortSeq(DOMAIN table \ hit, <)
    IN  [n \in DOMAIN kept |-> table[kept[n]]]

(* db.execute of an INSERT, UPDATE or DELETE *)
Execute(e, arguments) ==
    LET text == TextOf(e, arguments)
        t    == IF text[1] = "UPDATE" THEN text[2] ELSE text[3]
        hit  == Hit(db[t], Where(text))
    IN  /\ text[1] # "SELECT"
        /\ Supported(text)
        /\ Called(e, arguments)
        /\ answer' = <<>>
        /\ db' = [db EXCEPT ![t] = CASE text[1] = "INSERT" -> Inserted(@, RowOf(text))
                                     [] text[1] = "UPDATE" -> Updated(@, hit, RowOf(text))
                                     [] text[1] = "DELETE" -> Deleted(@, hit)]

(* The parser throws, and nothing is executed *)
Unsupported(e, arguments) ==
    LET text == TextOf(e, arguments)
    IN  /\ text[1] # "SELECT"
        /\ ~Supported(text)
        /\ Called(e, arguments)
        /\ answer' = <<>>
        /\ UNCHANGED db

Next ==
    /\ calls < MaxCalls
    /\ \E e \in Endpoints : \E a \in ArgumentsOf(e) :
           Query(e, a) \/ Execute(e, a) \/ Unsupported(e, a)

Spec == Init /\ [][Next]_vars
-----------------------------------------------------------------------------
(* Properties *)

Endpoint == call.endpoint
Name     == Endpoint.name

(* The arguments are of the kind the text was written for: a word where the *)
(* text has no quotes, a number in its usual form between quotes and after  *)
(* SKIP and LIMIT.                                                          *)
Fits ==
    \A n \in DOMAIN Endpoint.text : Endpoint.text[n] \in DOMAIN Parameters =>
        LET argument == call.arguments[Endpoint.text[n]]
            usual    == argument \in Range(Numbers)
            previous == Endpoint.text[n - 1]
        IN  /\ argument # Missing
            /\ CASE previous \in {"SKIP", "LIMIT"} -> usual
                 [] Endpoint.raw                   -> TRUE
                 [] previous \in {Quote, DQuote}   -> usual
                 [] OTHER                          -> argument \notin DOMAIN Numbers

Meaning ==
    LET Bound(token) == IF token \in DOMAIN Parameters THEN call.arguments[token] ELSE token
    IN  [Endpoint.means EXCEPT
            !.conds = {[c EXCEPT !.value = Values[<<Bound(c.value)>>]] : c \in @},
            !.skip  = IF @ = Missing THEN 0 ELSE Digits[Bound(@)],
            !.limit = IF @ = Missing THEN -1 ELSE Digits[Bound(@)]]

Writes == call # NoCall /\ Endpoint.text[1] \in {"UPDATE", "DELETE"} /\ Supported(TextOf(Endpoint, call.arguments))

(* No argument is a number with leading zeros, which it would lose *)
Usual == \A p \in DOMAIN call.arguments :
             call.arguments[p] \in DOMAIN Numbers => call.arguments[p] \in Range(Numbers)

RowsIn(d, t) == Range(d[t])

(* A SELECT whose arguments are of the kind its text was written for is     *)
(* answered as its text reads: aliases, qualifiers, quotes, numbers for     *)
(* SKIP and LIMIT all find their place in the Query, whatever comes between *)
AnswerMeansItsText ==
    call # NoCall /\ Endpoint.text[1] = "SELECT" /\ Fits => answer \in Engine!Generic(Engine!Unindexed(db), Meaning)

(* An UPDATE or DELETE, with words, numbers or nothing for its arguments,   *)
(* never leaves out a row that meets its whole WHERE: what the parser drops *)
(* only widens the statement (cond_re is searched for in the clause, and    *)
(* may find nothing).                                                       *)
WriteCoversScope ==
    Writes /\ Usual => \A row \in RowsIn(before, Meaning.table) :
        Engine!Matches(row, Meaning.conds) =>
            \/ Endpoint.text[1] = "DELETE" /\ row \notin RowsIn(db, Meaning.table)
            \/ Endpoint.text[1] = "UPDATE" /\
               LET set == RowOf(TextOf(Endpoint, call.arguments))
               IN  \E new \in RowsIn(db, Meaning.table) :
                       new["id"] = row["id"] /\ \A c \in DOMAIN set : new[c] = set[c]

(* An UPDATE or DELETE with one condition, and arguments of the kind its    *)
(* text was written for, changes no other row.                              *)
WriteKeepsOthers ==
    Writes /\ Fits /\ Cardinality(Meaning.conds) = 1 =>
        \A row \in RowsIn(before, Meaning.table) :
            ~Engine!Matches(row, Meaning.conds) => row \in RowsIn(db, Meaning.table)
=============================================================================
