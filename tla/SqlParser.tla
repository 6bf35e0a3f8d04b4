----------------------------- MODULE SqlParser -----------------------------
(***************************************************************************)
(* SqlParser::parse: from the text of a statement to the Query that is     *)
(* executed.                                                               *)
(*                                                                         *)
(* A text is a sequence of tokens: words, punctuation, quotes; the regular *)
(* expressions allow any space between them.  As they search for clauses   *)
(* anywhere in the text, so do the definitions here.                       *)
(***************************************************************************)
EXTENDS Integers, Sequences, FiniteSets, SequencesExt, FiniteSetsExt

CONSTANTS
    Words,   \* the tokens that are \w+
    Dotted,  \* the tokens \w+.\w+: a function to their two parts
    Digits,  \* the tokens \d+: a function to numbers
    Values   \* what is between quotes: a function from token sequences to values

(* Mutant: cond_re does not know <= and >= *)
OperatorsMutant == {"=", "!=", "<", ">"}

Operators == {"=", "!=", "<", ">", "<=", ">="}

Quote   == "'"
DQuote  == "\""
Missing == ""
-----------------------------------------------------------------------------
(* Where s has the tokens of a pattern, a sequence of sets *)
Occurrences(s, pattern) ==
    {i \in 1..(Len(s) - Len(pattern) + 1) :
        \A k \in DOMAIN pattern : s[i + k - 1] \in pattern[k]}

Columns == Words \cup DOMAIN Dotted

(* A column without its qualifier, as the executor takes it apart *)
Bare(column) == IF column \in DOMAIN Dotted THEN Dotted[column][2] ELSE column

(* The first token after the first match of a clause's keywords *)
Clause(s, keywords, tokens, none) ==
    LET n     == Len(keywords)
        found == Occurrences(s, [k \in 1..n |-> {keywords[k]}] \o <<tokens>>)
    IN  IF found = {} THEN none ELSE s[Min(found) + n]

(* sregex_iterator over cond_re: column, operator, and between quotes what  *)
(* is not empty and has no quote.  Everything else is passed over.          *)
Conditions(s) ==
    LET Starting   == Occurrences(s, <<Columns, Operators, {Quote}>>)
        Closing(i) == {j \in (i + 4)..Len(s) : s[j] = Quote /\ Quote \notin Range(SubSeq(s, i + 3, j - 1))}
        From[i \in 1..(Len(s) + 1)] ==
            IF i > Len(s) THEN <<>>
            ELSE IF i \notin Starting \/ Closing(i) = {} THEN From[i + 1]
            ELSE LET j == Min(Closing(i))
                 IN  <<[key |-> s[i], op |-> s[i + 1], value |-> Values[SubSeq(s, i + 3, j - 1)]]>>
                         \o From[j + 1]
    IN  From[1]
-----------------------------------------------------------------------------
(* SELECT *)

(* [LEFT] JOIN table [alias] ON a.b = c.d *)
JoinsOf(s) ==
    LET On == <<{"ON"}, DOMAIN Dotted, {"="}, DOMAIN Dotted>>
        plain   == Occurrences(s, <<{"JOIN"}, Words>> \o On)
        aliased == Occurrences(s, <<{"JOIN"}, Words, Words>> \o On)
        at      == SetToSortSeq(plain \cup aliased, <)
    IN  [n \in DOMAIN at |->
            LET i  == at[n]
                on == IF i \in plain THEN i + 2 ELSE i + 3
            IN  [type  |-> IF s[i - 1] = "LEFT" THEN "LEFT" ELSE "INNER",
                 table |-> s[i + 1],
                 alias |-> IF i \in plain THEN s[i + 1] ELSE s[i + 2],
                 left  |-> Dotted[s[on + 1]],
                 right |-> Dotted[s[on + 3]]]]

Bind(f, x, v) == [k \in DOMAIN f \cup {x} |-> IF k = x THEN v ELSE f[k]]
Resolve(aliases, qualifier) ==
    IF qualifier \in DOMAIN aliases THEN aliases[qualifier] ELSE qualifier

(* The alias map after the first n joins.  Whatever word follows the table  *)
(* counts as its alias, a keyword too.                                      *)
Aliases(s, from, n) ==
    LET table == s[from + 1]
        alias == IF from + 2 <= Len(s) /\ s[from + 2] \in Words THEN s[from + 2] ELSE table
    IN  FoldLeft(LAMBDA f, j : IF j.alias = j.table THEN f ELSE Bind(f, j.alias, j.table),
                 [x \in {table, alias} |-> table], SubSeq(JoinsOf(s), 1, n))

(* Conditions on the first table lose their qualifier, others get a table's *)
Qualified(c, table, aliases) ==
    LET owner == IF c.key \in DOMAIN Dotted THEN Resolve(aliases, Dotted[c.key][1]) ELSE table
    IN  [table |-> IF owner = table THEN Missing ELSE owner,
         key |-> Bare(c.key), op |-> c.op, value |-> c.value]

(* The name of a sum's alias is that of its column here *)
ParseSelect(s) ==
    LET from  == Min(Occurrences(s, <<{"FROM"}, Words>>))
        table == s[from + 1]
        joins == JoinsOf(s)
        cols  == {s[k] : k \in {k \in 2..(from - 1) : s[k - 1] \in {"SELECT", ","} /\ s[k] # "SUM"}}
        sums  == {Bare(s[k]) : k \in {k \in 2..(from - 1) : s[k - 1] = "SUM"}}
        conds == Conditions(s)
        Column(keywords) == Bare(Clause(s, keywords, Columns, Missing))
        Count(keyword, none) ==
            LET n == Clause(s, <<keyword>>, DOMAIN Digits, Missing)
            IN  IF n = Missing THEN none ELSE Digits[n]
    IN  [table |-> table, cols |-> cols, sums |-> sums,
         count |-> cols = {"COUNT(*)"} /\ sums = {},
         joins |-> [n \in DOMAIN joins |->
                       LET known == Aliases(s, from, n)
                       IN  [type       |-> joins[n].type,
                            leftField  |-> joins[n].left[2],
                            rightTable |-> Resolve(known, joins[n].right[1]),
                            rightField |-> joins[n].right[2]]],
         conds |-> {Qualified(conds[n], table, Aliases(s, from, Len(joins))) : n \in DOMAIN conds},
         group |-> Column(<<"GROUP", "BY">>),
         order |-> Column(<<"ORDER", "BY">>),
         desc  |-> Occurrences(s, <<{"ORDER"}, {"BY"}, Columns, {"DESC"}>>) # {},
         skip  |-> Count("SKIP", 0),
         limit |-> Count("LIMIT", -1)]
-----------------------------------------------------------------------------
(* INSERT INTO table VALUES {...}, UPDATE table SET {...} [WHERE ...],      *)
(* UPDATE table SET column = '...' [WHERE ...], DELETE FROM table [WHERE]   *)

SetsColumn(s) == s[1] = "UPDATE" /\ s[4] # "{"

(* The members of the object in a text: where each has its name *)
Members(s) == Occurrences(s, <<{DQuote}, Words, {DQuote}, {":"}>>)

(* The text matches a pattern, and json::parse takes its object *)
Supported(s) ==
    /\ SetsColumn(s) => s[7] # Quote /\ s[8] = Quote
    /\ \A i \in Members(s) : s[i + 4] \in {DQuote, "true"} \cup DOMAIN Digits

RowOf(s) ==
    LET At(c)    == (CHOOSE i \in Members(s) : s[i + 1] = c) + 4
        Close(i) == Min({j \in (i + 1)..Len(s) : s[j] = DQuote})
    IN  IF SetsColumn(s) THEN [c \in {s[4]} |-> Values[<<s[7]>>]]
        ELSE [c \in {s[i + 1] : i \in Members(s)} |->
                 IF s[At(c)] = DQuote THEN Values[SubSeq(s, At(c) + 1, Close(At(c)) - 1)]
                 ELSE Values[<<s[At(c)]>>]]

(* Mutant: a WHERE without a condition that can be read matches nothing     *)
(* (no id is empty)                                                         *)
WhereMutant(s) ==
    LET clause == SelectInSeq(s, LAMBDA t : t = "WHERE")
        conds  == Conditions(SubSeq(s, clause + 1, Len(s)))
    IN  IF clause = 0 THEN {}
        ELSE {IF conds # <<>> THEN conds[1] ELSE [key |-> "id", op |-> "=", value |-> Values[<<>>]]}

(* The WHERE of UPDATE and DELETE: its first condition, or none *)
Where(s) ==
    LET clause == SelectInSeq(s, LAMBDA t : t = "WHERE")
        conds  == Conditions(SubSeq(s, clause + 1, Len(s)))
    IN  IF clause = 0 \/ conds = <<>> THEN {} ELSE {conds[1]}
=============================================================================
