----------------------------- MODULE Accounting -----------------------------
(***************************************************************************)
(* The accounting handlers of scripts/business.js: projects, the chart of  *)
(* accounts of a project with its default entries, and journal entries     *)
(* with their lines.                                                       *)
(*                                                                         *)
(* A handler runs under the V8 Locker from its first to its last statement.*)
(* Each INSERT it executes is one RocksDB write, hence a step, and the     *)
(* process may end before any of them: nothing groups the INSERTs of one   *)
(* request.  All primary keys come from uuid() and are never reused.       *)
(***************************************************************************)
EXTENDS Integers, Sequences, FiniteSets, SequencesExt, FiniteSetsExt

CONSTANTS
    Projects,      \* ids createProject draws
    Global,        \* the project id 'global' of the shared template
    DefaultCodes,  \* DEFAULT_ACCOUNTS, a sequence of account codes
    AddedCodes,    \* codes that addAccount is called with, defaults or others
    Postings,      \* the lines postJournal is called with: sequences of
                   \* records [code, debit, credit], in thousandths
    MaxEntries,    \* bound: journal entries
    MaxAdded,      \* bound: accounts that addAccount inserts
    MaxCrashes     \* bound: deaths of the process

Owners   == Projects \cup {Global}
Defaults == Range(DefaultCodes)
Codes    == Defaults \cup AddedCodes

ASSUME ChartAssumption ==
    /\ Global \notin Projects
    /\ DefaultCodes \in Seq(Defaults) /\ Len(DefaultCodes) > 0
    /\ \A k, l \in DOMAIN DefaultCodes : DefaultCodes[k] = DefaultCodes[l] => k = l

ASSUME PostingAssumption ==
    \A ls \in Postings :
        /\ ls \in Seq(Range(ls))
        /\ \A k \in DOMAIN ls : /\ ls[k].code \in Codes
                                /\ ls[k].debit \in Int /\ ls[k].credit \in Int

ASSUME BoundAssumption ==
    /\ MaxEntries \in Nat /\ MaxAdded \in Nat /\ MaxCrashes \in Nat

VARIABLES
    projects,  \* table projects
    accounts,  \* table accounts: how many rows a project has for a code
    entries,   \* table journal_entries: the project of each entry
    lines,     \* table journal_lines: records [entry, project, no, code, debit, credit]
    pc,        \* "idle", "seed" until the first INSERTs are done, then "write"
    request,   \* what the running handler was called with
    todo,      \* the rows it still inserts, in order
    added,     \* how many rows of a project's code addAccount inserted (history)
    handmade,  \* the projects whose first account addAccount inserted (history)
    posted,    \* the lines submitted for each entry number (history)
    acked,     \* the entries postJournal answered for (history)
    crashes    \* deaths of the process so far

tables == <<projects, accounts, entries, lines>>
charts == <<added, handmade>>
vars   == <<tables, pc, request, todo, charts, posted, acked, crashes>>
-----------------------------------------------------------------------------
(* sanitize.ensureBalancedLines, in thousandths: toFixed(2) goes to whole   *)
(* cents, and it is the rounded amounts that have to balance.  Where it puts *)
(* half a cent depends on the binary fraction: no amount in use is one.     *)

ToFixed2(x) == ((x + 5) \div 10) * 10

(* Mutant: the totals are not compared *)
BalancedLinesMutant(ls) ==
    /\ ls # <<>>
    /\ \A k \in DOMAIN ls :
          /\ ToFixed2(ls[k].debit) >= 0 /\ ToFixed2(ls[k].credit) >= 0
          /\ ~(ToFixed2(ls[k].debit) > 0 /\ ToFixed2(ls[k].credit) > 0)

BalancedLines(ls) ==
    /\ ls # <<>>
    /\ \A k \in DOMAIN ls :
          /\ ToFixed2(ls[k].debit) >= 0 /\ ToFixed2(ls[k].credit) >= 0
          /\ ~(ToFixed2(ls[k].debit) > 0 /\ ToFixed2(ls[k].credit) > 0)
    /\ SumFunction([k \in DOMAIN ls |-> ToFixed2(ls[k].debit)])
           = SumFunction([k \in DOMAIN ls |-> ToFixed2(ls[k].credit)])
-----------------------------------------------------------------------------
(* Rows to insert *)

ProjectRow(p)    == [table |-> "projects", project |-> p]
AccountRow(p, c) == [table |-> "accounts", project |-> p, code |-> c]
EntryRow(e, p)   == [table |-> "journal_entries", entry |-> e, project |-> p]
LineRow(e, p, k, l) == [table |-> "journal_lines",
                        line  |-> [entry |-> e, project |-> p, no |-> k, code |-> l.code,
                                   debit |-> l.debit, credit |-> l.credit]]

AccountRows(p, codes) == [k \in DOMAIN codes |-> AccountRow(p, codes[k])]

HasAccounts(p) == \E c \in Codes : accounts[p][c] > 0

GlobalRows == UNION {{c} \X (1..accounts[Global][c]) : c \in Codes}

(* The global rows in the order of their random keys *)
GlobalTemplates ==
    {s \in [1..Cardinality(GlobalRows) -> Codes] :
        \A c \in Codes : Cardinality({k \in DOMAIN s : s[k] = c}) = accounts[Global][c]}

(* Mutant: the rows a project has already are not looked at *)
SeedsMutant(p) ==
    IF HasAccounts(Global) THEN {AccountRows(p, s) : s \in GlobalTemplates}
    ELSE {AccountRows(p, DefaultCodes)}

(* ensureAccountsForProject: what it inserts, any of these *)
Seeds(p) ==
    IF HasAccounts(p) THEN {<<>>}
    ELSE IF HasAccounts(Global) THEN {AccountRows(p, s) : s \in GlobalTemplates}
    ELSE {AccountRows(p, DefaultCodes)}

(* Mutant: the id of the entry before *)
NextEntryMutant == Len(posted)

(* uuid() for an entry *)
NextEntry == Len(posted) + 1

(* Mutant: the header goes last *)
JournalRowsHeaderLastMutant(e, p, ls) ==
    [k \in DOMAIN ls |-> LineRow(e, p, k, ls[k])] \o <<EntryRow(e, p)>>

(* Mutant: the line number does not advance *)
JournalRowsMutant(e, p, ls) ==
    <<EntryRow(e, p)>> \o [k \in DOMAIN ls |-> LineRow(e, p, 1, ls[k])]

(* postJournal: the header, then the lines as they were submitted *)
JournalRows(e, p, ls) ==
    <<EntryRow(e, p)>> \o [k \in DOMAIN ls |-> LineRow(e, p, k, ls[k])]

(* assertAccountExists for every line *)
AccountsExist(p, ls) == \A k \in DOMAIN ls : accounts[p][ls[k].code] > 0
-----------------------------------------------------------------------------
Requests ==
    [op : {"createProject"}, project : Projects]
        \cup [op : {"seedAccountsGlobal"}]
        \cup [op : {"listAccounts"}, project : Owners]
        \cup [op : {"addAccount"}, project : Owners, code : AddedCodes]
        \cup [op : {"postJournal"}, project : Projects, lines : Postings]

NoRequest == [op |-> "none"]

Init ==
    /\ projects = {}
    /\ accounts = [p \in Owners |-> [c \in Codes |-> 0]]
    /\ entries = <<>> /\ lines = {}
    /\ pc = "idle" /\ request = NoRequest /\ todo = <<>>
    /\ added = accounts /\ handmade = {}
    /\ posted = <<>> /\ acked = {} /\ crashes = 0

(* The handler up to its first statements: the queries, and the rows that   *)
(* follow from them.                                                        *)
Begin(r) ==
    /\ pc = "idle"
    /\ request' = r
    /\ pc' = "seed"
    /\ \/ /\ r.op = "createProject"
          /\ r.project \notin projects
          /\ \E s \in Seeds(r.project) : todo' = <<ProjectRow(r.project)>> \o s
       \/ /\ r.op = "seedAccountsGlobal"
          /\ todo' = IF HasAccounts(Global) THEN <<>>
                     ELSE AccountRows(Global, DefaultCodes)
       \/ /\ r.op = "listAccounts"
          /\ todo' \in Seeds(r.project)
       \/ /\ r.op = "addAccount"
          /\ SumFunction([p \in Owners |-> SumFunction(added[p])]) < MaxAdded
          /\ todo' = <<AccountRow(r.project, r.code)>>
       \/ /\ r.op = "postJournal"
          /\ Len(posted) < MaxEntries
          /\ todo' \in Seeds(r.project)
    /\ UNCHANGED <<tables, charts, posted, acked, crashes>>

(* db.execute("INSERT INTO ...") *)
Insert ==
    /\ todo # <<>>
    /\ LET row == Head(todo) IN
         \/ /\ row.table = "projects"
            /\ projects' = projects \cup {row.project}
            /\ UNCHANGED <<accounts, entries, lines, charts>>
         \/ /\ row.table = "accounts"
            /\ accounts' = [accounts EXCEPT ![row.project][row.code] = @ + 1]
            /\ IF request.op = "addAccount"
               THEN /\ added' = [added EXCEPT ![row.project][row.code] = @ + 1]
                    /\ handmade' = IF HasAccounts(row.project) THEN handmade
                                    ELSE handmade \cup {row.project}
               ELSE UNCHANGED charts
            /\ UNCHANGED <<projects, entries, lines>>
         \/ /\ row.table = "journal_entries"
            /\ entries' = [e \in DOMAIN entries \cup {row.entry} |->
                              IF e = row.entry THEN row.project ELSE entries[e]]
            /\ UNCHANGED <<projects, accounts, lines, charts>>
         \/ /\ row.table = "journal_lines"
            /\ lines' = lines \cup {row.line}
            /\ UNCHANGED <<projects, accounts, entries, charts>>
    /\ todo' = Tail(todo)
    /\ UNCHANGED <<pc, request, posted, acked, crashes>>

(* postJournal once the chart is there: the checks, then the rows *)
Post ==
    /\ pc = "seed" /\ todo = <<>>
    /\ request.op = "postJournal"
    /\ BalancedLines(request.lines)
    /\ AccountsExist(request.project, request.lines)
    /\ posted' = Append(posted, request.lines)
    /\ todo' = JournalRows(NextEntry, request.project, request.lines)
    /\ pc' = "write"
    /\ UNCHANGED <<tables, request, charts, acked, crashes>>

EndHandler == pc' = "idle" /\ request' = NoRequest /\ todo' = <<>>

(* A check throws: the request fails, what was seeded stays *)
Refuse ==
    /\ pc = "seed" /\ todo = <<>>
    /\ request.op = "postJournal"
    /\ ~(BalancedLines(request.lines) /\ AccountsExist(request.project, request.lines))
    /\ EndHandler
    /\ UNCHANGED <<tables, charts, posted, acked, crashes>>

Reply ==
    /\ todo = <<>>
    /\ \/ pc = "write" /\ acked' = acked \cup {Len(posted)}
       \/ pc = "seed" /\ request.op # "postJournal" /\ UNCHANGED acked
    /\ EndHandler
    /\ UNCHANGED <<tables, charts, posted, crashes>>

Crash ==
    /\ crashes < MaxCrashes
    /\ pc # "idle"
    /\ crashes' = crashes + 1
    /\ EndHandler
    /\ UNCHANGED <<tables, charts, posted, acked>>

Next ==
    \/ \E r \in Requests : Begin(r)
    \/ Insert \/ Post \/ Refuse \/ Reply
    \/ Crash

Spec == Init /\ [][Next]_vars
-----------------------------------------------------------------------------
(* Properties *)

LinesOf(e) == {l \in lines : l.entry = e}

(* The types of the variables *)
TypeOK ==
    /\ projects \subseteq Projects
    /\ accounts \in [Owners -> [Codes -> Nat]]
    /\ DOMAIN entries \subseteq DOMAIN posted
    /\ \A e \in DOMAIN entries : entries[e] \in Projects
    /\ \A l \in lines : /\ l.entry \in DOMAIN posted /\ l.no \in Nat
                        /\ l.project \in Projects /\ l.code \in Codes
    /\ pc \in {"idle", "seed", "write"}
    /\ request \in Requests \cup {NoRequest}
    /\ added \in [Owners -> [Codes -> Nat]] /\ handmade \subseteq Owners
    /\ posted \in Seq(Postings) /\ Len(posted) <= MaxEntries
    /\ acked \subseteq DOMAIN posted
    /\ crashes \in 0..MaxCrashes

(* An entry that was answered for is stored whole: its header, and exactly  *)
(* the lines that were submitted, numbered from 1.                          *)
AckedIsComplete ==
    \A e \in acked :
        /\ e \in DOMAIN entries
        /\ LinesOf(e) = {LineRow(e, entries[e], k, posted[e][k]).line : k \in DOMAIN posted[e]}

(* No line without its header, at no moment ("Persist header so reports     *)
(* (which JOIN on entries) can see it"): trialBalance, which reads lines    *)
(* alone, and the reports that join entries always add up the same lines.   *)
(* And none under a code its project has no account for: no report has to   *)
(* file it under '(Unknown)'.                                               *)
JoinSeesEveryLine ==
    \A l \in lines : l.entry \in DOMAIN entries /\ accounts[l.project][l.code] > 0

(* No retry after a crash and no second listing seeds a chart again: a      *)
(* default account has as many rows as addAccount gave it, and one from the *)
(* seeding, or as many as the template had.  A chart that addAccount began  *)
(* is never seeded at all: its rows are those addAccount gave it, on its    *)
(* own or through the template.  And while the process lives, one that      *)
(* addAccount did not begin, in a project or in the template, gets every    *)
(* default or, so far, none.                                                *)
SeededOnce ==
    /\ \A p \in Owners : \A c \in Codes :
          LET seeded == accounts[p][c] - added[p][c]
          IN  /\ seeded >= 0
              /\ seeded <= 1 \/ (p # Global /\ seeded <= accounts[Global][c])
              /\ p \in handmade => seeded = 0
    /\ pc = "idle" /\ crashes = 0 =>
          \A p \in Owners \ handmade :
              Global \in handmade \/ ~HasAccounts(p) \/ \A c \in Defaults : accounts[p][c] > 0

OutOfBalance(e) == SumFunction([l \in LinesOf(e) |-> l.debit - l.credit])

UnroundedDebits(e)  == {l \in LinesOf(e) : ToFixed2(l.debit) # l.debit}
UnroundedCredits(e) == {l \in LinesOf(e) : ToFixed2(l.credit) # l.credit}

(* The entries whose lines have begun to be stored, and are not all there *)
Incomplete == {e \in DOMAIN posted : LinesOf(e) # {}
                                          /\ Cardinality(LinesOf(e)) < Len(posted[e])}

(* An entry stored whole is out of balance by half a cent at most for each   *)
(* amount that is no whole number of cents (the check rounds amount by      *)
(* amount, the rows keep what was submitted), so in whole cents not at all; *)
(* and what else does not balance is what a crash cut off.                  *)
ImbalanceIsInterrupted ==
    pc = "idle" =>
        /\ \A e \in DOMAIN entries :
              Cardinality(LinesOf(e)) = Len(posted[e]) =>
                LET slack == 5 * (Cardinality(UnroundedDebits(e)) + Cardinality(UnroundedCredits(e)))
                IN  OutOfBalance(e) \in -slack..slack
        /\ Cardinality(Incomplete) <= crashes
=============================================================================
