# Verification of QuarkSQL

QuarkSQL is a small SQL engine on RocksDB behind an HTTP server (Crow). The
application is JavaScript: functions of a global `api`, run by one V8 isolate,
that call back into the engine. On top of it the repository ships accounting
handlers and a "blockchain" journal.

This directory holds TLA+ models of the program's own logic, the configurations
that check them with TLC, and proofs, checked by TLAPS, of the properties that
matter most. `PROJECT.json` maps every definition that models code to the lines
it models, and lists the runs, the mutants, the hazards and the findings.

    tlc -workers 2 -config MCApiServer_serve.cfg MCApiServer      # one run
    tlapm BlockchainLedgerProofs.tla                              # one proof

Contents: [1 Inventory](#1-inventory), [2 Modules](#2-modules-and-the-code),
[3 Runs](#3-runs-and-bounds), [4 Fairness](#4-fairness), [5 Proofs](#5-proofs),
[6 Findings](#6-findings), [7 Not modelled](#7-what-is-not-modelled),
[8 Plan](#8-plan).

## 1 Inventory

A request passes through the parts in this order:

    client -> Crow worker thread -> AuthMiddleware (Locker: auth.verify)
           -> /api route (Locker: the handler) -> scripts/*.js
           -> db.query / db.execute / db.kvPut / db.kvGet (main.cpp)
           -> SqlParser -> QueryExecutor -> DBManager, IndexManager -> RocksDB

| Part | Code | State | Operations |
|---|---|---|---|
| HTTP server | `src/src/main.cpp`, `src/include/authmiddleware.h`, Crow (vendored) | worker threads, connections, the Locker of the isolate | accept, verify token, dispatch to `api[name].handler`, answer |
| Authentication | `src/scripts/auth.js`, `src/src/JwtUtils.cpp` | table `users`, signing secret | signup, login, verify |
| Script bindings, module loader | `src/src/main.cpp` | module cache | `db.*`, `require` |
| SQL parser | `src/src/SqlParser.cpp` | none | text to `Query` |
| SQL storage engine | `src/src/QueryExecutor.cpp`, `DBManager.cpp`, `IndexManager.cpp` | column families, in-memory index | SELECT, INSERT, UPDATE, DELETE, BATCH, rebuildAll |
| Schema and JSON helpers | `src/src/SchemaManager.cpp`, `JsonUtils.cpp` | schemas, read once | load, parse, print |
| Accounting handlers | `src/scripts/business.js`, `sanitize.js` | tables `projects`, `accounts`, `journal_entries`, `journal_lines` | createProject, listAccounts, addAccount, postJournal, reports |
| Blockchain journal | `src/scripts/blockchain/` | keys `chain:*`, `rules:*`, `rule:*`; a counter in memory | bc_* handlers |
| LLM proxy | `src/src/llm_mistral.cpp` | per call: curl handle, stream buffer | blocking `/ask`, SSE stream, WebSocket stream |
| Requirements watcher | `src/src/RequirementsWatcher.cpp`, `WatcherBootstrap.cpp` | files under `scripts/` and `public/` | inotify loop, generate an app, extend business.js |
| Browser pages | `src/public/` | in the browser | call the routes above |

Who shares what:

* The workers share one isolate. Whoever holds `v8::Locker` runs JavaScript, so
  a handler with all its SQL statements excludes every other handler. The
  Locker is given back between the token check of the middleware and the
  handler, and the handlers of one client interleave with those of all others.
* Handlers share the tables. RocksDB makes one Put or Delete atomic; no
  `WriteBatch` or transaction is used, so every operation above one row is a
  loop that the end of the process may cut.
* The in-memory index is filled once, at the start, and read by SELECT.
* The watcher is a thread of its own, started during static initialisation,
  that shares the files under `scripts/` with the server's start.
* An upstream call of the LLM proxy keeps the worker, and with it every
  connection of that worker, until curl returns.

What is hard, and what makes each part correct:

| Part | Hard behaviour | Correct when |
|---|---|---|
| Journal | a handler is up to seven puts; a crash between two; a counter only in memory; calls that throw after the counter moved | ids stay unique, an answered transaction is on disk and stays, the chain loads again, the two copies of a rule agree |
| Storage engine | loops of writes, keys collected before, an index that is not maintained, keys that depend on column names | a statement does what it says or a prefix of it, no row is half old and half new, ids and keys agree, an indexed select finds the rows its entries name |
| SELECT | conditions split between scan and join, paging in three places, two ways to answer an ORDER BY | joins are relational, pages tile the table, groups partition the rows, both ways agree |
| Accounting | several INSERTs per request, checks between writes, an account added before the chart is seeded, rounding | an entry is complete when answered, lines have headers and accounts, debits equal credits, seeding happens once |
| Server | check and insert of signup by several threads, the Locker given back between check and use, handlers that throw after they have written, threads held upstream | one row per name, effects only for valid tokens, every request ends |
| Reports | one set of lines added up in SQL and in JavaScript, by two kinds of join, rounded in several places | the balance sheet balances, the reports agree |
| Parser, endpoints | clauses found by searching a text; parameters put into it with quotes or without | a fitting text means what it says, a write misses no row of its WHERE |
| Loader, watcher | files rewritten in place while the server starts, edits before, during and after an event, failing and cyclic modules | what was written is served and kept, one instance per module, the watcher catches up |
| Streams | a text cut into chunks anywhere, an upstream that fails or ends early | what is relayed depends on the text alone, one end mark, an answer for every request |

## 2 Modules and the code

Three decisions hold for all modules.

* Where the code excludes (the Locker), a model does not interleave; where it
  does not, it does. Journal, SQL and accounting handlers run one at a time;
  ApiServer is the module that shows what happens between them.
* Every RocksDB write is a step of its own. `Crash` may happen before each of
  them and keeps the writes made so far (RocksDB keeps a prefix of the writes
  of a process that dies); it clears what lived in memory.
* Data is as small as the properties allow: names are model values or small
  numbers in the order in which the code compares them, a digest is the tuple
  of what is hashed (SHA-256 is assumed free of collisions), key and block
  formats are left out. Formatting is modelled where a property is about it:
  the rounding to cents in Accounting, comparison as strings and `std::stod` in
  SelectPipeline.

**BlockchainLedger** (`scripts/blockchain/ledger.js`, `api.js`). Variables are
the keys of the column family (`chainLength`, `chainBlock`, `rulesAll`,
`ruleById`), the running handler's locals and the module variable
`transactionCounter`. A handler is: `Begin` (ensureInitialized loads the chain
or makes a genesis block), `PutLength` and `PutBlock` (saveChain), `InitRules`,
`PutRulesAll` and `PutRule` (saveRules), then what it is itself
(`OwnAddTransaction`, `OwnAddRule`, `OwnNothing` for bc_init, which only
initialises), the puts again, and `Reply` or `Throw`. bc_init stands for all
handlers that only initialise and read.

**ImmutableLedger** is what README.md of the program calls "an immutable,
double-entry blockchain": entries appended under consecutive numbers, none
changed or removed, acknowledged ones among them. BlockchainLedger without
crashes implements it under the mapping `Committed` (the loaded chain; during
saveChain of an extended chain, the chain without its last block).

**SqlEngine** (`DBManager.cpp`, `IndexManager.cpp`, write statements and the
index shortcut of `QueryExecutor.cpp`). One table: `rows`, the column family;
`index`, the multimap; `plan` and `done`, the single writes a statement will do
and how many it has done. `Begin` computes the plan as the code does (the keys
are collected before the first write), `Write` does one, `SelectOrdered` reads
through the index, and `SelectAborts` is the read of an entry whose row is
gone, at which `get` parses an empty string and the process ends. `renamed` is
a history variable: the keys of rows whose id an UPDATE has set to something
else, which `update` leaves under their old key.
UPDATE and DELETE carry at most one condition: the parser takes the first one.
`IndexedFields` is what the schema loader finds: it reads `indexedFields` at
the root of a table's entry, which in the shipped schemas.json only the entry
`default` has (for `id`); the instance uses a schema the loader accepts that
indexes `amount`.

**SelectPipeline** (`QueryExecutor::handleSelect`). The pipeline as a function
from a database and a parsed query to rows: `Scan` (conditions and page pushed
down), `Joined`, `Filtered`, `Grouped`, `Projected`, `Sorted`, `Page`, and the
shortcut `Indexed` with `Entries` in the order of the multimap. A database is
its tables together with what its indices are: `declared`, the indexed fields;
`built`, each table at the start of the process, when rebuildAll ran; and
`kept`, where each row of that time is now, 0 if it was deleted. No write
maintains an index, so this is all there is to know of it. `JoinRow` looks the
partners of a row up in the index if the column has one (`Fetched`: the rows
now under the keys the index has for the value, changed or not; `Throws` if one
of them is gone) and scans the table if not (`Scanned`). `Current` says that a
table is as it was when its indices were built. `std::sort` is not stable, so
`Sorted` gives the set of all sorted orders. The two actions ask one query and
keep the answer; a SELECT that throws gives none.

**SqlParser** (`SqlParser.cpp`). The parser as a function from a text to a
query. A text is a sequence of tokens (words, qualified words, numbers,
punctuation, quotes); a regular expression is the set of places where its
pattern occurs (`Occurrences`), since the code searches for clauses anywhere
in the text. `Conditions` is the loop over `cond_re`, `Aliases` and
`Qualified` the alias map, `Where` the one condition UPDATE and DELETE keep.

**GeneratedEndpoint** puts the path of a request together: `TextOf` is the
substitution of parameters, as in the handlers the watcher generates
(`Substituted`: quotes around what is no number) or as in business.js (`raw`:
nothing around it), SqlParser reads the text, and `Query` answers by the
pipeline of SelectPipeline (`Engine == INSTANCE ...`, without indices, as with
the schemas.json of the repository) or `Execute` changes the
tables. Each endpoint also carries what its text says to a reader (`means`),
against which the answers are checked.

**ScriptFiles**, **ModuleLoader**, **RequirementsWatcher**, **Startup**. The
folder `scripts/` is a function from names to what a script does when it runs:
the modules it requires, its entries in `api`, and how it ends.

* ModuleLoader is `RequireCallback` and the boot of `main()`: `stack` holds the
  scripts that run with the requires they have left, `cache` is `moduleCache`.
  `RequireHit`, `RequireFails`, `Enter`, `Throw`, `Leave` are the ways through
  RequireCallback, `Serve` is `app.run()`, `Handle` a handler that requires
  (bc_enable). A require that fails gives `undefined` to the script that asked
  (section 6).
* RequirementsWatcher is the thread: `TakeEvent`, `ReadFile` (with
  parseRequirements), `OpenScript` and `FillModule` (writeFile: the stream
  empties the file, the text comes later), `ReadBusiness`, then `OpenScript`
  and `FillBusiness` for business.js. `Open`, `WriteLine`, `Close`, `MoveIn`
  and `Delete` are editors, and `Report` what inotify queues for the mask of
  the watch. The 100 ms of debounce are no step: whatever happens meanwhile
  happens before the next step.
* Startup composes the two: `Start`, `Load` and `Watch` (both on the same
  folder), `Write`, `DiskFails` (writeFile cannot open) and `Crash`. Where
  main() returns, the thread ends with the process in whatever it was doing.
  Three history variables say what the properties depend on: `installed`, the
  folder as it came; `replaced`, the installed scripts over which a module was
  generated (a slug is not checked); and `interrupted`, the steps at which a
  script was left empty, "fill" for a module and "append" for business.js.

**MistralStream** (`llm_mistral.cpp`). One request on `/ask`, `/ask/stream` or
`/mistral/ws`. The upstream text is a sequence of tokens (CR, LF, `data:`,
payloads) of which `Receive` takes the next few, any number at a time, as curl
calls `write_cb`; `Drain` takes the complete frames from `buffer`, and `Emit`
turns their data lines into parts of the response or into messages (a payload
that json::parse refuses, the empty one among them, is passed on as it is).
`PerformOk` and `PerformFails` are what curl_easy_perform returns. A
`crow::response` is sent when it is ended: `body` is what was written, `sent`
what the client gets.

**Accounting** (`business.js`, `sanitize.js`). Rows of `projects`, `accounts`
(how many for each project and code), `journal_entries` and `journal_lines`;
`todo` is the INSERTs that the running handler has yet to execute. `Begin` is a
handler up to its first check after seeding, `Insert` one INSERT, `Post` the
checks of postJournal, `Refuse` their exceptions. addAccount takes any code, one
of DEFAULT_ACCOUNTS before the chart is seeded included; `added` and `handmade`
are history variables that tell its rows from those of the seeding, and the
charts it began. Amounts are in thousandths, so that rounding to cents is
visible; amounts half way between two cents, where binary floating point
decides, are left out.

**Reports** extends Accounting with the reports of business.js as functions of
the rows: `ByCode` is the SUM ... GROUP BY account_code, `LinesWithDates` and
`LinesWithHeaders` the LEFT JOIN and the JOIN with the headers, and dates are
any set of entries. `Namings` are the types the accounts may have: addAccount
takes any. `AccountLedgers` gives all orders the parser's single
ORDER BY column allows.

**ApiServer** (`main.cpp`, `authmiddleware.h`, Crow's connection loop, `signup`
of `auth.js`, blocking `/ask`). Each worker has a program counter, a current
request and the queue of its connections; `locker` is the holder of
`v8::Locker`. `Arrive` and `Start` are Crow; `LockVerify` and `Verify` the
middleware; `Route` the choice of route; `LockHandler`, `Check`, `Insert`,
`Throw` and `Return` the /api route with its handler split between what it
reads and what it writes; `UpstreamEnds` ends a curl call. A protected handler
checks the body's token again (`requireAuth`), the middleware the header's, and
may throw at any later step, after none, some or all of its writes (as
postJournal does, which seeds the chart and then looks at the lines); the answer
is 404. signup throws only before its one write. Tokens are good or bad, names
carry their lower-case form, and `Sought` is the name that signup's SQL lookup
asks for: the name itself, the part of it before an apostrophe, or, for the
empty one, no name at all, which finds any user.

## 3 Runs and bounds

| Run | Question | Bounds | Answer |
|---|---|---|---|
| ledger_nocrash | While the process lives, is the journal an append-only journal, and do the copies of the rules agree? | 4 blocks, 5 rules, 3 payloads (one not finite), 2 new rules of which one has the id of a default | yes |
| ledger_crash | What survives the end of the process between any two puts? | 3 blocks, 4 rules, 2 crashes, 6 blocks ever created | ids stay unique, an answer is on disk, one crash never leaves an invalid chain, no rule is lost |
| ledger_lost | Is an acknowledged transaction kept? | 3 blocks, 1 crash | no |
| sql_writes | Do the write statements do what they say, with crashes? | 2 columns, 3 values, 8 statements of all four kinds (one UPDATE sets the id), 1 crash | yes; a row's id is its key unless an UPDATE set the id |
| accounting | Are entries complete, headed, on existing accounts; is seeding done once; do the reports balance and agree? | 2 projects and the shared template, 2 default codes and an extra one, 1 added account, two namings of their types (one with a type no report knows), 5 postings, 2 entries, 2 crashes | yes; a chart lacks defaults after a crash or where addAccount began it; out of balance are interrupted entries, and others by their rounding; a sheet is out by accounts of unknown types |
| server | Names unique, effects authorised, every request answered? | 2 workers, 3 of 9 requests (names in two spellings, with an apostrophe and empty), 2 waiting per worker, 2 points of time, 1 crash | yes, but for names with an apostrophe, which the lookup does not read whole |
| select | Does the pipeline mean what its clauses say? | all tables of up to 3 orders and 2 users from 3 rows each, each without indices, with current ones, and with a row of either table added or deleted, or one of users changed, since they were built; 10 queries over all clauses | yes, in the cases the properties state; a join through an index only while it is current |
| endpoint | Does the text of a handler, with its arguments, reach the rows it says? | 10 endpoints, 2 sets of 3 tables, words, numbers, numbers with a leading zero and nothing as arguments, 2 calls | SELECTs with fitting arguments do; a write never misses a row of its WHERE |
| startup | What does a boot load, what survives of business.js, does the watcher catch up? | 3 folders (as shipped; with failing and cyclic modules; with a business.js that throws), 2 .md files, one of which, half written, has the slug "business"; 2 edits, 1 crash or file that cannot be opened, requires nested 5 deep | see below |
| startup_swallowed | Does the exception of a required module surface? | the same | no |
| stream | Is what a client sees independent of the chunks, ended once, and always something? | 6 texts with both kinds of line end, two lines in a frame, more after [DONE], no [DONE], an unfinished frame; 12 requests | yes, but for an upstream without [DONE] |
| stream_silent | Do relayed deltas reach the browser? | the same | no |

What *startup* shows. Until the watcher generates over an installed script, a
module that is in no cycle runs once per process (`OneInstanceOfInstalled`). A
boot during which no script is written loads business.js and all its requires
but those that do not compile, those behind a failing one and those in a cycle
included (`LoadsDespiteFailures`: this bounds what the swallowed exception of
*startup_swallowed* costs; that it is swallowed is the finding). Unless the
thread was stopped in filling a module, business.js requires only what has been
written (`RequiresAreWritten`); unless it was stopped in rewriting business.js,
or a file had the slug "business", business.js keeps what it had (`BaseIsKept`).
And the thread ends up with the module of the last text of every file whose last
change it was told of, if no other file has its slug (`Converges`). TLC finds
each of these violated if one of its premises is left out.

Why these bounds are enough for the cases in question. Three blocks are a
genesis block and two transactions: a stale block behind a shorter chain, a
length that covers it again, and a third put in between all occur, and two
crashes are needed to make a chain invalid (section 6). Two columns give
rows with and without an id whose first column is another one, and the batch
writes a key twice. Two workers are enough for any race of check and insert;
a third request keeps a worker in `/ask` or waits behind it. Two entries give
an interrupted entry followed by a complete one, and lines of two projects; accounts
added before and after a seeding give every chart there is a property about.
Three rows tell sorting before a page from sorting after it, and hold two of
one group next to one without the grouping column. Two calls give a write on
rows that another write has made. Two edits are a file that changes while its
first text is generated, or two files whose generation follows; one file moves
in while another is half written. The longest text has more frames than any
chunk needs to cross, and every way to cut it is tried.

`CHECK_DEADLOCK FALSE` is set for the journal (at the bound on blocks and time
nothing more is asked), the server (clients stop), the streams (one exchange),
the endpoints (the bound on calls) and the startup (a server that has nothing to
do). The other runs check deadlock. Symmetry is not used: the sets of model
values are too small to gain by it and some runs are for liveness.

The modules with state that several steps build up have a type invariant;
SelectPipeline and GeneratedEndpoint, whose state is a question and its answer,
have none. `AcknowledgedIsKept` is not repeated in ledger_nocrash: there the
refinement says more (nothing is removed, and what was answered for is in it).

Each property of a passing run has a mutant in `PROJECT.json`, a plausible
fault in one definition that makes TLC report the property violated: a missing
Locker, a loop that ends too early, rows inserted in another order.

## 4 Fairness

Three properties need fairness; all others hold under `Spec`.

* `EveryRequestEnds` (run server): `FairSpec` has weak fairness of `Serve(w)`
  for each worker, all steps a thread takes by itself. Threads are scheduled by
  the system, and a thread that waits for the Locker gets it when it is free;
  weak fairness is enough because each worker runs the handler to its end once
  it is in, and no worker comes back without finishing a request, of which
  there are finitely many. For arbitrarily many requests the claim would need a
  fair Locker, which V8 does not promise. The writes of a protected handler are
  not told apart, so that its loop of INSERTs is taken to end, as the loops over
  the codes of a chart and the lines of a request do. `Serve` includes `UpstreamEnds`: curl
  is given no timeout (llm_mistral.cpp), so that the claim assumes an upstream
  that ends its calls. Without that, one silent upstream call keeps a worker
  and all its connections.
* `Converges` (run startup): weak fairness of `Watch`, the steps of the
  watcher's thread while the process runs. It loops without waiting for
  anything but events. That somebody starts the server again, closes the file
  he edits, or that a boot ends is not assumed: the property speaks of files
  that are closed and of changes reported to a process that lives on.
* `AnsweredUnlessQuiet` and `DeltasReachBrowser` (runs stream, stream_silent):
  weak fairness of `Handler`, the steps of the handler's thread; as above it
  includes that an upstream ends or fails at some time.

## 5 Proofs

| Module of proofs | Theorem | States (under `Spec`) | Run that shows it |
|---|---|---|---|
| BlockchainLedgerProofs | Numbering | `[]NumberingInv` | - |
| | TransactionIdsAreUnique | `[]UniqueTransactionIds` | ledger_crash |
| | RulesAreNeverLost | `RulesOnlyGrow` (an action property) | ledger_crash |
| | LookupFindsTheListedRule | `[]RuleLookupAgrees` | ledger_nocrash |
| | LedgerTypes | `[]TypeOK` | ledger_crash |
| | AnswersAreDurable | `[]ReplyIsDurable` | ledger_crash |
| | OneCrashKeepsTheChainValid | `[]ValidAfterOneCrash` | ledger_crash |
| | JournalIsImmutable | `ImplementsImmutableLedger`, if `MaxCrashes = 0` | ledger_nocrash |
| SqlEngineProofs | StatementsMeanWhatTheySay | `[]StatementTakesEffect` | sql_writes |
| | RowsAreNeverTorn | `[]NoTornRow` | sql_writes |
| | IdsAreKeys | `[]KeyIsId` | sql_writes |
| | IndexLeadsToRows | `[]EntriesHaveRows` | sql_writes |
| | EngineTypes | `[]TypeOK` | sql_writes |
| ApiServerProofs | NamesAreUnique | `[]OneRowPerName` | server |
| | OnlyAuthorizedEffects | `[]EffectsAreAuthorized` | server |
| | ServerTypes | `[]TypeOK` | server |
| AccountingProofs | AnsweredEntriesAreWhole | `[]AckedIsComplete` | accounting |
| | ReportsSeeEveryLine | `[]JoinSeesEveryLine` | accounting |
| | ChartsAreSeededOnce | `[]SeededOnce` | accounting |
| | EntriesBalance | `[]ImbalanceIsInterrupted` | accounting |
| | SheetsBalance | `[]BooksBalance` | accounting |
| | TrialBalancesAgree | `[]ReportsAgree` | accounting |
| | AccountingTypes | `[]TypeOK` | accounting |
| SelectPipelineProofs | PagesTileHolds | `[]PagesTile` | select |
| | ShortcutAgreesHolds | `[]ShortcutAgrees` | select |
| | GroupsPartitionRowsHolds | `[]GroupsPartitionRows` | select |
| | JoinIsRelationalHolds | `[]JoinIsRelational` | select |
| StartupProofs | BootLoadsDespiteFailures | `[]LoadsDespiteFailures` | startup |
| | ModulesRunOnce | `[]OneInstanceOfInstalled`, if `LoadedByMain` | startup |
| | RequiredModulesAreWritten | `[]RequiresAreWritten` | startup |
| | InstalledBaseIsKept | `[]BaseIsKept` | startup |
| | StartupTypes | `[]TypeOK` | startup |
| MistralStreamProofs | OneDonePerStream | `[]OneEndMark` | stream |
| | RelayDoesNotDependOnChunks | `[]RelayIsThatOfTheText` | stream |
| | StreamTypes | `[]TypeOK` | stream |
| InductionTheorems | InductionBySize, RecursionBySize, FoldExists, SumByBijection, SumByGroups | lemmas, see below | - |

They hold for all values of the constants: any number of crashes, threads,
blocks, statements, rows, entries, scripts and edits. What they assume is what
the modules that declare the constants assume, and TLC evaluates it in every
run; none of it is about a state:

* the bounds are numbers, payloads and codes are what their names say;
* a statement carries what the parser puts in it (a row, rows or keys), and
  columns and strings are numbered in the order in which they compare;
* DEFAULT_ACCOUNTS is a list of codes, each once; postings are lists of lines
  whose amounts are integers (thousandths); an account has some type, known to
  the reports or not;
* a table is a list of rows, a row gives some columns a string; an index was
  built for some earlier table, of which some rows are left; a query has the
  fields of the parser's `Query`, with numbers for SKIP and LIMIT
  (`DatabaseAssumption`, `QueryAssumption`);
* the stack has room for main(), business.js and one module it requires
  (`DepthAssumption`);
* what upstream sends is a finite sequence of tokens (`TextAssumption`), and no
  payload is both a delta and one that cannot be read (`PayloadAssumption`);
* the installed `scripts/` has a `business.js`; texts are lists of lines.

Two theorems have a hypothesis of their own, because the code does not give what
they say without it. `MaxCrashes = 0`: the run ledger_lost shows that a crash
loses acknowledged transactions, so only a process that lives keeps the journal.
`LoadedByMain`: nothing requires business.js, which main() runs as a script
outside the module cache, so that a require would run it once more; no script of
the repository does. Both hold in the instances TLC checks. Wherever else the
code holds only under a condition, the condition is part of the property, as a
statement about what has happened (a chart that addAccount began, a row an
UPDATE renamed, a script that was replaced, a step that was interrupted, an
index that is current), and the theorem is for all of these histories.

### Arguments

*Transaction ids.* The id of a new transaction is computed from the loaded
chain, not stored, and blocks of replaced chains stay on disk; a later length
may cover one of them. `UniqueTransactionIds` alone is not inductive: it says
nothing of those blocks, nor of the chain in the running handler.
`NumberingInv` says that every block, wherever it is found, has its position
as index and as the id of its one transaction (none in the first). The least a
step must show is that CreateBlock continues the numbering: `OwnAddTransaction`
takes the last id plus one, which the invariant makes the length of the chain.
Two blocks of a chain then differ in their ids because they differ in position.

*Durability.* `DurableInv` follows saveChain: after the length and i blocks are
put, those are the handler's chain; once saveChain is done, the whole chain is
on disk (`Stored`), and a stored chain is exactly what loadChain gives. Between
handlers nothing is claimed, since a crash may have left anything.

*One crash.* `OneChainInv` says that before the first crash all blocks on disk
are those of one chain, and that a handler that is stopped leaves a beginning
of it or a length without a block. Whatever the next handler loads is then a
beginning of a valid chain, hence valid, or nothing, and then it starts anew;
only a second crash can mix two histories.

*Refinement.* `Committed` takes the chain of the abstract journal from disk, or
from the running handler without its last block while that is being saved.
`AppendInv` has what identifies the moment of the append: a handler that saves
again is bc_addTransaction, with one block more than what was loaded, made
from the request. Every put but one is a stutter; the put of the last block is
`Append`; `Reply` is `Acknowledge`.

*Rules.* Sorting by priority is ranking: each rule's place is the number of
rules before it, and a counting argument (an injection of a finite set into
one of its size is a surjection) makes the ranks a permutation, so no rule is
lost or doubled. `LookupInv` follows the loop of saveRules: the keys written so
far agree with the rules up to `i`, and since lists only grow, no key has a rule
that is no longer listed.

*Statements.* `ProgressInv` says what the first `done` writes have made of the
table the statement began with, for inserts (the last put of a key wins),
updates (a merge, which done twice is a merge done once) and deletes. That the
collected keys are those of the matching rows, all of them, is again the
ranking argument (`ScanFinds`, `InOrderLists`). At the end of the plan this is
`Effect`; before it, each row is an old or a new one, and a crash changes no
row, so that `NoTornRow` outlives the plan it was shown from.

*Ids and keys.* `KeyIsId` talks of the rows on disk; the induction also needs
the writes still to be done. `PlanKeepsIds` says that each of them stores a row
under its id; an update may touch the id, and `renamed` records that it did
(`RenamedBy`), until the row is deleted or stored anew. What the proof shows is
that nothing else parts a row's id from its key: no INSERT, no row of a batch,
no crash between two writes.

*User names.* signup looks a name up in one step and inserts it in another. The
induction needs that in between nobody else inserts: `HolderIsInside` (who is
between taking and giving back the Locker is the holder, hence at most one
worker is) and `CheckedNameIsFree` (the lookup of the name a worker is about to
insert finds no row). For a name that is read whole this means that it is in no
row, and that is where the theorem stops.

*Authorisation.* `ChecksPassed` ties the place of a worker to the checks its
request has passed, `InOnePlace` says that a request is with one worker or in
one queue, once; without it, a second copy of a request could be answered with
401 after the first had its effect (`EffectIsLast`). A protected handler may throw
after its effect, so that a 404 excludes none; signup may not.

*Entries.* `WriteInv` relates the INSERTs still to come to the ones made: while
postJournal writes, header and lines so far are those of the request, the rest
are in `todo` in order, and the accounts it checked are there. *Charts*:
`WillHave` counts the accounts of a code with the rows still to be inserted;
`WillSeed` is that count without the rows of addAccount. A seeding begins only
where there are no accounts at all, so that `WillSeed` never exceeds one, or what
the global template has, and stays 0 in a chart that addAccount began. As long as
there was no crash, a chart begun by a seeding, from the constant or from a
template that is itself such a chart, will have every default.

*Books.* `EntryInv` adds to these two invariants. `PrefixInv`: of every entry
begun, some of the first lines of a posting that passed `BalancedLines` are on
disk. `CutInv`: there are no more entries cut off than crashes (the one that is
being written not counted). An entry with as many lines as were posted has then
all of them; its sum over rows is the sum over the posting, one for one
(`SumByBijection`), and differs from the rounded sums, which are equal, by the
`RoundingErrors` of its amounts. In whole cents there are none, and everything
above is addition: a report reads the lines of some entries
(`ReportsReadEntries`, whichever way it joins), they sum up to nothing by entry,
hence by account (`SumByGroups`, once each way), hence by type of account, the
types no report knows among them (`Unfiled`), and the earnings are the net income
with the sign of the sheet. `ReportsAgree` needs
no cents: the loop of overallTrialBalance is `ByKey` of the lines it has seen
(`OneLineMore`), and an account ledger lists its lines one for one.

*Folder.* `RequiresInv` and `BaseInv` follow `job` through the generation of a
file: a module is filled before business.js is read, what was read keeps the
installed text, and it is written back with one more require. Slugs are not
assumed to be new: a module may be generated over any script, and `replaced` has
those that came with the installation, which is all the two properties need to
leave out. The loader, which reads the same folder at any moment, changes none
of it.

*Boot.* `StackInv` says of every frame that it was asked for by the one below it
or, at the bottom, is what main() or a handler runs: the scripts on the stack are
a path in the graph of requires. `BootInv` speaks of a process in whose time no
script was written: each module that has been entered has put its entries into
`api`, and each module that business.js no longer has on its list is served or
does not compile. The bound on the stack is where this is least obvious: a
require that finds it full fails like any other, and what business.js itself
requires is never that deep. A cycle needs no exception for this reason: the
module in it that business.js asked for has been entered.

*One instance.* The cache is filled when a module has run, so a module runs twice
if it is entered again while it is on the stack. `OneInv` keeps: a module that is
on the stack though it is in the cache, or has run twice, is in a cycle. Two
places of one module on the stack are a way from it back to it (`PathIsCycle`,
`TwiceOnStack`); that it is one in the *present* folder, which the watcher changes
meanwhile, is `CoreInv`: what is generated requires nothing, and as long as none is
replaced, of the installed scripts only business.js changes, which nobody requires. `Cyclic` is stated by
closed sets, not by a recursion over the graph, so that one set refutes it.

*Pages.* Filter, projection and the choice of entries work row by row, hence
distribute over concatenation; cutting out a page of a list and what lies before
and behind it is then cutting up its result. The proof has no loop: `Picked` lists
places by rank, and a list is determined by its members and their order
(`OnlyListing`).

*Index.* The entries of the multimap are in a strict order, by key and then by
arrival. The walk is hence a permutation of the places of the table whose keys
ascend (descend from the last), which is one of the orders `std::sort` may give.

*Groups.* `keys` lists each value of the grouping column once; that counts and
sums add up is `SumByGroups` along the rows, then a permutation of the groups.
The proof showed that a sum named like the grouping column replaces it in the
answer; the property leaves that out, since no value tells its group then.

*Joins.* The rows of the nested loops are listed together with the pair of places
each was made from, one left row after another (an induction along
`FlattenSeq`). The listed pairs ascend and are those that belong together;
conditions on the left table thin them before the loop, those on the right after
it, and either way the list is the one ordered listing of what remains. The
property says of which tables this holds: where a row on the left has the column
of a condition on the right, it is the left value that is tested (section 6). With
an index on the joined column the partners of a row come from what the index was
built for; where that is the table as it is, and every row has the column
(`RightIsFound`), these are the rows a scan finds, in the same order
(`IndexFinds`), and nothing throws.

*Streams.* `OneEndMark` alone is not inductive: it speaks of ended responses,
and what ends one is the loop of write_cb over all frames in the buffer.
`Marked` says of any response that it is fresh, or open without an end mark, or
ended by exactly one; each part `Emit` writes keeps it, hence a fold of `Emit`
over the lines of a buffer does, hence `Complete` after it. `BufferInv` says
that the buffer is an end of what has come, without a complete frame in it. For
that the loop has to be unrolled: `Frames` is defined by itself on what is left
of the buffer behind the first frame, which is shorter.

*Relay.* `RelayInv` says what the client has been given at every moment of a
stream: what the data lines before the buffer say, and the buffer begins where a
frame ended (`EndsFrame`) or at the start of the text. One call of write_cb takes
whole frames, and the lines it relays are the data lines of all it took
(`DrainTakesFrames`, by `InductionBySize` again). Cuts cannot matter because a
frame ends by line ends and no data line contains one: the data lines of two
parts with line ends between them are those of the whole (`LinesJoin`), and the
line ends behind the last frame add none (`LinesBeforeBreaks`). The same lemma
covers a delimiter that is itself cut, or three line feeds in a row, where the
first of two overlapping delimiters is taken and `Complete` goes on to the end of
the second (`CompleteIsBeforeBuffer`). What is relayed of a line, and what an
event stream shows after [DONE], is a fold (`EmittedInOrder`) that keeps `Relays`
line by line.

*Recursion and folds.* Every definition by recursion has to be shown to exist
and to satisfy its equation before anything can be proved about it, and the
library's theorems for this take operators as parameters, which the provers
here cannot instantiate. InductionTheorems states them for sets and functions
instead: `InductionBySize` (what is inherited from all smaller members of a set
holds of all members, from `LeastNumber`), `RecursionBySize` (a function given
where it stops, and elsewhere by its value at a smaller member, exists) and
`FoldExists` (the function inside MapThenFoldSet, hence FoldLeft, exists and is
what it says), the facts on lists in the order of a rank, and the algebra of
`SumFunction`: it may be taken in any order, over a union, by groups, over the
other side of a bijection, and of differences. Their hypotheses
are wrapped in defined predicates (`Descends`, `Solves`, `Picks`, `Inductive`),
so that a lemma can be cited for a function at hand.

### Only model-checked

* Liveness (`EveryRequestEnds`, `Converges`, `AnsweredUnlessQuiet`): TLAPS
  proves neither liveness under fairness nor ENABLED.
* `AnswerMeansItsText`, `WriteCoversScope` and `WriteKeepsOthers`
  (GeneratedEndpoint): they compare what the parser makes of a text with what the
  instance says the text means. For arbitrary endpoints they are no theorems: a
  text and a meaning that have nothing to do with each other are an endpoint as
  well, and the one of agent.md is not far from it (section 6). For given
  endpoints they are a computation, which TLC does.

## 6 Findings

Each is a violation run whose counterexample was read against the code.

* *ledger_lost*: saveChain puts `chain:length` before the blocks. If the process
  ends before the new block is put, loadChain finds a hole and gives null, and
  ensureInitialized puts a new genesis block in place of the journal.
* *stream_silent*: an upstream that ends its stream properly but without
  `[DONE]` (an error body with an HTTP status is such a stream) leaves the
  response of `/ask/stream` open; the deltas it wrote are never sent.
* *startup_swallowed*: a module that business.js requires and that throws or does
  not compile. RequireCallback throws its error again while its own TryCatch is
  in scope, which takes it back (main.cpp:144, 151-155): the script that asked
  gets `undefined` and goes on, and so does the boot, although main.cpp:150 says
  "propagate the exception to JS caller so it surfaces", and main() ends on an
  exception that reaches it (main.cpp:714-717).

Met while modelling, and not runs of their own:

Storage and SQL

* No write maintains the in-memory index (QueryExecutor.cpp:39-82; README.md:9
  says IndexManager "maintains" it): an ordered select on an indexed field
  misses the rows inserted since the start, and a join through an index
  (QueryExecutor.cpp:146-154) finds no row that was added, finds a changed row by
  its former value, and throws at a deleted one; README.md:154 promises
  "In-memory indices for fast joins and equality queries". The schemas.json of
  the repository is spared by another divergence: its tables declare
  `indexed_fields`, and SchemaManager.cpp:27 reads `indexedFields`.
* Without an index the page is cut out in key order and sorted afterwards
  (QueryExecutor.cpp:133, 261); through the index it is the other way round. The
  example of README.md:103, ORDER BY with SKIP and LIMIT, and listJournals get
  rows picked by their keys.
* SELECT COUNT(*) without GROUP BY answers one row for each row of the table,
  with an empty column; ORDER BY COUNT sorts by a column that is not there
  (the count is stored as `count`). Both are in SelectPipeline as they are.
* ORDER BY keeps its first column only, and compares as text: an account ledger
  may list the lines of an entry in any order, an entry of ten lines shows line
  10 before line 2. GROUP BY keeps its first column only: overallProfitAndLoss
  groups by project and leaves the account out.
* The index shortcut answers all columns whatever was selected
  (`ShortcutAgrees` is about queries that select `*`).
* A condition on a column that both joined tables have is tested on the left
  table's value, and the sides of ON are not symmetric
  (`JoinIsRelational` leaves such conditions out).
* UPDATE of `id` leaves the row under its old key (DBManager.cpp:68, 86), and an
  INSERT of that id makes a second row with it (`KeyIsId` has these rows in
  `renamed`).
* LIMIT 0 is no limit in the scan and in the walk along an index, and an empty
  page behind a join or a grouping. SKIP and LIMIT of a join cut the rows of the
  first table in the scan and the joined rows once more (QueryExecutor.cpp:133,
  274-283), so that its second page is empty or lacks rows (`PagesTile` is about
  one table).
* UPDATE and DELETE keep the first condition, or none where it has no quotes
  (`WHERE id=5`): then every row is changed. `WriteCoversScope` and
  `WriteKeepsOthers` state what is left of WHERE. INSERT with a column list
  keeps the quotes of its values and reads past them if there are fewer values
  than columns (SqlParser.cpp:87-89).
* The generated handler puts quotes around an argument that is no number
  (RequirementsWatcher.cpp:210), and the template has quotes of its own: agent.md:15,
  "project_id='${project_id}'", becomes `project_id=''abc''`, in which `cond_re`
  finds no condition, and the accounts of all projects are answered.
  src/requirements/README.md:33 says only that the placeholders "are replaced at
  runtime from the POST body". It is in GeneratedEndpoint; `AnswerMeansItsText` is
  about arguments that fit the text.
* An SQL text no pattern matches throws a C++ exception through V8
  (SqlParser.cpp:261, main.cpp:272).
* A handler that was given an empty project_id has no condition at all.

Accounting and users

* The balance is checked on amounts rounded line by line, and the amounts are
  stored as submitted: three credits of 0.334 against 0.99.
  `ImbalanceIsInterrupted` bounds what this can do to half a cent an amount. Half
  a cent a line is too little: the check lets a line carry a debit and a credit
  if one of them is rounded to nothing (4, 1000 and a line of 1004 and 0
  thousandths), which the proof brought up and a posting of the instance shows.
* A crash while the default accounts are inserted, or addAccount before the
  first listing, leaves a chart that no later access completes
  (business.js:47, 151-160; line 143 says "ensure defaults exist for this
  project"). A template that addAccount began passes this on to every project
  seeded from it. `SeededOnce` says that there is no third way.
* addAccount takes any type (business.js:156); the balance sheet leaves lines of a
  type it does not know out, and is out by just these (`BooksBalance`).
* postJournal seeds the chart and then checks the lines (business.js:170-174): a
  request that is answered with an error may have written. `EffectsAreAuthorized`
  promises no effect only where a token was refused, and for signup.
* signup looks a name up by an SQL text in which it stands between apostrophes
  (auth.js:103). A name with an apostrophe is looked up as the part before it, so
  that it can sign up any number of times; the empty name leaves no condition, so
  that it is refused as soon as there is any user.
* The row of a user has no `id`, so its key is the value of its first column,
  `created_at`: two signups of one millisecond are one user.
* A second crash can leave a chain with blocks of two histories: it loads, fails
  isValidChain, and addBlock throws from then on. `ValidAfterOneCrash` is
  stated for at most one crash for this reason.

Server, scripts and watcher

* A handler that throws is answered with 404, not 500: InvokeApiFunction catches
  the exception before the route looks for it (main.cpp:496-516, 804-809).
* A module in a cycle runs again and again, until the stack is full, since the
  cache is filled only after it has run.
* main() that returns early, or a crash, ends the watcher inside its rewrite of
  business.js: the file stays empty. A boot that meets the moment between
  truncation and text caches an empty module for its whole life.
* Hot-loading of a generated module is commented out (RequirementsWatcher.cpp:338)
  although src/requirements/README.md:11 promises it. An .md file that is there
  when the server starts is not processed until it changes.
* The default slug "generated-app" and the documented "my-app" give
  `_api.my-app_hello`, which does not compile. A slug "auth", "sanitize" or
  "business" replaces that script (RequirementsWatcher.cpp:316 does not look
  whether there is one); that a heading is enough makes half a file dangerous,
  as in the instance, where "business" is the heading above another slug.
* A developer's change of business.js between its reading and its rewriting by
  the watcher is lost.

## 7 What is not modelled

* *SQL parser*: LIKE, INSERT with a column list, DELETE KEYS, BATCH, names of
  sums other than their column's; the words of a text are taken as tokens.
* *Schema and JSON helpers*: a file read once at the start, and conversions
  without state.
* *The pages the watcher writes* under public/: nothing reads them but browsers,
  and errors in writing them are ignored.
* *Opening of column families*, memory and handle lifetimes of V8, RocksDB,
  Crow's parsing, curl, TLS: below the level of these models.
* *Writes that RocksDB refuses* (a full disk): the results of Put and Delete are
  ignored (main.cpp:342, DBManager.cpp:77-95), so that a handler would go on and
  answer as if it had written; in the models a write succeeds or the process ends
  before it.
* *The voice reports* of business.js repeat the code of the reports modelled;
  listings of projects and journals only read. Rule evaluation of the journal
  changes nothing.
* *Login and the content of tokens*: good or bad in ApiServer.
* *Browser pages* under `src/public`: for the server they are its clients.
* *Static files*: a route without state.
* Vendored code (Crow, GoogleTest, jwt-cpp, picojson, nlohmann json) and the
  unused `include/LLM.h`. json.hpp, jwt.h and picojson.h lie under
  `src/include` beside the program's own headers and are some 31,500 of the
  36,400 lines there and in `src/src`, which is why the mapped lines are a small
  share of the whole: of what the authors of this program wrote, the modules
  map roughly half, the rest being logging, HTTP headers, MIME types, HTML
  templates and the repeated reports.

## 8 Plan

The order was: the journal first (its promise is the strongest and its writes
the most), then the engine all handlers stand on, the accounting handlers, the
server that schedules them, the SELECT pipeline; then the parser with the
endpoints, loader and watcher, streams, and the reports. What is left to model:
login and token expiry in ApiServer, the remaining statements of the parser,
rule evaluation.

Every safety property of the runs that holds for all values of the constants is
a theorem of section 5. What could be proved further are statements about the
parser for families of texts (that `Conditions` finds each condition of a WHERE
whose values are quoted words), which first need SqlParser's loops as functions
with a descent of their own, and the measure each fair step of `Serve` and
`Watch` decreases, the part of the liveness properties that is not temporal.
