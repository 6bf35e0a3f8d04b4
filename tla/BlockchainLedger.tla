-------------------------- MODULE BlockchainLedger --------------------------
(***************************************************************************)
(* The blockchain journal of scripts/blockchain: the chain and the rules   *)
(* kept in the column family "blockchain", and the bc_* handlers.          *)
(*                                                                         *)
(* A handler runs under the V8 Locker, so handlers never interleave; what  *)
(* can happen between any two of a handler's db.kvPut calls is the end of  *)
(* the process.  Every put is therefore a step of its own, in the order of *)
(* the code, and Crash may take place before each of them.                 *)
(***************************************************************************)
EXTENDS Integers, Sequences, FiniteSets, Functions

CONSTANTS
    Payloads,    \* what callers submit: records [source, dest, amount]
    NewRules,    \* the rules callers submit: records [ruleId, priority]
    NotFinite,   \* an amount that is not a finite number
    NoRequest,   \* no handler is running
    MaxBlocks,   \* bound: length of the chain
    MaxRules,    \* bound: length of the rule list
    MaxClock,    \* bound: number of blocks ever created
    MaxCrashes   \* bound: number of times the process dies

ASSUME BoundsAssumption ==
    /\ MaxBlocks \in Nat \ {0}
    /\ MaxRules \in Nat
    /\ MaxClock \in Nat
    /\ MaxCrashes \in Nat

ASSUME PayloadAssumption ==
    /\ \A p \in Payloads : DOMAIN p = {"source", "dest", "amount"}
    /\ \A r \in NewRules : /\ DOMAIN r = {"ruleId", "priority"}
                           /\ r.priority \in Int

VARIABLES
    chainLength,         \* key chain:length, 0 when absent
    chainBlock,          \* keys chain:block:<i>
    rulesAll,            \* key rules:all
    ruleById,            \* keys rule:<id>
    pc,                  \* the next step of the running handler
    own,                 \* the handler is past ensureInitialized
    request,             \* what the running handler was called with
    chain,               \* the handler's chain
    rules,               \* the handler's rules
    i,                   \* the loop counter of saveChain or saveRules
    transactionCounter,  \* module variable, lost with the process
    clock,               \* new Date(): one tick for each block created
    acked,               \* what bc_addTransaction answered { ok: true } to
    crashes              \* deaths of the process so far

disk   == <<chainLength, chainBlock, rulesAll, ruleById>>
memory == <<pc, own, request, chain, rules, i, transactionCounter>>
vars   == <<disk, memory, clock, acked, crashes>>
-----------------------------------------------------------------------------
(* Blocks and chains.  A digest is the tuple of the hashed fields, which    *)
(* is to say that SHA-256 has no collision.                                 *)

Absent == <<>>      \* "", what db.kvGet returns for a key without a value
Null   == <<>>      \* null, or a variable of a handler that is not running

GenesisPrevious == <<>>      \* the string '0'

CalculateHash(index, previousHash, transactions, timestamp) ==
    <<index, previousHash, transactions, timestamp>>

(* Mutant: the digest is taken before the link to the previous block is set *)
CreateBlockMutant(index, previousHash, transactions, timestamp) ==
    [index        |-> index,
     previousHash |-> previousHash,
     transactions |-> transactions,
     timestamp    |-> timestamp,
     hash         |-> CalculateHash(index, GenesisPrevious, transactions, timestamp)]

CreateBlock(index, previousHash, transactions, timestamp) ==
    [index        |-> index,
     previousHash |-> previousHash,
     transactions |-> transactions,
     timestamp    |-> timestamp,
     hash         |-> CalculateHash(index, previousHash, transactions, timestamp)]

GenesisBlock(timestamp) == CreateBlock(0, GenesisPrevious, <<>>, timestamp)

IsValidChain(c) ==
    /\ c[1].index = 0
    /\ c[1].previousHash = GenesisPrevious
    /\ \A k \in 2..Len(c) :
          /\ c[k].index = c[k - 1].index + 1
          /\ c[k].previousHash = c[k - 1].hash
          /\ c[k].hash = CalculateHash(c[k].index, c[k].previousHash,
                                       c[k].transactions, c[k].timestamp)

TransactionsOf(c) == UNION {Range(c[k].transactions) : k \in DOMAIN c}

(* Mutant: the counter is not brought up to date with the chain *)
LastTransactionIdMutant(c) == 0

(* initializeTransactionCounter: the largest number in use, 0 when none *)
LastTransactionId(c) ==
    LET ids == {t.transactionId : t \in TransactionsOf(c)} IN
    IF ids = {} THEN 0 ELSE CHOOSE n \in ids : \A m \in ids : m <= n

CreateTransaction(n, p) ==
    [transactionId |-> n,
     source        |-> p.source,
     dest          |-> p.dest,
     amount        |-> p.amount]

(* loadChain: null when there is no length or a block is missing *)
LoadChain ==
    IF \E k \in 0..(chainLength - 1) : chainBlock[k] = Absent
    THEN Null
    ELSE [k \in 1..chainLength |-> chainBlock[k - 1]]
-----------------------------------------------------------------------------
(* Rules *)

DefaultRules == << [ruleId |-> "RULE_001", priority |-> 100],
                   [ruleId |-> "RULE_002", priority |-> 50],
                   [ruleId |-> "RULE_003", priority |-> 90] >>

Rules   == Range(DefaultRules) \cup NewRules
RuleIds == {r.ruleId : r \in Rules}

(* Array.prototype.sort by falling priority, which is stable in V8 *)
SortByPriority(rs) ==
    LET Before(k, l) == \/ rs[k].priority > rs[l].priority
                        \/ rs[k].priority = rs[l].priority /\ k < l
        Place(k) == 1 + Cardinality({l \in DOMAIN rs : Before(l, k)})
    IN  [n \in DOMAIN rs |-> rs[CHOOSE k \in DOMAIN rs : Place(k) = n]]
-----------------------------------------------------------------------------
Requests ==
    [op : {"bc_init"}]
        \cup [op : {"bc_addTransaction"}, payload : Payloads]
        \cup [op : {"bc_addRule"}, rule : NewRules]

Init ==
    /\ chainLength = 0
    /\ chainBlock = [k \in 0..(MaxBlocks - 1) |-> Absent]
    /\ rulesAll = Absent
    /\ ruleById = [id \in RuleIds |-> Absent]
    /\ pc = "idle" /\ own = FALSE /\ request = NoRequest
    /\ chain = Null /\ rules = Null /\ i = 0 /\ transactionCounter = 0
    /\ clock = 0 /\ acked = {} /\ crashes = 0

(* A handler starts with ensureInitialized: it loads the chain, and makes   *)
(* a genesis block when loadChain gives null.                               *)
Begin(r) ==
    /\ pc = "idle"
    /\ request' = r
    /\ \/ /\ LoadChain # Null
          /\ chain' = LoadChain
          /\ pc' = "rules"
          /\ UNCHANGED clock
       \/ /\ LoadChain = Null
          /\ clock < MaxClock
          /\ clock' = clock + 1
          /\ chain' = <<GenesisBlock(clock)>>
          /\ pc' = "length"
    /\ UNCHANGED <<disk, own, rules, i, transactionCounter, acked, crashes>>

(* Where a handler goes on after saveChain, and after saveRules *)
ChainSaved == IF own THEN "reply" ELSE "rules"
RulesSaved == IF own THEN "reply" ELSE "own"

(* Mutant: one too many *)
PutLengthMutant ==
    /\ pc = "length"
    /\ chainLength' = Len(chain) + 1
    /\ i' = 0
    /\ pc' = "block"
    /\ UNCHANGED <<chainBlock, rulesAll, ruleById, own, request, chain, rules,
                   transactionCounter, clock, acked, crashes>>

(* saveChain: the length goes first, then every block from the first on *)
PutLength ==
    /\ pc = "length"
    /\ chainLength' = Len(chain)
    /\ i' = 0
    /\ pc' = "block"
    /\ UNCHANGED <<chainBlock, rulesAll, ruleById, own, request, chain, rules,
                   transactionCounter, clock, acked, crashes>>

(* Mutant: the loop stops before the last block *)
PutBlockMutant ==
    /\ pc = "block"
    /\ chainBlock' = [chainBlock EXCEPT ![i] = chain[i + 1]]
    /\ i' = i + 1
    /\ pc' = IF i + 2 < Len(chain) THEN "block" ELSE ChainSaved
    /\ UNCHANGED <<chainLength, rulesAll, ruleById, own, request, chain, rules,
                   transactionCounter, clock, acked, crashes>>

PutBlock ==
    /\ pc = "block"
    /\ chainBlock' = [chainBlock EXCEPT ![i] = chain[i + 1]]
    /\ i' = i + 1
    /\ pc' = IF i + 1 < Len(chain) THEN "block" ELSE ChainSaved
    /\ UNCHANGED <<chainLength, rulesAll, ruleById, own, request, chain, rules,
                   transactionCounter, clock, acked, crashes>>

(* Mutant: the stored rules are not looked at *)
InitRulesMutant ==
    /\ pc = "rules"
    /\ rules' = DefaultRules
    /\ pc' = "rulesAll"
    /\ UNCHANGED <<disk, own, request, chain, i, transactionCounter,
                   clock, acked, crashes>>

(* ensureInitialized, second half: load the rules, or start from the        *)
(* defaults, and take the counter from the chain                            *)
InitRules ==
    /\ pc = "rules"
    /\ \/ /\ rulesAll # Absent
          /\ rules' = rulesAll
          /\ pc' = "own"
       \/ /\ rulesAll = Absent
          /\ rules' = DefaultRules
          /\ pc' = "rulesAll"
    /\ UNCHANGED <<disk, own, request, chain, i, transactionCounter,
                   clock, acked, crashes>>

(* Mutant: the loop over the rules starts one too late *)
PutRulesAllMutant ==
    /\ pc = "rulesAll"
    /\ rulesAll' = rules
    /\ i' = 2
    /\ pc' = "rule"
    /\ UNCHANGED <<chainLength, chainBlock, ruleById, own, request, chain,
                   rules, transactionCounter, clock, acked, crashes>>

(* saveRules: the list first, then one key for each rule *)
PutRulesAll ==
    /\ pc = "rulesAll"
    /\ rulesAll' = rules
    /\ i' = 1
    /\ pc' = "rule"
    /\ UNCHANGED <<chainLength, chainBlock, ruleById, own, request, chain,
                   rules, transactionCounter, clock, acked, crashes>>

PutRule ==
    /\ pc = "rule"
    /\ ruleById' = [ruleById EXCEPT ![rules[i].ruleId] = rules[i]]
    /\ i' = i + 1
    /\ pc' = IF i < Len(rules) THEN "rule" ELSE RulesSaved
    /\ UNCHANGED <<chainLength, chainBlock, rulesAll, own, request, chain,
                   rules, transactionCounter, clock, acked, crashes>>

(* The end of ensureInitialized for a handler that then only reads *)
OwnNothing ==
    /\ pc = "own"
    /\ request.op = "bc_init"
    /\ transactionCounter' = LastTransactionId(chain)
    /\ pc' = "reply"
    /\ own' = TRUE
    /\ UNCHANGED <<disk, request, chain, rules, i, clock, acked, crashes>>

(* bc_addTransaction: number the transaction and append a block *)
OwnAddTransaction ==
    LET n    == LastTransactionId(chain) + 1
        last == chain[Len(chain)]
        tx   == CreateTransaction(n, request.payload)
    IN  /\ pc = "own"
        /\ request.op = "bc_addTransaction"
        /\ request.payload.amount # NotFinite
        /\ IsValidChain(chain)
        /\ Len(chain) < MaxBlocks /\ clock < MaxClock
        /\ transactionCounter' = n
        /\ clock' = clock + 1
        /\ chain' = Append(chain, CreateBlock(last.index + 1, last.hash,
                                              <<tx>>, clock))
        /\ pc' = "length"
        /\ own' = TRUE
        /\ UNCHANGED <<disk, request, rules, i, acked, crashes>>

(* bc_addRule: the new rule joins the list, which is sorted by priority *)
OwnAddRule ==
    /\ pc = "own"
    /\ request.op = "bc_addRule"
    /\ Len(rules) < MaxRules
    /\ transactionCounter' = LastTransactionId(chain)
    /\ rules' = SortByPriority(Append(rules, request.rule))
    /\ pc' = "rulesAll"
    /\ own' = TRUE
    /\ UNCHANGED <<disk, request, chain, i, clock, acked, crashes>>

EndHandler ==
    /\ pc' = "idle" /\ own' = FALSE /\ request' = NoRequest
    /\ chain' = Null /\ rules' = Null /\ i' = 0

(* A handler throws: the amount is not finite, before a number is taken, or *)
(* addBlock refuses the chain it is given, after one was taken.             *)
Throw ==
    /\ pc = "own"
    /\ request.op = "bc_addTransaction"
    /\ \/ /\ request.payload.amount = NotFinite
          /\ transactionCounter' = LastTransactionId(chain)
       \/ /\ request.payload.amount # NotFinite
          /\ ~IsValidChain(chain)
          /\ transactionCounter' = LastTransactionId(chain) + 1
    /\ EndHandler
    /\ UNCHANGED <<disk, clock, acked, crashes>>

Reply ==
    /\ pc = "reply"
    /\ acked' = IF request.op = "bc_addTransaction"
                THEN acked \cup {chain[Len(chain)]}
                ELSE acked
    /\ EndHandler
    /\ UNCHANGED <<disk, transactionCounter, clock, crashes>>

(* The process ends at any moment and starts again: RocksDB keeps the puts  *)
(* made so far, the counter and the handler are gone.                       *)
Crash ==
    /\ crashes < MaxCrashes
    /\ crashes' = crashes + 1
    /\ transactionCounter' = 0
    /\ EndHandler
    /\ UNCHANGED <<disk, clock, acked>>

(* A call that would go over a bound is not made *)
WithinBounds(r) ==
    /\ r.op = "bc_addTransaction" =>
           chainLength < MaxBlocks /\ 1 < MaxBlocks /\ clock + 1 < MaxClock
    /\ r.op = "bc_addRule" =>
           Len(rulesAll) < MaxRules /\ Len(DefaultRules) < MaxRules

Handler ==
    \/ PutLength \/ PutBlock
    \/ InitRules \/ PutRulesAll \/ PutRule
    \/ OwnNothing \/ OwnAddTransaction \/ OwnAddRule
    \/ Throw \/ Reply

Next ==
    \/ \E r \in Requests : WithinBounds(r) /\ Begin(r)
    \/ Handler
    \/ Crash

Spec == Init /\ [][Next]_vars
-----------------------------------------------------------------------------
(* Properties *)

Block(b) == /\ b.index \in Nat
            /\ \A t \in Range(b.transactions) : t.transactionId \in Nat

(* The types of the variables: the keys of the column family, the handler's *)
(* copies of the chain and the rules, and the control state.                *)
TypeOK ==
    /\ chainLength \in 0..MaxBlocks
    /\ DOMAIN chainBlock = 0..(MaxBlocks - 1)
    /\ \A k \in DOMAIN chainBlock : chainBlock[k] # Absent => Block(chainBlock[k])
    /\ rulesAll \in Seq(Rules)
    /\ ruleById \in [RuleIds -> Rules \cup {Absent}]
    /\ pc \in {"idle", "length", "block", "rules", "rulesAll", "rule", "own", "reply"}
    /\ own \in BOOLEAN
    /\ request \in Requests \cup {NoRequest}
    /\ chain \in Seq(Range(chain)) /\ Len(chain) <= MaxBlocks
    /\ \A k \in DOMAIN chain : Block(chain[k])
    /\ rules \in Seq(Rules)
    /\ i \in Nat /\ transactionCounter \in Nat /\ clock \in Nat /\ crashes \in Nat

(* Whatever the process survived, no two transactions of a chain that       *)
(* loadChain accepts have the same id (the counter is not stored: it is     *)
(* recomputed from the chain by every handler).                             *)
UniqueTransactionIds ==
    LET c == LoadChain IN
    \A k, l \in DOMAIN c : \A s \in Range(c[k].transactions) :
        \A t \in Range(c[l].transactions) :
            s.transactionId = t.transactionId => k = l

(* What a handler is about to answer is on disk: the next handler loads      *)
(* exactly this one's chain, a valid one if bc_addTransaction extended it.   *)
ReplyIsDurable ==
    pc = "reply" => /\ LoadChain = chain
                    /\ request.op = "bc_addTransaction" => IsValidChain(chain)

(* As long as the process dies at most once, a handler that finds a chain   *)
(* finds a valid one, so that addBlock accepts it.                          *)
ValidAfterOneCrash ==
    pc = "idle" /\ crashes <= 1 /\ LoadChain # Null => IsValidChain(LoadChain)

(* A transaction bc_addTransaction acknowledged is in the chain that every  *)
(* later handler loads ("immutable", README.md).                            *)
AcknowledgedIsKept ==
    pc = "idle" => acked \subseteq Range(LoadChain)

(* Without a crash, rule:<id> holds a rule of rules:all with that id; of    *)
(* several with one id, the last in the order of the list.                  *)
RuleLookupAgrees ==
    pc = "idle" /\ crashes = 0 =>
        \A id \in RuleIds :
            LET at == {k \in DOMAIN rulesAll : rulesAll[k].ruleId = id} IN
            IF at = {} THEN ruleById[id] = Absent
            ELSE \E k \in at : (\A l \in at : l <= k) /\ ruleById[id] = rulesAll[k]

(* The rule list is one key, so no crash can lose a rule that was added: a  *)
(* list is only ever replaced by one with the same rules and at most one    *)
(* more, in order of priority.                                              *)
RulesOnlyGrow ==
    [][ rulesAll # Absent =>
          /\ \A r \in Rules : Cardinality({k \in DOMAIN rulesAll : rulesAll[k] = r})
                <= Cardinality({k \in DOMAIN rulesAll' : rulesAll'[k] = r})
          /\ rulesAll' # rulesAll =>
                /\ Len(rulesAll') = Len(rulesAll) + 1
                /\ \A k \in 2..Len(rulesAll') :
                      rulesAll'[k].priority <= rulesAll'[k - 1].priority
      ]_rulesAll
-----------------------------------------------------------------------------
(* The inductive invariant behind UniqueTransactionIds: wherever a block    *)
(* may be found, its position gives its index and the one id in it.         *)

Numbered(b, k) ==
    /\ b.index = k
    /\ DOMAIN b.transactions = IF k = 0 THEN {} ELSE {1}
    /\ k # 0 => b.transactions[1].transactionId = k

NumberedChain(c) == \A k \in DOMAIN c : Numbered(c[k], k - 1)

NumberingInv ==
    /\ chainLength \in 0..MaxBlocks
    /\ DOMAIN chainBlock = 0..(MaxBlocks - 1)
    /\ \A k \in DOMAIN chainBlock :
          chainBlock[k] # Absent => Numbered(chainBlock[k], k)
    /\ chain \in Seq(Range(chain))
    /\ Len(chain) <= MaxBlocks
    /\ NumberedChain(chain)
    /\ pc # "idle" => Len(chain) > 0
    /\ pc = "block" => i \in 0..(Len(chain) - 1)
-----------------------------------------------------------------------------
(* Without crashes the journal is the append-only one of ImmutableLedger.   *)
(* A block counts from the put that makes the chain complete again.         *)

Committed ==
    CASE pc = "idle"                             -> LoadChain
      [] own /\ pc \in {"length", "block"}       -> SubSeq(chain, 1, Len(chain) - 1)
      [] pc # "idle" /\ ~(own /\ pc \in {"length", "block"}) -> chain

Entries == IF Len(Committed) < 2 THEN <<>>
           ELSE [k \in 1..(Len(Committed) - 1) |-> Committed[k + 1].transactions[1]]

Abstract == INSTANCE ImmutableLedger
              WITH entries <- Entries,
                   acknowledged <- UNION {Range(b.transactions) : b \in acked}

ImplementsImmutableLedger == Abstract!Spec
=============================================================================
