----------------------- MODULE BlockchainLedgerProofs -----------------------
(***************************************************************************)
(* Theorems about BlockchainLedger: for every set of payloads, every bound *)
(* and every number of crashes, block and transaction numbers are          *)
(* positions, so that transaction ids are unique in any chain on disk;     *)
(* sorting by priority permutes the list of rules, so that a list on disk  *)
(* only ever grows, and rule:<id> agrees with rules:all until the process  *)
(* dies; the types of all variables; an answer is given only for what the  *)
(* next handler will load, one crash leaves a valid chain or none, and     *)
(* without a crash the journal is ImmutableLedger.                         *)
(***************************************************************************)
EXTENDS BlockchainLedger, SequenceTheorems, FiniteSetTheorems, TLAPS

(* A sequence is a sequence over its own elements. *)
LEMMA OverOwnElements ==
    ASSUME NEW S, NEW s \in Seq(S)
    PROVE  s \in Seq(Range(s))
<1>1. s \in [1..Len(s) -> Range(s)] /\ Len(s) \in Nat
    BY LenProperties DEF Range
<1>2. QED
    BY <1>1, SeqDef

(* Two intervals from 1 with the same elements have the same end. *)
LEMMA IntervalEnd ==
    ASSUME NEW n \in Nat, NEW m \in Nat, 1..n = 1..m
    PROVE  n = m
<1>1. n = 0 \/ n \in 1..m
    OBVIOUS
<1>2. m = 0 \/ m \in 1..n
    OBVIOUS
<1>3. QED
    BY <1>1, <1>2

(* What addBlock's concat gives. *)
LEMMA AppendElement ==
    ASSUME NEW s, s \in Seq(Range(s)), NEW e
    PROVE  /\ Append(s, e) \in Seq(Range(Append(s, e)))
           /\ Len(Append(s, e)) = Len(s) + 1
           /\ \A k \in 1..Len(s) : Append(s, e)[k] = s[k]
           /\ Append(s, e)[Len(s) + 1] = e
<1> DEFINE S == Range(s) \cup {e}
<1>1. s \in Seq(S) /\ e \in S
    BY SeqMonotonic
<1>2. /\ Append(s, e) \in Seq(S)
      /\ Len(Append(s, e)) = Len(s) + 1
      /\ \A k \in 1..Len(s) : Append(s, e)[k] = s[k]
      /\ Append(s, e)[Len(s) + 1] = e
    <2> HIDE DEF S
    <2> QED BY <1>1, AppendProperties
<1>3. Append(s, e) \in Seq(Range(Append(s, e)))
    <2> HIDE DEF S
    <2> QED BY <1>2, OverOwnElements
<1>4. QED
    BY <1>2, <1>3

(* The ids of a numbered chain are 1 .. Len(c) - 1. *)
LEMMA NumberedIds ==
    ASSUME NEW c, c \in Seq(Range(c)), NumberedChain(c)
    PROVE  {t.transactionId : t \in TransactionsOf(c)} = 1..(Len(c) - 1)
<1>1. Len(c) \in Nat /\ DOMAIN c = 1..Len(c)
    BY LenProperties
<1>2. ASSUME NEW t \in TransactionsOf(c)
      PROVE  t.transactionId \in 1..(Len(c) - 1)
    <2>1. PICK k \in DOMAIN c : t \in Range(c[k].transactions)
        BY DEF TransactionsOf
    <2>2. Numbered(c[k], k - 1) /\ k \in 1..Len(c)
        BY <1>1, <2>1 DEF NumberedChain
    <2>3. k - 1 # 0 /\ t = c[k].transactions[1]
        BY <2>1, <2>2 DEF Numbered, Range
    <2>4. QED
        BY <1>1, <2>2, <2>3 DEF Numbered
<1>3. ASSUME NEW n \in 1..(Len(c) - 1)
      PROVE  \E t \in TransactionsOf(c) : t.transactionId = n
    <2>1. n + 1 \in DOMAIN c /\ (n + 1) - 1 = n /\ n # 0
        BY <1>1
    <2>2. Numbered(c[n + 1], n)
        BY <2>1 DEF NumberedChain
    <2>3. /\ c[n + 1].transactions[1] \in Range(c[n + 1].transactions)
          /\ c[n + 1].transactions[1].transactionId = n
        BY <2>1, <2>2 DEF Numbered, Range
    <2>4. QED
        BY <2>1, <2>3 DEF TransactionsOf
<1>4. QED
    BY <1>2, <1>3

(* initializeTransactionCounter finds the number of the last block. *)
LEMMA LastIdIsLastPosition ==
    ASSUME NEW c, c \in Seq(Range(c)), NumberedChain(c), Len(c) > 0
    PROVE  LastTransactionId(c) = Len(c) - 1
<1>1. Len(c) \in Nat
    BY LenProperties
<1> DEFINE ids == {t.transactionId : t \in TransactionsOf(c)}
           m   == CHOOSE n \in ids : \A l \in ids : l <= n
<1>2. ids = 1..(Len(c) - 1)
    BY NumberedIds
<1>3. LastTransactionId(c) = IF ids = {} THEN 0 ELSE m
    BY DEF LastTransactionId
<1> HIDE DEF ids
<1>4. CASE Len(c) = 1
    BY <1>2, <1>3, <1>4
<1>5. CASE Len(c) > 1
    <2>1. Len(c) - 1 \in ids /\ \A l \in ids : l <= Len(c) - 1
        BY <1>1, <1>2, <1>5
    <2>2. m \in ids /\ \A l \in ids : l <= m
        BY <2>1
    <2>3. ids # {} /\ m \in Nat /\ m <= Len(c) - 1 /\ Len(c) - 1 <= m
        BY <1>1, <1>2, <2>1, <2>2
    <2> HIDE DEF m
    <2>4. QED
        BY <1>1, <1>3, <2>3
<1>6. Len(c) = 1 \/ Len(c) > 1
    BY <1>1
<1>7. QED
    BY <1>4, <1>5, <1>6

(* A chain loadChain accepts is a numbered one. *)
LEMMA LoadedIsNumbered ==
    ASSUME NumberingInv, LoadChain # Null
    PROVE  /\ LoadChain \in Seq(Range(LoadChain))
           /\ Len(LoadChain) = chainLength
           /\ chainLength > 0
           /\ NumberedChain(LoadChain)
<1>1. chainLength \in Nat /\ chainLength \in 0..MaxBlocks
    BY BoundsAssumption DEF NumberingInv
<1>2. /\ \A k \in 0..(chainLength - 1) : chainBlock[k] # Absent
      /\ LoadChain = [k \in 1..chainLength |-> chainBlock[k - 1]]
    BY DEF LoadChain
<1>3. LoadChain \in [1..chainLength -> Range(LoadChain)]
    BY <1>2 DEF Range
<1>4. LoadChain \in Seq(Range(LoadChain)) /\ Len(LoadChain) = chainLength
    <2> DEFINE S == Range(LoadChain)
    <2> HIDE DEF S
    <2>1. LoadChain \in [1..chainLength -> S]
        BY <1>3 DEF S
    <2>2. LoadChain \in Seq(S)
        BY <1>1, <2>1, SeqDef
    <2>3. Len(LoadChain) \in Nat /\ DOMAIN LoadChain = 1..Len(LoadChain)
        BY <2>2, LenProperties
    <2>4. 1..Len(LoadChain) = 1..chainLength
        BY <2>1, <2>3
    <2>5. Len(LoadChain) = chainLength
        BY <1>1, <2>3, <2>4, IntervalEnd
    <2>6. QED
        BY <2>2, <2>5 DEF S
<1>5. chainLength > 0
    <2>1. SUFFICES ASSUME chainLength = 0 PROVE FALSE
        BY <1>1
    <2>2. LoadChain = << >>
        BY <1>4, <2>1, EmptySeq
    <2>3. QED
        BY <2>2 DEF Null
<1>6. NumberedChain(LoadChain)
    <2>1. SUFFICES ASSUME NEW k \in 1..chainLength
                   PROVE  Numbered(chainBlock[k - 1], k - 1)
        BY <1>2 DEF NumberedChain
    <2>2. k - 1 \in 0..(chainLength - 1) /\ k - 1 \in DOMAIN chainBlock
        BY <1>1, BoundsAssumption DEF NumberingInv
    <2>3. QED
        BY <1>2, <2>2 DEF NumberingInv
<1>7. QED
    BY <1>4, <1>5, <1>6

(* The numbering holds initially. *)
LEMMA InitNumbering == Init => NumberingInv
<1>1. ASSUME Init PROVE NumberingInv
    <2>1. chain = << >> /\ chain \in Seq(Range(chain)) /\ Len(chain) = 0
        BY <1>1, EmptySeq DEF Init, Null
    <2>2. NumberedChain(chain)
        BY <2>1 DEF NumberedChain
    <2>3. QED
        BY <1>1, <2>1, <2>2, BoundsAssumption DEF Init, NumberingInv
<1>2. QED
    BY <1>1

(* A handler that ends leaves an empty chain variable. *)
LEMMA EndNumbering ==
    ASSUME NumberingInv, EndHandler, UNCHANGED disk
    PROVE  NumberingInv'
<1>1. chain' = << >> /\ chain' \in Seq(Range(chain')) /\ Len(chain') = 0
    BY EmptySeq DEF EndHandler, Null
<1>2. NumberedChain(chain')
    BY <1>1 DEF NumberedChain
<1>3. QED
    BY <1>1, <1>2, BoundsAssumption DEF EndHandler, disk, NumberingInv

(* The genesis block starts a numbered chain. *)
LEMMA GenesisIsNumbered ==
    ASSUME NEW t
    PROVE  /\ <<GenesisBlock(t)>> \in Seq(Range(<<GenesisBlock(t)>>))
           /\ Len(<<GenesisBlock(t)>>) = 1
           /\ NumberedChain(<<GenesisBlock(t)>>)
<1> DEFINE b == GenesisBlock(t)
<1>1. Numbered(b, 0)
    BY DEF Numbered, GenesisBlock, CreateBlock
<1> HIDE DEF b
<1>2. <<b>> \in Seq({b}) /\ Len(<<b>>) = 1 /\ DOMAIN <<b>> = {1} /\ <<b>>[1] = b
    OBVIOUS
<1>3. <<b>> \in Seq(Range(<<b>>))
    BY <1>2, OverOwnElements
<1>4. NumberedChain(<<b>>)
    BY <1>1, <1>2 DEF NumberedChain
<1>5. QED
    BY <1>2, <1>3, <1>4 DEF b

(* Every step keeps the numbering. *)
LEMMA StepNumbering ==
    ASSUME NumberingInv, [Next]_vars
    PROVE  NumberingInv'
<1> USE BoundsAssumption
<1>1. ASSUME NEW r \in Requests, Begin(r)
      PROVE  NumberingInv'
    <2>1. CASE LoadChain # Null /\ chain' = LoadChain /\ pc' = "rules"
        <3>1. /\ chain' \in Seq(Range(chain')) /\ NumberedChain(chain')
              /\ Len(chain') = chainLength /\ chainLength > 0
            BY <2>1, LoadedIsNumbered
        <3>2. QED
            BY <1>1, <2>1, <3>1 DEF Begin, disk, NumberingInv
    <2>2. CASE chain' = <<GenesisBlock(clock)>> /\ pc' = "length"
        <3>1. /\ chain' \in Seq(Range(chain')) /\ NumberedChain(chain')
              /\ Len(chain') = 1
            BY <2>2, GenesisIsNumbered
        <3>2. QED
            BY <1>1, <2>2, <3>1 DEF Begin, disk, NumberingInv
    <2>3. QED
        BY <1>1, <2>1, <2>2 DEF Begin
<1>2. ASSUME PutLength
      PROVE  NumberingInv'
    <2>1. Len(chain) \in Nat
        BY LenProperties DEF NumberingInv
    <2>2. QED
        BY <1>2, <2>1 DEF PutLength, NumberingInv, NumberedChain
<1>3. ASSUME PutBlock
      PROVE  NumberingInv'
    <2>1. /\ Len(chain) \in Nat /\ DOMAIN chain = 1..Len(chain)
          /\ i \in 0..(Len(chain) - 1)
        BY <1>3, LenProperties DEF PutBlock, NumberingInv
    <2>2. i + 1 \in DOMAIN chain /\ (i + 1) - 1 = i
        BY <2>1
    <2>3. Numbered(chain[i + 1], i)
        BY <2>2 DEF NumberingInv, NumberedChain
    <2>4. \A k \in DOMAIN chainBlock' :
             chainBlock'[k] # Absent => Numbered(chainBlock'[k], k)
        BY <1>3, <2>3 DEF PutBlock, NumberingInv
    <2>5. pc' = "block" => i' \in 0..(Len(chain) - 1)
        BY <1>3, <2>1 DEF PutBlock, ChainSaved
    <2>6. QED
        BY <1>3, <2>4, <2>5 DEF PutBlock, NumberingInv, NumberedChain
<1>4. ASSUME OwnAddTransaction
      PROVE  NumberingInv'
    <2> DEFINE last == chain[Len(chain)]
               tx   == CreateTransaction(LastTransactionId(chain) + 1, request.payload)
               b    == CreateBlock(last.index + 1, last.hash, <<tx>>, clock)
    <2>1. /\ Len(chain) \in Nat /\ DOMAIN chain = 1..Len(chain)
          /\ Len(chain) > 0 /\ Len(chain) < MaxBlocks
          /\ chain \in Seq(Range(chain)) /\ NumberedChain(chain)
        BY <1>4, LenProperties DEF OwnAddTransaction, NumberingInv
    <2>2. last.index = Len(chain) - 1
        BY <2>1 DEF NumberedChain, Numbered
    <2>3. tx.transactionId = Len(chain)
        BY <2>1, LastIdIsLastPosition DEF CreateTransaction
    <2>4. Numbered(b, Len(chain))
        <3> HIDE DEF tx, last
        <3>1. b.index = Len(chain) /\ b.transactions = <<tx>>
            BY <2>1, <2>2 DEF CreateBlock
        <3>2. QED
            BY <2>1, <2>3, <3>1 DEF Numbered
    <2>5. chain' = Append(chain, b) /\ pc' = "length"
          /\ UNCHANGED <<chainLength, chainBlock>>
        BY <1>4 DEF OwnAddTransaction, disk
    <2> HIDE DEF b
    <2>6. /\ chain' \in Seq(Range(chain'))
          /\ Len(chain') = Len(chain) + 1
          /\ \A k \in 1..Len(chain) : chain'[k] = chain[k]
          /\ chain'[Len(chain) + 1] = b
        BY <2>1, <2>5, AppendElement
    <2>7. NumberedChain(chain')
        <3>1. DOMAIN chain' = 1..(Len(chain) + 1)
            BY <2>6, LenProperties
        <3>2. SUFFICES ASSUME NEW k \in 1..(Len(chain) + 1)
                       PROVE  Numbered(chain'[k], k - 1)
            BY <3>1 DEF NumberedChain
        <3>3. CASE k \in 1..Len(chain)
            BY <2>1, <2>6, <3>3 DEF NumberedChain
        <3>4. CASE k = Len(chain) + 1
            BY <2>1, <2>4, <2>6, <3>4
        <3>5. QED
            BY <2>1, <3>3, <3>4
    <2>8. QED
        BY <2>1, <2>5, <2>6, <2>7 DEF NumberingInv
<1>5. ASSUME InitRules \/ PutRulesAll \/ PutRule \/ OwnNothing \/ OwnAddRule
      PROVE  NumberingInv'
    <2>1. UNCHANGED <<chainLength, chainBlock, chain>> /\ pc # "idle" /\ pc' # "block"
        BY <1>5 DEF InitRules, PutRulesAll, PutRule, OwnNothing, OwnAddRule,
                    RulesSaved, disk
    <2>2. QED
        BY <2>1 DEF NumberingInv, NumberedChain
<1>6. ASSUME Throw \/ Reply \/ Crash
      PROVE  NumberingInv'
    BY <1>6, EndNumbering DEF Throw, Reply, Crash
<1>7. CASE UNCHANGED vars
    BY <1>7 DEF vars, disk, memory, NumberingInv, NumberedChain
<1>8. QED
    BY <1>1, <1>2, <1>3, <1>4, <1>5, <1>6, <1>7 DEF Next, Handler

(* NumberingInv is an invariant, crashes included. *)
THEOREM Numbering == Spec => []NumberingInv
<1>1. Init => NumberingInv
    BY InitNumbering
<1>2. NumberingInv /\ [Next]_vars => NumberingInv'
    BY StepNumbering
<1>3. QED
    BY <1>1, <1>2, PTL DEF Spec

(* Two transactions of a chain that loadChain accepts never share an id,    *)
(* although the counter is volatile and any put may be the last one.        *)
THEOREM TransactionIdsAreUnique == Spec => []UniqueTransactionIds
<1>1. ASSUME NumberingInv
      PROVE  UniqueTransactionIds
    <2>1. SUFFICES ASSUME NEW k \in DOMAIN LoadChain, NEW l \in DOMAIN LoadChain,
                          NEW s \in Range(LoadChain[k].transactions),
                          NEW t \in Range(LoadChain[l].transactions),
                          s.transactionId = t.transactionId
                   PROVE  k = l
        BY DEF UniqueTransactionIds
    <2>2. LoadChain # Null
        BY <2>1 DEF Null
    <2>3. /\ LoadChain \in Seq(Range(LoadChain))
          /\ NumberedChain(LoadChain)
        BY <1>1, <2>2, LoadedIsNumbered
    <2>4. k \in Nat /\ l \in Nat
        BY <2>3, LenProperties
    <2>5. Numbered(LoadChain[k], k - 1) /\ Numbered(LoadChain[l], l - 1)
        BY <2>3 DEF NumberedChain
    <2>6. s.transactionId = k - 1
        BY <2>5 DEF Numbered, Range
    <2>7. t.transactionId = l - 1
        BY <2>5 DEF Numbered, Range
    <2>8. k - 1 = l - 1
        BY <2>1, <2>6, <2>7
    <2>9. QED
        BY <2>4, <2>8
<1>2. QED
    BY <1>1, Numbering, PTL
-----------------------------------------------------------------------------
(* The rules and the types *)

(* The default rules and those of callers have a priority. *)
LEMMA RulesHavePriority ==
    /\ DefaultRules \in Seq(Rules) /\ Len(DefaultRules) = 3
    /\ \A r \in Rules : r.priority \in Int /\ r.ruleId \in RuleIds
<1> DEFINE a == [ruleId |-> "RULE_001", priority |-> 100]
           b == [ruleId |-> "RULE_002", priority |-> 50]
           c == [ruleId |-> "RULE_003", priority |-> 90]
<1>1. a.priority \in Int /\ b.priority \in Int /\ c.priority \in Int
    OBVIOUS
<1>2. DefaultRules = <<a, b, c>>
    BY DEF DefaultRules
<1> HIDE DEF a, b, c
<1>3. /\ DefaultRules \in Seq({a, b, c}) /\ Len(DefaultRules) = 3
      /\ DOMAIN DefaultRules = 1..3
      /\ DefaultRules[1] = a /\ DefaultRules[2] = b /\ DefaultRules[3] = c
    BY <1>2
<1>4. DefaultRules \in Seq(Range(DefaultRules))
    BY <1>3, OverOwnElements
<1>5. DefaultRules \in Seq(Rules)
    <2>1. Range(DefaultRules) \subseteq Rules
        BY DEF Rules
    <2> QED
        BY <1>4, <2>1, SeqMonotonic
<1>6. \A r \in Range(DefaultRules) : r.priority \in Int
    BY <1>1, <1>3 DEF Range
<1> QED
    BY <1>3, <1>5, <1>6, PayloadAssumption DEF Rules, RuleIds

(* The order of Array.prototype.sort, and the position it gives a rule *)
Before(rs, k, l) ==
    \/ rs[k].priority > rs[l].priority
    \/ rs[k].priority = rs[l].priority /\ k < l

Ahead(rs, k) == {l \in DOMAIN rs : Before(rs, l, k)}

PlaceOf(rs, k) == 1 + Cardinality(Ahead(rs, k))

(* Every position of the sorted list belongs to exactly one rule. *)
LEMMA PlacesPermute ==
    ASSUME NEW rs \in Seq(Rules)
    PROVE  /\ \A k \in DOMAIN rs : PlaceOf(rs, k) \in DOMAIN rs
           /\ \A k, l \in DOMAIN rs : Before(rs, k, l) => PlaceOf(rs, k) < PlaceOf(rs, l)
           /\ \A k, l \in DOMAIN rs : PlaceOf(rs, k) = PlaceOf(rs, l) => k = l
           /\ \A n \in DOMAIN rs : \E k \in DOMAIN rs : PlaceOf(rs, k) = n
<1> DEFINE D == DOMAIN rs
           n == Len(rs)
<1>1. /\ n \in Nat /\ D = 1..n
      /\ \A k \in D : rs[k].priority \in Int
    BY LenProperties, ElementOfSeq, RulesHavePriority
<1> HIDE DEF D, n
<1>2. IsFiniteSet(D) /\ Cardinality(D) = n
    <2>1. 1 \in Int /\ n \in Int
        BY <1>1
    <2>2. IsFiniteSet(1..n) /\ Cardinality(1..n) = IF 1 > n THEN 0 ELSE n - 1 + 1
        BY <2>1, FS_Interval
    <2> QED
        BY <1>1, <2>2
<1>3. ASSUME NEW k \in D
      PROVE  /\ Ahead(rs, k) \subseteq D \ {k}
             /\ IsFiniteSet(Ahead(rs, k))
             /\ Cardinality(Ahead(rs, k)) \in 0..(n - 1)
    <2>1. Ahead(rs, k) \subseteq D \ {k}
        BY <1>1 DEF Ahead, Before, D
    <2>2. IsFiniteSet(D \ {k}) /\ Cardinality(D \ {k}) = n - 1
        BY <1>2, FS_RemoveElement
    <2>3. IsFiniteSet(Ahead(rs, k)) /\ Cardinality(Ahead(rs, k)) <= n - 1
        BY <2>1, <2>2, FS_Subset
    <2>4. Cardinality(Ahead(rs, k)) \in Nat
        BY <2>3, FS_CardinalityType
    <2> QED
        BY <1>1, <2>1, <2>3, <2>4
<1>4. \A k \in D : PlaceOf(rs, k) \in D
    BY <1>1, <1>3 DEF PlaceOf
<1>5. ASSUME NEW k \in D, NEW l \in D, Before(rs, k, l)
      PROVE  PlaceOf(rs, k) < PlaceOf(rs, l)
    <2>1. Ahead(rs, k) \subseteq Ahead(rs, l)
        BY <1>1, <1>5 DEF Ahead, Before, D
    <2>2. k \in Ahead(rs, l) /\ k \notin Ahead(rs, k)
        BY <1>3, <1>5 DEF Ahead, D
    <2>3. /\ Cardinality(Ahead(rs, k)) <= Cardinality(Ahead(rs, l))
          /\ Cardinality(Ahead(rs, k)) # Cardinality(Ahead(rs, l))
        BY <1>3, <2>1, <2>2, FS_Subset
    <2>4. Cardinality(Ahead(rs, k)) \in Int /\ Cardinality(Ahead(rs, l)) \in Int
        BY <1>3
    <2> QED
        BY <2>3, <2>4 DEF PlaceOf
<1>6. ASSUME NEW k \in D, NEW l \in D, PlaceOf(rs, k) = PlaceOf(rs, l)
      PROVE  k = l
    <2>1. PlaceOf(rs, k) \in Int /\ PlaceOf(rs, l) \in Int
        BY <1>1, <1>4
    <2>2. ~Before(rs, k, l) /\ ~Before(rs, l, k)
        BY <1>5, <1>6, <2>1
    <2> QED
        BY <1>1, <2>2 DEF Before
<1>7. ASSUME NEW m \in D
      PROVE  \E k \in D : PlaceOf(rs, k) = m
    <2> DEFINE f == [k \in D |-> PlaceOf(rs, k)]
    <2>1. f \in Injection(D, D)
        BY <1>4, <1>6 DEF Injection, IsInjective
    <2>2. f \in Surjection(D, D)
        BY <1>2, <2>1, FS_Injection
    <2>3. PICK k \in D : f[k] = m
        BY <2>2 DEF Surjection
    <2> QED
        BY <2>3
<1> QED
    BY <1>4, <1>5, <1>6, <1>7 DEF D

(* The list sorted by priority has the same rules, as often as before, in   *)
(* the order of their priorities.                                           *)
LEMMA SortingPermutes ==
    ASSUME NEW rs \in Seq(Rules)
    PROVE  /\ SortByPriority(rs) \in Seq(Rules)
           /\ Len(SortByPriority(rs)) = Len(rs)
           /\ \A k \in DOMAIN rs : \E n \in DOMAIN SortByPriority(rs) : SortByPriority(rs)[n] = rs[k]
           /\ \A k \in 2..Len(rs) : SortByPriority(rs)[k].priority <= SortByPriority(rs)[k - 1].priority
           /\ \A r \in Rules : Cardinality({k \in DOMAIN rs : rs[k] = r})
                 <= Cardinality({k \in DOMAIN SortByPriority(rs) : SortByPriority(rs)[k] = r})
<1> DEFINE D == DOMAIN rs
           at(n) == CHOOSE k \in D : PlaceOf(rs, k) = n
           s == SortByPriority(rs)
<1>1. /\ Len(rs) \in Nat /\ D = 1..Len(rs)
      /\ \A k \in D : rs[k] \in Rules /\ rs[k].priority \in Int
    BY LenProperties, ElementOfSeq, RulesHavePriority
<1>2. s = [n \in D |-> rs[at(n)]]
    BY DEF SortByPriority, PlaceOf, Ahead, Before
<1> HIDE DEF s, D
<1>3. \A n \in D : at(n) \in D /\ PlaceOf(rs, at(n)) = n
    BY PlacesPermute DEF D
<1>4. \A k \in D : PlaceOf(rs, k) \in D /\ at(PlaceOf(rs, k)) = k
    <2>1. TAKE k \in D
    <2>2. PlaceOf(rs, k) \in D
        BY PlacesPermute DEF D
    <2>3. at(PlaceOf(rs, k)) \in D /\ PlaceOf(rs, at(PlaceOf(rs, k))) = PlaceOf(rs, k)
        BY <1>3, <2>2
    <2> QED
        BY <2>2, <2>3, PlacesPermute DEF D
<1> HIDE DEF at
<1>5. s \in Seq(Rules) /\ Len(s) = Len(rs) /\ DOMAIN s = D
    <2>1. s \in [1..Len(rs) -> Rules]
        BY <1>1, <1>2, <1>3
    <2>2. s \in Seq(Rules)
        BY <1>1, <2>1, SeqDef
    <2>3. Len(s) \in Nat /\ 1..Len(s) = 1..Len(rs)
        BY <2>1, <2>2, LenProperties
    <2> QED
        BY <1>1, <1>2, <2>2, <2>3, IntervalEnd
<1>6. \A k \in D : PlaceOf(rs, k) \in D /\ s[PlaceOf(rs, k)] = rs[k]
    BY <1>2, <1>4
<1>7. ASSUME NEW k \in 2..Len(rs)
      PROVE  s[k].priority <= s[k - 1].priority
    <2>1. k \in D /\ k - 1 \in D /\ k - 1 < k /\ k \in Int
        BY <1>1
    <2>2. /\ at(k) \in D /\ at(k - 1) \in D
          /\ PlaceOf(rs, at(k)) = k /\ PlaceOf(rs, at(k - 1)) = k - 1
        BY <1>3, <2>1
    <2>3. ~Before(rs, at(k), at(k - 1))
        <3>1. ~(k < k - 1)
            BY <2>1
        <3> QED
            BY <2>2, <3>1, PlacesPermute DEF D
    <2>4. s[k] = rs[at(k)] /\ s[k - 1] = rs[at(k - 1)]
        BY <1>2, <2>1
    <2> QED
        BY <1>1, <2>2, <2>3, <2>4 DEF Before
<1>8. ASSUME NEW r \in Rules
      PROVE  Cardinality({k \in D : rs[k] = r}) <= Cardinality({k \in D : s[k] = r})
    <2> DEFINE A == {k \in D : rs[k] = r}
               B == {k \in D : s[k] = r}
               f == [k \in A |-> PlaceOf(rs, k)]
    <2>1. IsFiniteSet(D)
        BY <1>1, FS_Interval
    <2>2. IsFiniteSet(B)
        BY <2>1, FS_Subset
    <2>3. f \in [A -> B]
        BY <1>6
    <2>4. \A k, l \in A : f[k] = f[l] => k = l
        BY PlacesPermute DEF D
    <2>5. f \in Injection(A, B)
        BY <2>3, <2>4 DEF Injection, IsInjective
    <2> HIDE DEF A, B, f
    <2>6. Cardinality(A) <= Cardinality(B)
        BY <2>2, <2>5, FS_Injection
    <2> QED
        BY <2>6 DEF A, B
<1> QED
    BY <1>5, <1>6, <1>7, <1>8 DEF s, D
-----------------------------------------------------------------------------
(* A list that has a rule more than another, and is in order *)
Grown(old, new) ==
    /\ Len(new) = Len(old) + 1
    /\ \A r \in Rules : Cardinality({k \in DOMAIN old : old[k] = r})
                           <= Cardinality({k \in DOMAIN new : new[k] = r})
    /\ \A k \in DOMAIN old : \E n \in DOMAIN new : new[n] = old[k]
    /\ \A k \in 2..Len(new) : new[k].priority <= new[k - 1].priority

(* What bc_addRule saves has grown. *)
LEMMA AddedRuleGrows ==
    ASSUME NEW old \in Seq(Rules), NEW rule \in Rules
    PROVE  /\ SortByPriority(Append(old, rule)) \in Seq(Rules)
           /\ Grown(old, SortByPriority(Append(old, rule)))
<1> DEFINE all == Append(old, rule)
           new == SortByPriority(all)
<1>1. /\ all \in Seq(Rules) /\ Len(all) = Len(old) + 1
      /\ \A k \in 1..Len(old) : all[k] = old[k]
    BY AppendProperties
<1>2. /\ Len(old) \in Nat /\ DOMAIN old = 1..Len(old)
      /\ DOMAIN all = 1..(Len(old) + 1)
      /\ DOMAIN old \subseteq DOMAIN all
    BY <1>1, LenProperties
<1> HIDE DEF all
<1>3. /\ new \in Seq(Rules)
      /\ Len(new) = Len(all)
      /\ \A k \in DOMAIN all : \E n \in DOMAIN new : new[n] = all[k]
      /\ \A k \in 2..Len(all) : new[k].priority <= new[k - 1].priority
      /\ \A r \in Rules : Cardinality({k \in DOMAIN all : all[k] = r})
            <= Cardinality({k \in DOMAIN new : new[k] = r})
    BY <1>1, SortingPermutes
<1> HIDE DEF new
<1>4. ASSUME NEW r \in Rules
      PROVE  Cardinality({k \in DOMAIN old : old[k] = r})
                <= Cardinality({k \in DOMAIN new : new[k] = r})
    <2> DEFINE A == {k \in DOMAIN old : old[k] = r}
               B == {k \in DOMAIN all : all[k] = r}
               C == {k \in DOMAIN new : new[k] = r}
    <2>1. A \subseteq B
        BY <1>1, <1>2
    <2>2. IsFiniteSet(B) /\ IsFiniteSet(C)
        <3>1. IsFiniteSet(DOMAIN all)
            BY <1>2, FS_Interval
        <3>2. IsFiniteSet(DOMAIN new)
            <4>1. Len(new) \in Int /\ DOMAIN new = 1..Len(new)
                BY <1>3, LenProperties
            <4> QED
                BY <4>1, FS_Interval
        <3> QED
            BY <3>1, <3>2, FS_Subset
    <2>3. Cardinality(B) <= Cardinality(C)
        BY <1>3
    <2> HIDE DEF A, B, C
    <2>4. Cardinality(A) <= Cardinality(B) /\ IsFiniteSet(A)
        BY <2>1, <2>2, FS_Subset
    <2>5. Cardinality(A) \in Int /\ Cardinality(B) \in Int /\ Cardinality(C) \in Int
        BY <2>2, <2>4, FS_CardinalityType
    <2>6. Cardinality(A) <= Cardinality(C)
        BY <2>3, <2>4, <2>5
    <2> QED
        BY <2>6 DEF A, C
<1>5. \A k \in DOMAIN old : \E n \in DOMAIN new : new[n] = old[k]
    BY <1>1, <1>2, <1>3
<1> QED
    BY <1>1, <1>3, <1>4, <1>5 DEF Grown, new, all

(* The list in the handler and the list on disk at each step *)
RulesInv ==
    /\ rulesAll \in Seq(Rules)
    /\ rules \in Seq(Rules)
    /\ pc \in {"idle", "length", "block", "rules", "rulesAll", "rule", "own", "reply"}
    /\ own \in BOOLEAN
    /\ pc # "idle" => request \in Requests
    /\ pc \in {"idle", "rules"} => ~own
    /\ pc = "rulesAll" => Len(rules) > 0
    /\ pc = "rulesAll" /\ ~own => rulesAll = Absent
    /\ pc = "rulesAll" /\ own => Grown(rulesAll, rules)
    /\ pc \in {"rule", "own"} => rules = rulesAll
    /\ pc = "rule" => i \in 1..Len(rules)

(* Every step keeps the invariant. *)
LEMMA StepRules == RulesInv /\ [Next]_vars => RulesInv'
<1> SUFFICES ASSUME RulesInv, [Next]_vars
             PROVE  RulesInv'
    OBVIOUS
<1>1. Len(rules) \in Nat /\ <<>> \in Seq(Rules)
    BY LenProperties, EmptySeq DEF RulesInv
<1>2. ASSUME NEW r \in Requests, Begin(r)
      PROVE  RulesInv'
    BY <1>2 DEF Begin, disk, RulesInv
<1>3. ASSUME PutLength \/ PutBlock
      PROVE  RulesInv'
    BY <1>3 DEF PutLength, PutBlock, ChainSaved, RulesInv
<1>4. ASSUME InitRules
      PROVE  RulesInv'
    <2>1. /\ UNCHANGED <<rulesAll, own, request, i>> /\ pc = "rules"
          /\ \/ rulesAll # Absent /\ rules' = rulesAll /\ pc' = "own"
             \/ rulesAll = Absent /\ rules' = DefaultRules /\ pc' = "rulesAll"
        BY <1>4 DEF InitRules, disk
    <2>2. CASE pc' = "own" /\ rules' = rulesAll
        BY <2>1, <2>2 DEF RulesInv
    <2>3. CASE pc' = "rulesAll" /\ rules' = DefaultRules /\ rulesAll = Absent
        <3>1. rules' \in Seq(Rules) /\ Len(rules') > 0
            BY <2>3, RulesHavePriority
        <3> QED
            BY <2>1, <2>3, <3>1 DEF RulesInv
    <2> QED
        BY <2>1, <2>2, <2>3
<1>5. ASSUME PutRulesAll
      PROVE  RulesInv'
    BY <1>1, <1>5 DEF PutRulesAll, RulesInv
<1>6. ASSUME PutRule
      PROVE  RulesInv'
    BY <1>1, <1>6 DEF PutRule, RulesSaved, RulesInv
<1>7. ASSUME OwnNothing \/ OwnAddTransaction
      PROVE  RulesInv'
    BY <1>7 DEF OwnNothing, OwnAddTransaction, disk, RulesInv
<1>8. ASSUME OwnAddRule
      PROVE  RulesInv'
    <2>1. request.rule \in Rules /\ rules = rulesAll
        BY <1>8 DEF OwnAddRule, RulesInv, Requests, Rules
    <2>2. /\ rules' \in Seq(Rules) /\ Grown(rules, rules')
          /\ UNCHANGED <<rulesAll, request>> /\ pc' = "rulesAll" /\ own' = TRUE
        BY <1>8, <2>1, AddedRuleGrows DEF OwnAddRule, RulesInv, disk
    <2>3. Len(rules') > 0
        BY <1>1, <2>2 DEF Grown
    <2> QED
        BY <1>8, <2>1, <2>2, <2>3 DEF RulesInv, OwnAddRule
<1>9. ASSUME Throw \/ Reply \/ Crash
      PROVE  RulesInv'
    BY <1>1, <1>9 DEF Throw, Reply, Crash, EndHandler, Null, disk, RulesInv
<1>10. ASSUME UNCHANGED vars
       PROVE  RulesInv'
    BY <1>10 DEF vars, disk, memory, RulesInv
<1> QED
    BY <1>2, <1>3, <1>4, <1>5, <1>6, <1>7, <1>8, <1>9, <1>10 DEF Next, Handler

(* The invariant holds at the start. *)
LEMMA InitRulesInv == Init => RulesInv
<1>1. <<>> \in Seq(Rules)
    BY EmptySeq
<1> QED
    BY <1>1 DEF Init, RulesInv, Absent, Null

(* No step, and no crash between two of them, removes a rule from the list  *)
(* on disk: it is replaced only by a list with one more, in order.          *)
THEOREM RulesAreNeverLost == Spec => RulesOnlyGrow
<1> DEFINE Growing == rulesAll # Absent =>
                /\ \A r \in Rules : Cardinality({k \in DOMAIN rulesAll : rulesAll[k] = r})
                      <= Cardinality({k \in DOMAIN rulesAll' : rulesAll'[k] = r})
                /\ rulesAll' # rulesAll =>
                      /\ Len(rulesAll') = Len(rulesAll) + 1
                      /\ \A k \in 2..Len(rulesAll') :
                            rulesAll'[k].priority <= rulesAll'[k - 1].priority
<1>1. ASSUME RulesInv, [Next]_vars
      PROVE  [Growing]_rulesAll
    <2>1. CASE PutRulesAll
        <3>1. rulesAll' = rules /\ (rulesAll # Absent => Grown(rulesAll, rulesAll'))
            BY <1>1, <2>1 DEF PutRulesAll, RulesInv
        <3> QED
            BY <3>1 DEF Grown
    <2>2. CASE ~PutRulesAll
        <3>1. rulesAll' = rulesAll
            BY <1>1, <2>2 DEF Next, Begin, Handler, PutLength, PutBlock, InitRules, PutRule,
                              OwnNothing, OwnAddTransaction, OwnAddRule, Throw, Reply, Crash,
                              disk, vars
        <3> QED
            BY <3>1
    <2> QED
        BY <2>1, <2>2
<1> QED
    BY <1>1, InitRulesInv, StepRules, PTL DEF Spec, RulesOnlyGrow
-----------------------------------------------------------------------------
(* The keys rule:<id> while saveRules writes them one by one *)
LookupInv ==
    /\ crashes \in Nat
    /\ crashes = 0 /\ pc # "rule" =>
          \A id \in RuleIds :
             LET at == {k \in DOMAIN rulesAll : rulesAll[k].ruleId = id} IN
             IF at = {} THEN ruleById[id] = Absent
             ELSE \E k \in at : (\A l \in at : l <= k) /\ ruleById[id] = rulesAll[k]
    /\ crashes = 0 /\ pc = "rule" =>
          \A id \in RuleIds :
             LET at == {k \in 1..(i - 1) : rulesAll[k].ruleId = id} IN
             /\ at # {} => \E k \in at : (\A l \in at : l <= k) /\ ruleById[id] = rulesAll[k]
             /\ ruleById[id] # Absent => \E k \in DOMAIN rulesAll : rulesAll[k].ruleId = id

(* The keys have a value for each id, and only there. *)
IdsInv == DOMAIN ruleById = RuleIds

(* Steps that touch neither the list nor the keys *)
LEMMA OtherStepsLookup ==
    ASSUME LookupInv, UNCHANGED <<rulesAll, ruleById>>, pc # "rule", pc' # "rule",
           crashes' \in {crashes, crashes + 1}
    PROVE  LookupInv'
BY DEF LookupInv

(* An interval is its last number and those before it. *)
LEMMA LastOfInterval ==
    ASSUME NEW n \in Nat, n >= 1
    PROVE  1..n = 1..(n - 1) \cup {n} /\ n \in 1..n /\ \A l \in 1..n : l <= n
OBVIOUS

(* Every step keeps the invariant. *)
LEMMA StepLookup == RulesInv /\ IdsInv /\ LookupInv /\ [Next]_vars => IdsInv' /\ LookupInv'
<1> SUFFICES ASSUME RulesInv, IdsInv, LookupInv, [Next]_vars
             PROVE  IdsInv' /\ LookupInv'
    OBVIOUS
<1>1. IdsInv'
    <2>1. CASE PutRule
        BY <2>1 DEF PutRule, IdsInv
    <2>2. CASE ~PutRule
        <3>1. ruleById' = ruleById
            BY <2>2 DEF Next, Begin, Handler, PutLength, PutBlock, InitRules, PutRulesAll,
                        OwnNothing, OwnAddTransaction, OwnAddRule, Throw, Reply, Crash,
                        disk, vars
        <3> QED
            BY <3>1 DEF IdsInv
    <2> QED
        BY <2>1, <2>2
<1>2. ASSUME PutRulesAll
      PROVE  LookupInv'
    <2>1. /\ rulesAll' = rules /\ i' = 1 /\ pc = "rulesAll" /\ pc' = "rule"
          /\ UNCHANGED <<ruleById, crashes>>
        BY <1>2 DEF PutRulesAll
    <2>2. ASSUME crashes = 0, NEW id \in RuleIds, ruleById[id] # Absent
          PROVE  \E k \in DOMAIN rules : rules[k].ruleId = id
        <3>1. PICK k \in DOMAIN rulesAll : rulesAll[k].ruleId = id
            BY <2>1, <2>2 DEF LookupInv
        <3>2. own
            BY <2>1, <3>1 DEF RulesInv, Absent
        <3>3. PICK n \in DOMAIN rules : rules[n] = rulesAll[k]
            BY <2>1, <3>2 DEF RulesInv, Grown
        <3> QED
            BY <3>1, <3>3
    <2>3. 1..(i' - 1) = {}
        BY <2>1
    <2> QED
        BY <2>1, <2>2, <2>3 DEF LookupInv
<1>3. ASSUME PutRule
      PROVE  LookupInv'
    <2>1. /\ ruleById' = [ruleById EXCEPT ![rules[i].ruleId] = rules[i]] /\ i' = i + 1
          /\ UNCHANGED <<rulesAll, crashes>> /\ rules = rulesAll /\ pc = "rule"
          /\ i \in 1..Len(rulesAll) /\ DOMAIN rulesAll = 1..Len(rulesAll)
          /\ Len(rulesAll) \in Nat
          /\ \/ pc' = "rule"
             \/ pc' # "rule" /\ i = Len(rulesAll)
        BY <1>3, LenProperties DEF PutRule, RulesSaved, RulesInv
    <2>6. i \in Nat /\ i >= 1 /\ i' - 1 = i
        <3>1. i \in 1..Len(rulesAll) /\ i' = i + 1 /\ Len(rulesAll) \in Nat
            BY <2>1
        <3> QED
            BY <3>1
    <2>7. 1..i = 1..(i - 1) \cup {i} /\ i \in 1..i /\ \A l \in 1..i : l <= i
        BY <2>6, LastOfInterval
    <2>2. rulesAll[i] \in Rules /\ rulesAll[i].ruleId \in RuleIds
        BY <2>1, ElementOfSeq DEF RulesInv, RuleIds
    <2>3. ASSUME crashes = 0, NEW id \in RuleIds
          PROVE  LET at == {k \in 1..i : rulesAll[k].ruleId = id} IN
                 /\ at # {} => \E k \in at : (\A l \in at : l <= k) /\ ruleById'[id] = rulesAll[k]
                 /\ ruleById'[id] # Absent => \E k \in DOMAIN rulesAll : rulesAll[k].ruleId = id
        <3> DEFINE at     == {k \in 1..i : rulesAll[k].ruleId = id}
                   before == {k \in 1..(i - 1) : rulesAll[k].ruleId = id}
        <3>1. CASE rulesAll[i].ruleId = id
            <4>1. i \in at /\ \A l \in at : l <= i
                BY <2>6, <2>7, <3>1
            <4>2. ruleById'[id] = rulesAll[i]
                BY <2>1, <3>1 DEF IdsInv
            <4> QED
                BY <2>1, <3>1, <4>1, <4>2
        <3>2. CASE rulesAll[i].ruleId # id
            <4>1. at = before
                BY <2>6, <2>7, <3>2
            <4>2. ruleById'[id] = ruleById[id]
                BY <2>1, <3>2 DEF IdsInv
            <4>3. /\ before # {} => \E k \in before : /\ \A l \in before : l <= k
                                                      /\ ruleById[id] = rulesAll[k]
                  /\ ruleById[id] # Absent => \E k \in DOMAIN rulesAll : rulesAll[k].ruleId = id
                BY <2>1, <2>3 DEF LookupInv
            <4> HIDE DEF at, before
            <4>4. /\ at # {} => \E k \in at : (\A l \in at : l <= k) /\ ruleById'[id] = rulesAll[k]
                  /\ ruleById'[id] # Absent => \E k \in DOMAIN rulesAll : rulesAll[k].ruleId = id
                BY <4>1, <4>2, <4>3
            <4> QED
                BY <4>4 DEF at
        <3> QED
            BY <3>1, <3>2
    <2>4. CASE pc' = "rule"
        <3>1. 1..(i' - 1) = 1..i
            BY <2>6
        <3> QED
            BY <2>1, <2>3, <2>4, <3>1 DEF LookupInv
    <2>5. CASE pc' # "rule" /\ i = Len(rulesAll)
        <3>1. DOMAIN rulesAll = 1..i
            BY <2>1, <2>5
        <3>2. \A id \in RuleIds : crashes = 0 =>
                 LET at == {k \in DOMAIN rulesAll : rulesAll[k].ruleId = id} IN
                 IF at = {} THEN ruleById'[id] = Absent
                 ELSE \E k \in at : (\A l \in at : l <= k) /\ ruleById'[id] = rulesAll[k]
            BY <2>3, <3>1
        <3> QED
            BY <2>1, <2>5, <3>2 DEF LookupInv
    <2> QED
        BY <2>1, <2>4, <2>5
<1>4. ASSUME ~PutRulesAll, ~PutRule
      PROVE  LookupInv'
    <2>1. /\ UNCHANGED <<rulesAll, ruleById>>
          /\ crashes' \in {crashes, crashes + 1}
        BY <1>4 DEF Next, Begin, Handler, PutLength, PutBlock, InitRules,
                    OwnNothing, OwnAddTransaction, OwnAddRule, Throw, Reply, Crash,
                    disk, vars
    <2>2. CASE UNCHANGED vars
        BY <2>2 DEF vars, disk, memory, LookupInv
    <2>3. CASE Crash
        BY <2>3 DEF Crash, LookupInv
    <2>4. CASE ~Crash /\ ~UNCHANGED vars
        <3>1. pc # "rule" /\ pc' # "rule"
            BY <1>4, <2>4 DEF Next, Begin, Handler, PutLength, PutBlock, InitRules,
                              OwnNothing, OwnAddTransaction, OwnAddRule, Throw, Reply,
                              EndHandler, ChainSaved
        <3> QED
            BY <2>1, <3>1, OtherStepsLookup
    <2> QED
        BY <2>2, <2>3, <2>4
<1> QED
    BY <1>1, <1>2, <1>3, <1>4

(* Until the process dies for the first time, every handler that looks a    *)
(* rule up by its id finds the one that the list gives for that id.         *)
THEOREM LookupFindsTheListedRule == Spec => []RuleLookupAgrees
<1>1. Init => IdsInv /\ LookupInv
    <2>1. Absent = <<>> /\ DOMAIN Absent = {}
        BY DEF Absent
    <2> QED
        BY <2>1 DEF Init, IdsInv, LookupInv
<1>2. LookupInv => RuleLookupAgrees
    BY DEF LookupInv, RuleLookupAgrees
<1> QED
    BY <1>1, <1>2, InitRulesInv, StepRules, StepLookup, PTL DEF Spec
-----------------------------------------------------------------------------
(* Types.  Blocks have theirs from NumberingInv, lists from RulesInv.       *)
CountersInv ==
    /\ ruleById \in [RuleIds -> Rules \cup {Absent}]
    /\ request \in Requests \cup {NoRequest}
    /\ i \in Nat /\ transactionCounter \in Nat /\ clock \in Nat /\ crashes \in Nat

(* A block in its place has an index and ids that are numbers. *)
LEMMA NumberedIsBlock ==
    ASSUME NEW b, NEW k \in Nat, Numbered(b, k)
    PROVE  Block(b)
<1>1. ASSUME NEW t \in Range(b.transactions)
      PROVE  t.transactionId \in Nat
    <2>1. k # 0 /\ t = b.transactions[1]
        BY DEF Numbered, Range
    <2> QED
        BY <2>1 DEF Numbered
<1> QED
    BY <1>1 DEF Block, Numbered

(* What the three invariants say is what TypeOK says. *)
LEMMA TypesFollow == NumberingInv /\ RulesInv /\ CountersInv => TypeOK
<1> SUFFICES ASSUME NumberingInv, RulesInv, CountersInv
             PROVE  TypeOK
    OBVIOUS
<1>1. \A k \in DOMAIN chainBlock : chainBlock[k] # Absent => Block(chainBlock[k])
    <2>1. DOMAIN chainBlock \subseteq Nat
        BY BoundsAssumption DEF NumberingInv
    <2> QED
        BY <2>1, NumberedIsBlock DEF NumberingInv
<1>2. \A k \in DOMAIN chain : Block(chain[k])
    <2>1. \A k \in DOMAIN chain : k - 1 \in Nat
        <3>1. DOMAIN chain = 1..Len(chain) /\ Len(chain) \in Nat
            BY LenProperties DEF NumberingInv
        <3> QED
            BY <3>1
    <2> QED
        BY <2>1, NumberedIsBlock DEF NumberingInv, NumberedChain
<1> QED
    BY <1>1, <1>2 DEF NumberingInv, RulesInv, CountersInv, TypeOK

(* The counter a handler takes from its chain is a number. *)
LEMMA CounterIsNumber ==
    ASSUME NumberingInv, pc = "own"
    PROVE  LastTransactionId(chain) \in Nat
<1>1. /\ chain \in Seq(Range(chain)) /\ NumberedChain(chain)
      /\ Len(chain) > 0 /\ Len(chain) \in Nat
    BY LenProperties DEF NumberingInv
<1>2. LastTransactionId(chain) = Len(chain) - 1
    BY <1>1, LastIdIsLastPosition
<1> QED
    BY <1>1, <1>2

(* Every step keeps the types. *)
LEMMA StepCounters == NumberingInv /\ RulesInv /\ CountersInv /\ [Next]_vars => CountersInv'
<1> SUFFICES ASSUME NumberingInv, RulesInv, CountersInv, [Next]_vars
             PROVE  CountersInv'
    OBVIOUS
<1>1. ASSUME NEW r \in Requests, Begin(r)
      PROVE  CountersInv'
    BY <1>1 DEF Begin, disk, CountersInv
<1>2. ASSUME PutLength \/ PutBlock \/ InitRules \/ PutRulesAll
      PROVE  CountersInv'
    BY <1>2 DEF PutLength, PutBlock, InitRules, PutRulesAll, disk, CountersInv
<1>3. ASSUME PutRule
      PROVE  CountersInv'
    <2>1. rules[i] \in Rules
        BY <1>3, ElementOfSeq DEF PutRule, RulesInv
    <2>2. ruleById' \in [RuleIds -> Rules \cup {Absent}]
        BY <1>3, <2>1 DEF PutRule, CountersInv
    <2> QED
        BY <1>3, <2>2 DEF PutRule, CountersInv
<1>4. ASSUME OwnNothing \/ OwnAddTransaction \/ OwnAddRule
      PROVE  CountersInv'
    <2>1. LastTransactionId(chain) \in Nat
        BY <1>4, CounterIsNumber DEF OwnNothing, OwnAddTransaction, OwnAddRule
    <2>2. /\ transactionCounter' \in {LastTransactionId(chain), LastTransactionId(chain) + 1}
          /\ UNCHANGED <<ruleById, request, i, crashes>> /\ clock' \in {clock, clock + 1}
        BY <1>4 DEF OwnNothing, OwnAddTransaction, OwnAddRule, disk
    <2> QED
        BY <2>1, <2>2 DEF CountersInv
<1>5. ASSUME Throw \/ Reply \/ Crash
      PROVE  CountersInv'
    <2>1. pc = "own" => LastTransactionId(chain) \in Nat
        BY CounterIsNumber
    <2>2. transactionCounter' \in Nat
        <3>1. CASE Throw
            <4>1. transactionCounter' \in {LastTransactionId(chain), LastTransactionId(chain) + 1}
                BY <3>1 DEF Throw
            <4> QED
                BY <2>1, <3>1, <4>1 DEF Throw
        <3>2. CASE Reply \/ Crash
            BY <3>2 DEF Reply, Crash, CountersInv
        <3> QED
            BY <1>5, <3>1, <3>2
    <2>3. crashes' \in Nat
        BY <1>5 DEF Throw, Reply, Crash, CountersInv
    <2> QED
        BY <1>5, <2>2, <2>3 DEF Throw, Reply, Crash, EndHandler, disk, CountersInv
<1>6. ASSUME UNCHANGED vars
      PROVE  CountersInv'
    BY <1>6 DEF vars, disk, memory, CountersInv
<1> QED
    BY <1>1, <1>2, <1>3, <1>4, <1>5, <1>6 DEF Next, Handler

(* The variables of the journal always have their types. *)
THEOREM LedgerTypes == Spec => []TypeOK
<1>1. Init => CountersInv
    BY DEF Init, CountersInv
<1> QED
    BY <1>1, InitRulesInv, StepRules, Numbering, StepCounters, TypesFollow, PTL DEF Spec
-----------------------------------------------------------------------------
(* What is kept on disk, and the refinement of ImmutableLedger *)

(* The whole chain of the handler is on disk *)
Stored ==
    /\ chainLength = Len(chain)
    /\ \A k \in DOMAIN chain : chainBlock[k - 1] = chain[k]

(* What is on disk at each step of a handler.  Between two handlers nothing *)
(* is said: a crash may have left anything that NumberingInv allows.        *)
DurableInv ==
    /\ \A k \in DOMAIN chain : chain[k] # Absent
    /\ pc = "block" => /\ chainLength = Len(chain)
                       /\ \A k \in 1..i : chainBlock[k - 1] = chain[k]
    /\ pc \notin {"idle", "length", "block"} => Stored
    /\ pc = "idle" => ~own
    /\ pc = "reply" => own
    /\ own /\ request.op = "bc_addTransaction" => IsValidChain(chain)

LedgerInv == NumberingInv /\ DurableInv

(* The handler's chain as a function *)
LEMMA ChainShape ==
    ASSUME NumberingInv
    PROVE  /\ Len(chain) \in Nat
           /\ DOMAIN chain = 1..Len(chain)
           /\ chain = [k \in 1..Len(chain) |-> chain[k]]
           /\ MaxBlocks \in Nat \ {0}
           /\ Len(chain) <= MaxBlocks
<1>1. /\ Len(chain) \in Nat /\ DOMAIN chain = 1..Len(chain)
      /\ chain \in [1..Len(chain) -> Range(chain)]
    BY LenProperties DEF NumberingInv
<1> QED
    BY <1>1, BoundsAssumption DEF NumberingInv

(* A block is a record, never the value of an absent key. *)
LEMMA BlockIsPresent ==
    ASSUME NEW n, NEW h, NEW ts, NEW t
    PROVE  CreateBlock(n, h, ts, t) # Absent
<1>1. "index" \in DOMAIN CreateBlock(n, h, ts, t)
    BY DEF CreateBlock
<1>2. "index" \notin DOMAIN Absent
    BY DEF Absent
<1> QED
    BY <1>1, <1>2

(* addBlock's isValidChain accepts a chain that createBlock has extended. *)
LEMMA ExtensionIsValid ==
    ASSUME NEW c, c \in Seq(Range(c)), Len(c) > 0, IsValidChain(c), NEW ts, NEW t
    PROVE  IsValidChain(Append(c, CreateBlock(c[Len(c)].index + 1, c[Len(c)].hash, ts, t)))
<1> DEFINE b == CreateBlock(c[Len(c)].index + 1, c[Len(c)].hash, ts, t)
           d == Append(c, b)
<1>1. Len(c) \in Nat
    BY LenProperties
<1>2. /\ b.index = c[Len(c)].index + 1 /\ b.previousHash = c[Len(c)].hash
      /\ b.hash = CalculateHash(b.index, b.previousHash, b.transactions, b.timestamp)
    BY DEF CreateBlock
<1> HIDE DEF b
<1>3. /\ Len(d) = Len(c) + 1
      /\ \A k \in 1..Len(c) : d[k] = c[k]
      /\ d[Len(c) + 1] = b
    BY AppendElement
<1> HIDE DEF d
<1>4. d[1].index = 0 /\ d[1].previousHash = GenesisPrevious
    <2>1. d[1] = c[1]
        BY <1>1, <1>3
    <2> QED
        BY <2>1 DEF IsValidChain
<1>5. ASSUME NEW k \in 2..Len(d)
      PROVE  /\ d[k].index = d[k - 1].index + 1
             /\ d[k].previousHash = d[k - 1].hash
             /\ d[k].hash = CalculateHash(d[k].index, d[k].previousHash,
                                          d[k].transactions, d[k].timestamp)
    <2>1. k - 1 \in 1..Len(c) /\ d[k - 1] = c[k - 1]
        BY <1>1, <1>3
    <2>2. CASE k = Len(c) + 1
        BY <1>1, <1>2, <1>3, <2>1, <2>2
    <2>3. CASE k \in 2..Len(c)
        <3>1. d[k] = c[k]
            BY <1>3, <2>3
        <3> QED
            BY <2>1, <2>3, <3>1 DEF IsValidChain
    <2> QED
        BY <1>1, <1>3, <2>2, <2>3
<1> QED
    BY <1>4, <1>5 DEF IsValidChain, b, d

(* A genesis block alone is a valid chain of present blocks. *)
LEMMA GenesisIsValid ==
    ASSUME NEW t
    PROVE  /\ IsValidChain(<<GenesisBlock(t)>>)
           /\ \A k \in DOMAIN <<GenesisBlock(t)>> : <<GenesisBlock(t)>>[k] # Absent
<1> DEFINE b == GenesisBlock(t)
<1>1. b.index = 0 /\ b.previousHash = GenesisPrevious /\ b # Absent
    BY BlockIsPresent DEF GenesisBlock, CreateBlock
<1> HIDE DEF b
<1>2. Len(<<b>>) = 1 /\ <<b>>[1] = b /\ DOMAIN <<b>> = {1}
    OBVIOUS
<1>3. IsValidChain(<<b>>)
    BY <1>1, <1>2 DEF IsValidChain
<1> QED
    BY <1>1, <1>2, <1>3 DEF b

(* The next handler loads the chain that is stored. *)
LEMMA StoredIsLoaded ==
    ASSUME NumberingInv, Stored, \A k \in DOMAIN chain : chain[k] # Absent
    PROVE  LoadChain = chain
<1>1. \A k \in 0..(chainLength - 1) : k + 1 \in DOMAIN chain /\ (k + 1) - 1 = k
    BY ChainShape DEF Stored
<1>2. \A k \in 0..(chainLength - 1) : chainBlock[k] # Absent
    BY <1>1 DEF Stored
<1>3. LoadChain = [k \in 1..Len(chain) |-> chainBlock[k - 1]]
    BY <1>2 DEF LoadChain, Stored
<1>4. \A k \in 1..Len(chain) : chainBlock[k - 1] = chain[k]
    BY ChainShape DEF Stored
<1> QED
    BY <1>3, <1>4, ChainShape

(* A loaded chain is stored, and none of its blocks is absent. *)
LEMMA LoadedIsStored ==
    ASSUME NumberingInv, LoadChain # Null
    PROVE  /\ chainLength = Len(LoadChain)
           /\ DOMAIN LoadChain = 1..chainLength
           /\ \A k \in DOMAIN LoadChain :
                 LoadChain[k] = chainBlock[k - 1] /\ LoadChain[k] # Absent
<1>1. LoadChain = [k \in 1..chainLength |-> chainBlock[k - 1]]
      /\ \A k \in 0..(chainLength - 1) : chainBlock[k] # Absent
    BY DEF LoadChain
<1>2. chainLength \in Int
    BY BoundsAssumption DEF NumberingInv
<1> QED
    BY <1>1, <1>2, LoadedIsNumbered
(* A handler that ends leaves nothing to say about the disk. *)
LEMMA EndDurable ==
    ASSUME EndHandler
    PROVE  DurableInv'
<1>1. DOMAIN chain' = {}
    BY DEF EndHandler, Null
<1> QED
    BY <1>1 DEF EndHandler, DurableInv

(* Steps that leave the chain and the blocks alone, past saveChain *)
LEMMA RulesDurable ==
    ASSUME DurableInv, UNCHANGED <<chainLength, chainBlock, chain, request>>,
           pc \notin {"idle", "length", "block"}, pc' \notin {"idle", "length", "block"},
           pc' = "reply" => own',
           own' /\ request.op = "bc_addTransaction" => own
    PROVE  DurableInv'
BY DEF DurableInv, Stored, IsValidChain

(* Every step keeps the invariant. *)
LEMMA StepDurable ==
    ASSUME LedgerInv, [Next]_vars
    PROVE  DurableInv'
<1> USE DEF LedgerInv
<1>1. ASSUME NEW r \in Requests, Begin(r)
      PROVE  DurableInv'
    <2>1. UNCHANGED <<chainLength, chainBlock, own>> /\ ~own
        BY <1>1 DEF Begin, disk, DurableInv
    <2>2. CASE LoadChain # Null /\ chain' = LoadChain /\ pc' = "rules"
        <3>1. Stored' /\ \A k \in DOMAIN chain' : chain'[k] # Absent
            BY <2>1, <2>2, LoadedIsStored DEF Stored
        <3> QED
            BY <2>1, <2>2, <3>1 DEF DurableInv
    <2>3. CASE chain' = <<GenesisBlock(clock)>> /\ pc' = "length"
        <3>1. \A k \in DOMAIN chain' : chain'[k] # Absent
            BY <2>3, GenesisIsValid
        <3> QED
            BY <2>1, <2>3, <3>1 DEF DurableInv
    <2> QED
        BY <1>1, <2>2, <2>3 DEF Begin
<1>2. ASSUME PutLength
      PROVE  DurableInv'
    BY <1>2 DEF PutLength, DurableInv, IsValidChain
<1>3. ASSUME PutBlock
      PROVE  DurableInv'
    <2>1. /\ i \in 0..(Len(chain) - 1) /\ i + 1 \in DOMAIN chain
          /\ chainLength = Len(chain) /\ Len(chain) \in Nat
          /\ i \in DOMAIN chainBlock
        BY <1>3, ChainShape DEF PutBlock, DurableInv, NumberingInv
    <2>2. /\ chainBlock' = [chainBlock EXCEPT ![i] = chain[i + 1]] /\ i' = i + 1
          /\ UNCHANGED <<chainLength, own, request, chain>>
        BY <1>3 DEF PutBlock
    <2>3. \A k \in 1..(i + 1) : chainBlock'[k - 1] = chain[k]
        <3>1. TAKE k \in 1..(i + 1)
        <3>2. CASE k = i + 1
            BY <2>1, <2>2, <3>2
        <3>3. CASE k \in 1..i
            <4>1. k - 1 # i /\ chainBlock[k - 1] = chain[k]
                BY <1>3, <2>1, <3>3 DEF DurableInv, PutBlock
            <4> QED
                BY <2>2, <4>1
        <3> QED
            BY <2>1, <3>2, <3>3
    <2>4. CASE pc' = "block"
        BY <2>1, <2>2, <2>3, <2>4 DEF DurableInv, IsValidChain
    <2>5. CASE pc' = ChainSaved /\ i + 1 = Len(chain)
        <3>1. Stored'
            BY <2>1, <2>2, <2>3, <2>5, ChainShape DEF Stored
        <3> QED
            BY <2>2, <2>5, <3>1 DEF DurableInv, ChainSaved, IsValidChain
    <2> QED
        BY <1>3, <2>1, <2>4, <2>5 DEF PutBlock
<1>4. ASSUME OwnAddTransaction
      PROVE  DurableInv'
    <2> DEFINE last == chain[Len(chain)]
               tx   == CreateTransaction(LastTransactionId(chain) + 1, request.payload)
               b    == CreateBlock(last.index + 1, last.hash, <<tx>>, clock)
    <2>1. /\ chain \in Seq(Range(chain)) /\ Len(chain) > 0 /\ Len(chain) \in Nat
          /\ IsValidChain(chain) /\ chain' = Append(chain, b)
          /\ pc' = "length"
        BY <1>4, ChainShape DEF OwnAddTransaction, NumberingInv
    <2>2. IsValidChain(chain')
        <3> HIDE DEF tx
        <3> QED
            BY <2>1, ExtensionIsValid
    <2>3. b # Absent
        BY BlockIsPresent
    <2> HIDE DEF b
    <2>4. \A k \in DOMAIN chain' : chain'[k] # Absent
        <3>1. /\ chain' \in Seq(Range(chain'))
              /\ Len(chain') = Len(chain) + 1
              /\ \A k \in 1..Len(chain) : chain'[k] = chain[k]
              /\ chain'[Len(chain) + 1] = b
            BY <2>1, AppendElement
        <3>2. DOMAIN chain' = 1..(Len(chain) + 1)
            BY <3>1, LenProperties
        <3> QED
            BY <2>1, <2>3, <3>1, <3>2, ChainShape DEF DurableInv
    <2> QED
        BY <2>1, <2>2, <2>4 DEF DurableInv
<1>5. ASSUME InitRules \/ PutRulesAll \/ PutRule \/ OwnNothing \/ OwnAddRule
      PROVE  DurableInv'
    <2>1. /\ UNCHANGED <<chainLength, chainBlock, chain, request>>
          /\ pc \notin {"idle", "length", "block"}
          /\ pc' \notin {"idle", "length", "block"}
          /\ pc' = "reply" => own'
          /\ own' /\ request.op = "bc_addTransaction" => own
        BY <1>5 DEF InitRules, PutRulesAll, PutRule, OwnNothing, OwnAddRule,
                    RulesSaved, disk
    <2> QED
        BY <2>1, RulesDurable
<1>6. ASSUME Throw \/ Reply \/ Crash
      PROVE  DurableInv'
    BY <1>6, EndDurable DEF Throw, Reply, Crash
<1>7. CASE UNCHANGED vars
    BY <1>7 DEF vars, disk, memory, DurableInv, Stored, IsValidChain
<1> QED
    BY <1>1, <1>2, <1>3, <1>4, <1>5, <1>6, <1>7 DEF Next, Handler

(* The invariant holds at the start, and every step keeps it. *)
LEMMA LedgerInduction ==
    /\ Init => LedgerInv
    /\ LedgerInv /\ [Next]_vars => LedgerInv'
<1>1. Init => LedgerInv
    <2>1. Init => DurableInv
        <3>1. DOMAIN Null = {}
            BY DEF Null
        <3> QED
            BY <3>1 DEF Init, DurableInv
    <2> QED
        BY <2>1, InitNumbering DEF LedgerInv
<1>2. LedgerInv /\ [Next]_vars => LedgerInv'
    BY StepDurable, StepNumbering DEF LedgerInv
<1> QED
    BY <1>1, <1>2

(* A handler answers only when the next one will load exactly its chain, a  *)
(* valid one if bc_addTransaction extended it; whatever crashes there were. *)
THEOREM AnswersAreDurable == Spec => []ReplyIsDurable
<1>1. LedgerInv => ReplyIsDurable
    BY StoredIsLoaded DEF LedgerInv, DurableInv, ReplyIsDurable
<1> QED
    BY <1>1, LedgerInduction, PTL DEF Spec
-----------------------------------------------------------------------------
(* Before the first crash all blocks on disk are those of one chain, and a  *)
(* handler that is stopped leaves a beginning of its chain, or a length     *)
(* without a block; the handlers after that rebuild one chain or extend it. *)
OneChainInv ==
    /\ crashes \in Nat
    /\ crashes = 0 /\ pc = "idle" =>
          \A k \in DOMAIN chainBlock : chainBlock[k] # Absent <=> k < chainLength
    /\ crashes = 0 /\ pc # "idle" =>
          /\ chainLength <= Len(chain)
          /\ \A k \in DOMAIN chainBlock :
                chainBlock[k] # Absent => k < Len(chain) /\ chainBlock[k] = chain[k + 1]
    /\ crashes <= 1 /\ pc # "idle" => IsValidChain(chain)
    /\ ValidAfterOneCrash

(* A loaded chain whose blocks are those of a valid one is valid. *)
LEMMA BeginningIsValid ==
    ASSUME NumberingInv, LoadChain # Null, IsValidChain(chain), chainLength <= Len(chain),
           \A k \in DOMAIN chainBlock : chainBlock[k] # Absent => chainBlock[k] = chain[k + 1]
    PROVE  IsValidChain(LoadChain)
<1>1. /\ Len(LoadChain) = chainLength /\ chainLength > 0 /\ chainLength \in Nat
      /\ DOMAIN LoadChain = 1..chainLength
      /\ \A k \in DOMAIN LoadChain :
            LoadChain[k] = chainBlock[k - 1] /\ LoadChain[k] # Absent
      /\ DOMAIN chainBlock = 0..(MaxBlocks - 1) /\ chainLength <= MaxBlocks
      /\ Len(chain) \in Nat /\ MaxBlocks \in Nat
    BY LoadedIsStored, LoadedIsNumbered, ChainShape DEF NumberingInv
<1>2. \A k \in 1..chainLength : LoadChain[k] = chain[k]
    <2>1. TAKE k \in 1..chainLength
    <2>2. k - 1 \in DOMAIN chainBlock /\ (k - 1) + 1 = k
        BY <1>1
    <2> QED
        BY <1>1, <2>2
<1>3. LoadChain[1] = chain[1]
    BY <1>1, <1>2
<1>4. ASSUME NEW k \in 2..Len(LoadChain)
      PROVE  /\ LoadChain[k] = chain[k] /\ LoadChain[k - 1] = chain[k - 1]
             /\ k \in 2..Len(chain)
    BY <1>1, <1>2
<1> QED
    BY <1>3, <1>4 DEF IsValidChain

(* Without a crash, no chain on disk means nothing on disk. *)
LEMMA NullIsEmpty ==
    ASSUME NumberingInv, OneChainInv, crashes = 0, pc = "idle", LoadChain = Null
    PROVE  chainLength = 0 /\ \A k \in DOMAIN chainBlock : chainBlock[k] = Absent
<1>1. chainLength \in Nat /\ chainLength <= MaxBlocks /\ MaxBlocks \in Nat
      /\ DOMAIN chainBlock = 0..(MaxBlocks - 1)
    BY BoundsAssumption DEF NumberingInv
<1>2. \A k \in 0..(chainLength - 1) : chainBlock[k] # Absent
    BY <1>1 DEF OneChainInv
<1>3. LoadChain = [k \in 1..chainLength |-> chainBlock[k - 1]]
    BY <1>2 DEF LoadChain
<1>4. 1..chainLength = {}
    BY <1>3 DEF Null
<1>5. chainLength = 0
    BY <1>1, <1>4
<1> QED
    BY <1>1, <1>5 DEF OneChainInv

(* Every step keeps the invariant. *)
LEMMA StepOneChain ==
    ASSUME LedgerInv, OneChainInv, [Next]_vars
    PROVE  OneChainInv'
<1> USE DEF LedgerInv
<1>1. ASSUME NEW r \in Requests, Begin(r)
      PROVE  OneChainInv'
    <2>1. UNCHANGED <<chainLength, chainBlock, crashes>> /\ pc = "idle" /\ pc' # "idle"
        BY <1>1 DEF Begin, disk
    <2>2. chainLength \in Nat /\ DOMAIN chainBlock \subseteq Nat
        BY BoundsAssumption DEF NumberingInv
    <2>3. CASE LoadChain # Null /\ chain' = LoadChain
        <3>1. crashes <= 1 => IsValidChain(chain')
            BY <2>1, <2>3 DEF OneChainInv, ValidAfterOneCrash
        <3>2. Len(chain') = chainLength
              /\ \A k \in 0..(chainLength - 1) : chain'[k + 1] = chainBlock[k]
            BY <2>2, <2>3, LoadedIsStored
        <3>3. crashes = 0 => \A k \in DOMAIN chainBlock :
                 chainBlock[k] # Absent => k < Len(chain') /\ chainBlock[k] = chain'[k + 1]
            BY <2>1, <2>2, <3>2 DEF OneChainInv
        <3> QED
            BY <2>1, <2>2, <3>1, <3>2, <3>3 DEF OneChainInv, ValidAfterOneCrash
    <2>4. CASE LoadChain = Null /\ chain' = <<GenesisBlock(clock)>>
        <3>1. IsValidChain(chain') /\ Len(chain') = 1
            BY <2>4, GenesisIsValid, GenesisIsNumbered
        <3>2. crashes = 0 => chainLength = 0 /\ \A k \in DOMAIN chainBlock : chainBlock[k] = Absent
            BY <2>1, <2>4, NullIsEmpty
        <3> QED
            BY <2>1, <3>1, <3>2 DEF OneChainInv, ValidAfterOneCrash
    <2> QED
        BY <1>1, <2>3, <2>4 DEF Begin
<1>2. ASSUME PutLength
      PROVE  OneChainInv'
    BY <1>2, ChainShape DEF PutLength, OneChainInv, ValidAfterOneCrash, IsValidChain
<1>3. ASSUME PutBlock
      PROVE  OneChainInv'
    <2>1. /\ i \in 0..(Len(chain) - 1) /\ Len(chain) \in Nat /\ chainLength = Len(chain)
          /\ chainBlock' = [chainBlock EXCEPT ![i] = chain[i + 1]]
          /\ UNCHANGED <<chainLength, chain, crashes>>
          /\ pc = "block" /\ pc' # "idle"
          /\ DOMAIN chainBlock' = DOMAIN chainBlock
        BY <1>3, ChainShape DEF PutBlock, ChainSaved, DurableInv, NumberingInv
    <2>2. crashes = 0 => \A k \in DOMAIN chainBlock :
             chainBlock'[k] # Absent => k < Len(chain) /\ chainBlock'[k] = chain[k + 1]
        BY <2>1 DEF OneChainInv
    <2> QED
        BY <2>1, <2>2 DEF OneChainInv, ValidAfterOneCrash, IsValidChain
<1>4. ASSUME OwnAddTransaction
      PROVE  OneChainInv'
    <2> DEFINE last == chain[Len(chain)]
               tx   == CreateTransaction(LastTransactionId(chain) + 1, request.payload)
               b    == CreateBlock(last.index + 1, last.hash, <<tx>>, clock)
    <2>1. /\ chain \in Seq(Range(chain)) /\ Len(chain) > 0 /\ Len(chain) \in Nat
          /\ IsValidChain(chain) /\ chain' = Append(chain, b)
          /\ pc = "own" /\ pc' = "length"
          /\ UNCHANGED <<chainLength, chainBlock, crashes>>
        BY <1>4, ChainShape DEF OwnAddTransaction, NumberingInv, disk
    <2>2. IsValidChain(chain')
        <3> HIDE DEF tx
        <3> QED
            BY <2>1, ExtensionIsValid
    <2> HIDE DEF b
    <2>3. /\ Len(chain') = Len(chain) + 1
          /\ \A k \in 1..Len(chain) : chain'[k] = chain[k]
        BY <2>1, AppendElement
    <2>4. crashes = 0 => \A k \in DOMAIN chainBlock :
             chainBlock[k] # Absent => k < Len(chain') /\ chainBlock[k] = chain'[k + 1]
        <3>1. DOMAIN chainBlock \subseteq Nat
            BY BoundsAssumption DEF NumberingInv
        <3> QED
            BY <2>1, <2>3, <3>1 DEF OneChainInv
    <2>5. chainLength \in Int
        BY DEF NumberingInv
    <2> QED
        BY <2>1, <2>2, <2>3, <2>4, <2>5 DEF OneChainInv, ValidAfterOneCrash
<1>5. ASSUME InitRules \/ PutRulesAll \/ PutRule \/ OwnNothing \/ OwnAddRule
      PROVE  OneChainInv'
    <2>1. /\ UNCHANGED <<chainLength, chainBlock, chain, crashes>>
          /\ pc # "idle" /\ pc' # "idle"
        BY <1>5 DEF InitRules, PutRulesAll, PutRule, OwnNothing, OwnAddRule,
                    RulesSaved, disk
    <2> QED
        BY <2>1 DEF OneChainInv, ValidAfterOneCrash, IsValidChain
<1>6. ASSUME Throw \/ Reply
      PROVE  OneChainInv'
    <2>1. /\ UNCHANGED <<chainLength, chainBlock, crashes>> /\ pc' = "idle"
          /\ pc \notin {"idle", "length", "block"}
        BY <1>6 DEF Throw, Reply, EndHandler, disk
    <2>2. LoadChain = chain /\ LoadChain' = LoadChain /\ Stored
        BY <2>1, StoredIsLoaded DEF DurableInv, LoadChain
    <2>3. ValidAfterOneCrash'
        BY <2>1, <2>2 DEF OneChainInv, ValidAfterOneCrash
    <2>4. crashes = 0 => \A k \in DOMAIN chainBlock : chainBlock[k] # Absent <=> k < chainLength
        <3>1. DOMAIN chainBlock \subseteq Nat
            BY BoundsAssumption DEF NumberingInv
        <3>2. \A k \in DOMAIN chainBlock : k < chainLength => chainBlock[k] # Absent
            <4>1. TAKE k \in DOMAIN chainBlock
            <4>2. HAVE k < chainLength
            <4>3. k + 1 \in DOMAIN chain /\ (k + 1) - 1 = k
                BY <2>2, <3>1, <4>2, ChainShape DEF Stored
            <4> QED
                BY <2>2, <4>3 DEF Stored, DurableInv
        <3> QED
            BY <2>1, <2>2, <3>2 DEF OneChainInv, Stored
    <2> QED
        BY <2>1, <2>3, <2>4 DEF OneChainInv
<1>7. ASSUME Crash
      PROVE  OneChainInv'
    <2>1. /\ UNCHANGED <<chainLength, chainBlock>> /\ crashes' = crashes + 1
          /\ pc' = "idle" /\ LoadChain' = LoadChain /\ crashes \in Nat
        BY <1>7 DEF Crash, EndHandler, disk, LoadChain, OneChainInv
    <2>2. crashes = 0 /\ LoadChain # Null => IsValidChain(LoadChain)
        <3>1. CASE pc = "idle"
            BY <2>1, <3>1 DEF OneChainInv, ValidAfterOneCrash
        <3>2. CASE pc # "idle"
            BY <2>1, <3>2, BeginningIsValid DEF OneChainInv
        <3> QED
            BY <3>1, <3>2
    <2>3. ValidAfterOneCrash'
        BY <2>1, <2>2 DEF ValidAfterOneCrash
    <2> QED
        BY <2>1, <2>3 DEF OneChainInv
<1>8. CASE UNCHANGED vars
    <2>1. /\ UNCHANGED <<chainLength, chainBlock, pc, chain, crashes>>
          /\ LoadChain' = LoadChain
        BY <1>8 DEF vars, disk, memory, LoadChain
    <2> QED
        BY <2>1 DEF OneChainInv, ValidAfterOneCrash
<1> QED
    BY <1>1, <1>2, <1>3, <1>4, <1>5, <1>6, <1>7, <1>8 DEF Next, Handler

(* As long as the process died at most once, a chain that a handler loads   *)
(* is one that addBlock accepts, whatever the put the crash came before.    *)
THEOREM OneCrashKeepsTheChainValid == Spec => []ValidAfterOneCrash
<1>1. ASSUME Init
      PROVE  OneChainInv
    <2>1. LoadChain = [k \in 1..0 |-> chainBlock[k - 1]]
        BY <1>1 DEF Init, LoadChain
    <2>2. LoadChain = Null
        BY <2>1 DEF Null
    <2>3. ValidAfterOneCrash
        BY <2>2 DEF ValidAfterOneCrash
    <2>4. \A k \in DOMAIN chainBlock : chainBlock[k] # Absent <=> k < chainLength
        BY <1>1, BoundsAssumption DEF Init
    <2> QED
        BY <1>1, <2>3, <2>4 DEF Init, OneChainInv
<1>2. LedgerInv /\ OneChainInv /\ [Next]_vars => OneChainInv'
    BY StepOneChain
<1>3. OneChainInv => ValidAfterOneCrash
    BY DEF OneChainInv
<1> QED
    BY <1>1, <1>2, <1>3, LedgerInduction, PTL DEF Spec
-----------------------------------------------------------------------------
(* Without a crash the journal implements ImmutableLedger.                  *)

(* The transactions of a chain, and what the callers were told of *)
EntriesOf(c) ==
    IF Len(c) < 2 THEN <<>>
    ELSE [k \in 1..(Len(c) - 1) |-> c[k + 1].transactions[1]]

Acknowledged == UNION {Range(b.transactions) : b \in acked}

(* What bc_addTransaction has put at the end of its chain *)
AppendInv ==
    /\ pc # "idle" => request \in Requests
    /\ own /\ pc \in {"length", "block"} => request.op = "bc_addTransaction"
    /\ own /\ request.op = "bc_addTransaction" =>
          /\ Len(chain) > 1
          /\ chain[Len(chain)].transactions
                = <<CreateTransaction(Len(chain) - 1, request.payload)>>

RefinementInv == LedgerInv /\ AppendInv /\ crashes = 0

(* A chain without its last block has its transactions without the last. *)
LEMMA EntriesGrow ==
    ASSUME NEW c, c \in Seq(Range(c)), Len(c) > 1
    PROVE  /\ EntriesOf(c) = Append(EntriesOf(SubSeq(c, 1, Len(c) - 1)),
                                    c[Len(c)].transactions[1])
           /\ Len(EntriesOf(SubSeq(c, 1, Len(c) - 1))) = Len(c) - 2
           /\ Len(c) - 1 \in DOMAIN EntriesOf(c)
           /\ EntriesOf(c)[Len(c) - 1] = c[Len(c)].transactions[1]
<1> DEFINE n == Len(c)
           d == SubSeq(c, 1, n - 1)
           T == {c[k].transactions[1] : k \in DOMAIN c}
           e == EntriesOf(c)
           f == EntriesOf(d)
<1>1. n \in Nat /\ n > 1 /\ DOMAIN c = 1..n /\ \A k \in 1..n : c[k] \in Range(c)
    BY LenProperties, ElementOfSeq
<1>2. Len(d) = n - 1 /\ \A k \in 1..(n - 1) : d[k] = c[k]
    BY <1>1, SubSeqProperties
<1> HIDE DEF n, d
<1>3. e = [k \in 1..(n - 1) |-> c[k + 1].transactions[1]]
    BY <1>1 DEF EntriesOf, n
<1>4. f = [k \in 1..(n - 2) |-> c[k + 1].transactions[1]]
    <2>1. CASE n = 2
        <3>1. f = <<>>
            BY <1>2, <2>1 DEF EntriesOf
        <3>2. 1..(n - 2) = {}
            BY <2>1
        <3> QED
            BY <3>1, <3>2
    <2>2. CASE n > 2
        <3>1. f = [k \in 1..(n - 2) |-> d[k + 1].transactions[1]]
            BY <1>1, <1>2, <2>2 DEF EntriesOf
        <3>2. \A k \in 1..(n - 2) : d[k + 1] = c[k + 1]
            BY <1>1, <1>2
        <3> QED
            BY <3>1, <3>2
    <2> QED
        BY <1>1, <2>1, <2>2
<1>5. \A k \in 1..(n - 1) : c[k + 1].transactions[1] \in T
    BY <1>1
<1> HIDE DEF e, f, T
<1>6. e \in Seq(T) /\ Len(e) = n - 1 /\ DOMAIN e = 1..(n - 1)
    <2>1. e \in [1..(n - 1) -> T] /\ n - 1 \in Nat
        BY <1>1, <1>3, <1>5
    <2>2. e \in Seq(T)
        BY <2>1, SeqDef
    <2>3. Len(e) \in Nat /\ 1..Len(e) = 1..(n - 1)
        BY <2>1, <2>2, LenProperties
    <2> QED
        BY <2>1, <2>2, <2>3, IntervalEnd
<1>7. f \in Seq(T) /\ Len(f) = n - 2
    <2>1. f \in [1..(n - 2) -> T] /\ n - 2 \in Nat
        BY <1>1, <1>4, <1>5
    <2>2. f \in Seq(T)
        BY <2>1, SeqDef
    <2>3. Len(f) \in Nat /\ 1..Len(f) = 1..(n - 2)
        BY <2>1, <2>2, LenProperties
    <2> QED
        BY <2>1, <2>2, <2>3, IntervalEnd
<1>8. c[n].transactions[1] \in T /\ e[n - 1] = c[n].transactions[1]
    <2>1. n - 1 \in 1..(n - 1) /\ (n - 1) + 1 = n
        BY <1>1
    <2> QED
        BY <1>3, <1>5, <2>1
<1>9. e = Append(f, c[n].transactions[1])
    <2> DEFINE x == c[n].transactions[1]
               g == Append(f, x)
    <2>1. x \in T
        BY <1>8
    <2> HIDE DEF x
    <2>2. /\ g \in Seq(T) /\ Len(g) = n - 1
          /\ \A k \in 1..(n - 2) : g[k] = f[k]
          /\ g[(n - 2) + 1] = x
        BY <1>1, <1>7, <2>1, AppendProperties
    <2>3. \A k \in 1..Len(e) : e[k] = g[k]
        <3>1. TAKE k \in 1..Len(e)
        <3>2. CASE k = n - 1
            BY <1>1, <1>8, <2>2, <3>2 DEF x
        <3>3. CASE k \in 1..(n - 2)
            BY <1>1, <1>3, <1>4, <2>2, <3>3
        <3>4. k = n - 1 \/ k \in 1..(n - 2)
            <4>1. n \in Nat /\ k \in 1..(n - 1)
                BY <1>1, <1>6
            <4> QED
                BY <4>1
        <3> QED
            BY <3>2, <3>3, <3>4
    <2> HIDE DEF g
    <2>4. e = g
        BY <1>6, <2>2, <2>3, SeqEqual
    <2> QED
        BY <2>4 DEF g, x
<1>10. n - 1 \in DOMAIN e
    <2>1. n - 1 \in 1..(n - 1)
        BY <1>1
    <2> QED
        BY <1>6, <2>1
<1> QED
    BY <1>7, <1>8, <1>9, <1>10 DEF e, f, d, n

(* Every step keeps what the refinement rests on. *)
LEMMA StepAppend ==
    ASSUME MaxCrashes = 0, RefinementInv, [Next]_vars
    PROVE  RefinementInv'
<1> USE DEF RefinementInv, LedgerInv
<1>1. LedgerInv'
    BY LedgerInduction
<1>2. crashes' = 0
    BY DEF Next, Begin, Handler, PutLength, PutBlock, InitRules, PutRulesAll, PutRule,
           OwnNothing, OwnAddTransaction, OwnAddRule, Throw, Reply, Crash, vars
<1>3. ASSUME NEW r \in Requests, Begin(r)
      PROVE  AppendInv'
    BY <1>3 DEF Begin, AppendInv, DurableInv
<1>4. ASSUME PutLength \/ PutBlock \/ InitRules \/ PutRulesAll \/ PutRule \/ OwnNothing
             \/ OwnAddRule
      PROVE  AppendInv'
    <2>1. UNCHANGED <<chain, request>> /\ pc # "idle"
        BY <1>4 DEF PutLength, PutBlock, InitRules, PutRulesAll, PutRule, OwnNothing, OwnAddRule
    <2>2. own' /\ request.op = "bc_addTransaction" => own
        BY <1>4 DEF PutLength, PutBlock, InitRules, PutRulesAll, PutRule, OwnNothing, OwnAddRule
    <2>3. own' /\ pc' \in {"length", "block"} => own /\ pc \in {"length", "block"}
        BY <1>4 DEF PutLength, PutBlock, InitRules, PutRulesAll, PutRule, OwnNothing, OwnAddRule,
                    ChainSaved, RulesSaved
    <2> QED
        BY <2>1, <2>2, <2>3 DEF AppendInv
<1>5. ASSUME OwnAddTransaction
      PROVE  AppendInv'
    <2> DEFINE last == chain[Len(chain)]
               tx   == CreateTransaction(LastTransactionId(chain) + 1, request.payload)
               b    == CreateBlock(last.index + 1, last.hash, <<tx>>, clock)
    <2>1. /\ chain \in Seq(Range(chain)) /\ NumberedChain(chain)
          /\ Len(chain) \in Nat /\ Len(chain) > 0 /\ chain' = Append(chain, b)
          /\ request' = request /\ request \in Requests /\ request.op = "bc_addTransaction"
        BY <1>5, ChainShape DEF OwnAddTransaction, NumberingInv, AppendInv
    <2>2. b.transactions = <<CreateTransaction(Len(chain), request.payload)>>
        <3>1. b.transactions = <<tx>>
            BY DEF CreateBlock
        <3>2. LastTransactionId(chain) = Len(chain) - 1
            BY <2>1, LastIdIsLastPosition
        <3>3. LastTransactionId(chain) + 1 = Len(chain)
            BY <2>1, <3>2
        <3> QED
            BY <3>1, <3>3
    <2> HIDE DEF b
    <2>3. Len(chain') = Len(chain) + 1 /\ chain'[Len(chain) + 1] = b
        BY <2>1, AppendElement
    <2>4. Len(chain') - 1 = Len(chain) /\ Len(chain') > 1
        BY <2>1, <2>3
    <2> QED
        BY <2>1, <2>2, <2>3, <2>4 DEF AppendInv
<1>6. ASSUME Throw \/ Reply \/ Crash
      PROVE  AppendInv'
    BY <1>6 DEF Throw, Reply, Crash, EndHandler, AppendInv
<1>7. ASSUME UNCHANGED vars
      PROVE  AppendInv'
    BY <1>7 DEF vars, memory, AppendInv
<1> QED
    BY <1>1, <1>2, <1>3, <1>4, <1>5, <1>6, <1>7 DEF Next, Handler
(* Every step appends the transaction that bc_addTransaction built, makes   *)
(* an appended one known to its caller, or leaves the journal alone.        *)
LEMMA StepRefines ==
    ASSUME MaxCrashes = 0, RefinementInv, [Next]_vars
    PROVE  [Abstract!Next]_<<Entries, Acknowledged>>
<1> USE DEF RefinementInv, LedgerInv
<1>1. Entries = EntriesOf(Committed) /\ Entries' = EntriesOf(Committed')
    BY DEF Entries, EntriesOf
<1>2. ASSUME NEW r \in Requests, Begin(r)
      PROVE  UNCHANGED <<Entries, Acknowledged>>
    <2>1. Committed = LoadChain /\ pc' # "idle" /\ ~own' /\ acked' = acked
        BY <1>2 DEF Begin, Committed, DurableInv
    <2>2. Committed' = chain'
        BY <2>1 DEF Committed
    <2>3. CASE chain' = LoadChain
        BY <1>1, <2>1, <2>2, <2>3 DEF Acknowledged
    <2>4. CASE LoadChain = Null /\ chain' = <<GenesisBlock(clock)>>
        <3>1. Len(Committed) = 0 /\ Len(Committed') = 1
            BY <2>1, <2>2, <2>4, GenesisIsNumbered DEF Null
        <3> QED
            BY <1>1, <2>1, <3>1 DEF EntriesOf, Acknowledged
    <2> QED
        BY <1>2, <2>3, <2>4 DEF Begin
<1>3. ASSUME PutLength \/ InitRules \/ PutRulesAll \/ PutRule \/ OwnNothing \/ OwnAddRule
      PROVE  UNCHANGED <<Entries, Acknowledged>>
    <2>1. UNCHANGED <<chain, acked>> /\ pc # "idle" /\ pc' # "idle"
        BY <1>3 DEF PutLength, InitRules, PutRulesAll, PutRule, OwnNothing, OwnAddRule, RulesSaved
    <2>2. (own /\ pc \in {"length", "block"}) <=> (own' /\ pc' \in {"length", "block"})
        BY <1>3 DEF PutLength, InitRules, PutRulesAll, PutRule, OwnNothing, OwnAddRule, RulesSaved
    <2>3. Committed' = Committed
        <3>1. CASE own /\ pc \in {"length", "block"}
            BY <2>1, <2>2, <3>1 DEF Committed
        <3>2. CASE ~(own /\ pc \in {"length", "block"})
            BY <2>1, <2>2, <3>2 DEF Committed
        <3> QED
            BY <3>1, <3>2
    <2> QED
        BY <1>1, <2>1, <2>3 DEF Acknowledged
<1>4. ASSUME PutBlock
      PROVE  Abstract!AppendEntry \/ UNCHANGED <<Entries, Acknowledged>>
    <2>1. UNCHANGED <<own, chain, acked>> /\ pc = "block" /\ pc' \in {"block", ChainSaved}
        BY <1>4 DEF PutBlock
    <2>2. CASE ~own
        <3>1. Committed = chain /\ Committed' = chain
            BY <2>1, <2>2 DEF Committed, ChainSaved
        <3> QED
            BY <1>1, <2>1, <3>1 DEF Acknowledged
    <2>3. CASE own /\ pc' = "block"
        <3>1. Committed = SubSeq(chain, 1, Len(chain) - 1)
              /\ Committed' = SubSeq(chain, 1, Len(chain) - 1)
            BY <2>1, <2>3 DEF Committed
        <3> QED
            BY <1>1, <2>1, <3>1 DEF Acknowledged
    <2>4. CASE own /\ pc' = "reply"
        <3>1. Committed = SubSeq(chain, 1, Len(chain) - 1) /\ Committed' = chain
            BY <2>1, <2>4 DEF Committed
        <3>2. /\ request \in Requests /\ request.op = "bc_addTransaction"
              /\ Len(chain) > 1 /\ chain \in Seq(Range(chain)) /\ Len(chain) \in Nat
              /\ chain[Len(chain)].transactions
                    = <<CreateTransaction(Len(chain) - 1, request.payload)>>
            BY <2>1, <2>4, ChainShape DEF AppendInv, NumberingInv
        <3>3. request.payload \in Payloads
            BY <3>2 DEF Requests
        <3>4. /\ Entries' = Append(Entries, chain[Len(chain)].transactions[1])
              /\ Len(Entries) = Len(chain) - 2
            BY <1>1, <3>1, <3>2, EntriesGrow
        <3>5. chain[Len(chain)].transactions[1] = Abstract!Entry(Len(Entries) + 1, request.payload)
            <4>1. Len(Entries) + 1 = Len(chain) - 1
                BY <3>2, <3>4
            <4> QED
                BY <3>2, <4>1 DEF CreateTransaction, Abstract!Entry
        <3>6. Acknowledged' = Acknowledged
            BY <2>1 DEF Acknowledged
        <3> QED
            BY <3>3, <3>4, <3>5, <3>6 DEF Abstract!AppendEntry, Acknowledged
    <2> QED
        BY <2>1, <2>2, <2>3, <2>4 DEF ChainSaved
<1>5. ASSUME OwnAddTransaction
      PROVE  UNCHANGED <<Entries, Acknowledged>>
    <2> DEFINE last == chain[Len(chain)]
               tx   == CreateTransaction(LastTransactionId(chain) + 1, request.payload)
               b    == CreateBlock(last.index + 1, last.hash, <<tx>>, clock)
    <2>1. /\ chain \in Seq(Range(chain)) /\ Len(chain) \in Nat /\ Len(chain) > 0
          /\ chain' = Append(chain, b) /\ pc = "own" /\ pc' = "length" /\ own' = TRUE
          /\ acked' = acked
        BY <1>5, ChainShape DEF OwnAddTransaction, NumberingInv
    <2> HIDE DEF b
    <2>2. /\ chain' \in Seq(Range(chain')) /\ Len(chain') = Len(chain) + 1
          /\ \A k \in 1..Len(chain) : chain'[k] = chain[k]
        BY <2>1, AppendElement
    <2>3. Committed = chain /\ Committed' = SubSeq(chain', 1, Len(chain') - 1)
        BY <2>1 DEF Committed
    <2>4. Committed' = chain
        <3> DEFINE s == SubSeq(chain', 1, Len(chain))
        <3>1. \A k \in 1..Len(chain) : chain'[k] \in Range(chain)
            BY <2>1, <2>2, ElementOfSeq
        <3>2. s \in Seq(Range(chain)) /\ Len(s) = Len(chain)
              /\ \A k \in 1..Len(chain) : s[k] = chain[k]
            BY <2>1, <2>2, <3>1, SubSeqProperties
        <3>3. Committed' = s
            BY <2>1, <2>2, <2>3
        <3> HIDE DEF s
        <3>4. s = chain
            BY <2>1, <3>2, SeqEqual
        <3> QED
            BY <3>3, <3>4
    <2> QED
        BY <1>1, <2>1, <2>3, <2>4 DEF Acknowledged
<1>6. ASSUME Throw \/ Reply
      PROVE  Abstract!Acknowledge \/ UNCHANGED <<Entries, Acknowledged>>
    <2>1. /\ UNCHANGED disk /\ pc' = "idle" /\ pc \notin {"idle", "length", "block"}
          /\ LoadChain' = LoadChain
        BY <1>6 DEF Throw, Reply, EndHandler, disk, LoadChain
    <2>2. Committed = chain /\ Committed' = chain
        <3>1. LoadChain = chain
            BY <2>1, StoredIsLoaded DEF DurableInv
        <3> QED
            BY <2>1, <3>1 DEF Committed
    <2>3. CASE acked' = acked
        BY <1>1, <2>2, <2>3 DEF Acknowledged
    <2>4. CASE Reply /\ request.op = "bc_addTransaction"
        <3> DEFINE b == chain[Len(chain)]
                   t == CreateTransaction(Len(chain) - 1, request.payload)
        <3>1. /\ acked' = acked \cup {b} /\ b.transactions = <<t>>
              /\ chain \in Seq(Range(chain)) /\ Len(chain) > 1
            BY <2>4 DEF Reply, AppendInv, DurableInv, NumberingInv
        <3>2. Len(chain) - 1 \in DOMAIN Entries /\ Entries[Len(chain) - 1] = t
            BY <1>1, <2>2, <3>1, EntriesGrow
        <3>3. Range(b.transactions) = {t}
            <4> HIDE DEF t, b
            <4> QED
                BY <3>1 DEF Range
        <3> HIDE DEF t, b
        <3>4. Acknowledged' = Acknowledged \cup {t}
            BY <3>1, <3>3 DEF Acknowledged
        <3>5. Entries' = Entries
            BY <1>1, <2>2
        <3> QED
            BY <3>2, <3>4, <3>5 DEF Abstract!Acknowledge, Acknowledged
    <2> QED
        BY <1>6, <2>3, <2>4 DEF Throw, Reply
<1>7. ~Crash
    BY DEF Crash
<1>8. ASSUME UNCHANGED vars
      PROVE  UNCHANGED <<Entries, Acknowledged>>
    <2>1. LoadChain' = LoadChain /\ UNCHANGED <<pc, own, chain, acked>>
        BY <1>8 DEF vars, disk, memory, LoadChain
    <2>2. Committed' = Committed
        BY <2>1 DEF Committed
    <2> QED
        BY <1>1, <2>1, <2>2 DEF Acknowledged
<1> QED
    BY <1>2, <1>3, <1>4, <1>5, <1>6, <1>7, <1>8 DEF Next, Handler, Abstract!Next, Acknowledged

(* The journal starts empty. *)
LEMMA InitRefines ==
    ASSUME MaxCrashes = 0, Init
    PROVE  RefinementInv /\ Entries = <<>> /\ Acknowledged = {}
<1>1. LedgerInv
    BY LedgerInduction
<1>2. AppendInv /\ crashes = 0
    BY DEF Init, AppendInv
<1>3. LoadChain = [k \in 1..0 |-> chainBlock[k - 1]]
    BY DEF Init, LoadChain
<1>4. Committed = <<>> /\ Len(<<>>) = 0
    BY <1>3 DEF Init, Committed
<1>5. Entries = <<>>
    BY <1>4 DEF Entries
<1> QED
    BY <1>1, <1>2, <1>5 DEF RefinementInv, Init, Acknowledged

(* The journal that scripts/blockchain keeps in RocksDB is an append-only   *)
(* one, as long as the process does not die: entries are appended one at a  *)
(* time under consecutive numbers, never changed, and acknowledged only     *)
(* once they are in the chain that later handlers load.                     *)
THEOREM JournalIsImmutable == MaxCrashes = 0 => (Spec => ImplementsImmutableLedger)
<1> SUFFICES ASSUME MaxCrashes = 0
             PROVE  Spec => ImplementsImmutableLedger
    OBVIOUS
<1>1. Init => RefinementInv /\ Abstract!Init
    BY InitRefines DEF Abstract!Init, Acknowledged
<1>2. RefinementInv /\ [Next]_vars => RefinementInv'
    BY StepAppend
<1>3. RefinementInv /\ [Next]_vars
        => [Abstract!Next]_<<Entries, UNION {Range(b.transactions) : b \in acked}>>
    BY StepRefines DEF Acknowledged
<1> QED
    BY <1>1, <1>2, <1>3, PTL DEF Spec, ImplementsImmutableLedger, Abstract!Spec
=============================================================================
