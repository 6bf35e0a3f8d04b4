--------------------------- MODULE ApiServerProofs --------------------------
(* Proofs about ApiServer: looking a name up and inserting it later is safe *)
(* on any number of threads and through any number of crashes, because a    *)
(* handler runs from its first query to its answer inside one v8::Locker.   *)
EXTENDS ApiServer, SequenceTheorems, TLAPS

(* pc and current have a value for every worker *)
Shape == DOMAIN pc = Workers /\ DOMAIN current = Workers

ServerInv == Shape /\ NameInv

(* A step of a worker leaves the places and the requests of the others      *)
(* alone, whichever of the two ways the step has to end.                    *)
LEMMA OthersStay ==
    ASSUME Shape, NEW w \in Workers,
           \/ \E place : Goto(w, place)
           \/ \E code : Answer(w, code)
           \/ Start(w)
    PROVE  /\ Shape'
           /\ \A v \in Workers \ {w} : pc'[v] = pc[v] /\ current'[v] = current[v]
<1>1. CASE \E place : Goto(w, place)
  BY <1>1 DEF Goto, Shape
<1>2. CASE \E code : Answer(w, code)
  BY <1>2 DEF Answer, Shape
<1>3. CASE Start(w)
  BY <1>3 DEF Start, Shape
<1> QED  BY <1>1, <1>2, <1>3

(* A worker that moves between places outside the Locker, or out of it,     *)
(* while the table stays as it is, keeps the invariant.                     *)
LEMMA OutsideStep ==
    ASSUME ServerInv, Shape', NEW w \in Workers,
           \A v \in Workers \ {w} : pc'[v] = pc[v] /\ current'[v] = current[v],
           pc'[w] \notin UnderLocker,
           locker' = locker \/ pc[w] \in UnderLocker,
           users' = users
    PROVE  ServerInv'
<1> USE DEF ServerInv, NameInv
<1>1. HolderIsInside'
  BY DEF HolderIsInside
<1>2. CheckedNameIsFree'
  BY DEF CheckedNameIsFree, Found, UserNames, UnderLocker
<1>3. OneRowPerName'
  BY DEF OneRowPerName
<1> QED  BY <1>1, <1>2, <1>3

(* A worker that takes the free Locker keeps the invariant. *)
LEMMA LockStep ==
    ASSUME ServerInv, NEW w \in Workers, NEW place \in {"verify", "check"},
           NoWorker \notin Workers,
           locker = NoWorker, locker' = w, Goto(w, place), users' = users
    PROVE  ServerInv'
<1> USE DEF ServerInv, NameInv
<1>1. /\ Shape'
      /\ \A v \in Workers \ {w} : pc'[v] = pc[v] /\ current'[v] = current[v]
  BY OthersStay
<1>2. \A v \in Workers : pc[v] \notin UnderLocker
  BY DEF HolderIsInside
<1>3. pc'[w] = place
  BY DEF Goto, Shape
<1>4. HolderIsInside'
  BY <1>1, <1>2 DEF HolderIsInside
<1>5. CheckedNameIsFree'
  BY <1>1, <1>2, <1>3 DEF CheckedNameIsFree, UnderLocker
<1>6. OneRowPerName'
  BY DEF OneRowPerName
<1> QED  BY <1>1, <1>4, <1>5, <1>6

(* The invariant holds at the start: no worker is anywhere, no user exists. *)
LEMMA InitServer == Init => ServerInv
BY DEF Init, ServerInv, Shape, NameInv, HolderIsInside, CheckedNameIsFree,
       OneRowPerName, UnderLocker

(* Every step of a worker keeps the invariant: the two that take the        *)
(* Locker, the two that stay inside it, and the others.                     *)
LEMMA ServeServer ==
    ASSUME ServerInv, NEW w \in Workers, Serve(w)
    PROVE  ServerInv'
<1> USE DEF ServerInv, NameInv
<1>1. NoWorker \notin Workers
  BY RequestAssumption
<1>2. /\ Shape'
      /\ \A v \in Workers \ {w} : pc'[v] = pc[v] /\ current'[v] = current[v]
  <2>1. \/ \E place : Goto(w, place)
        \/ \E code : Answer(w, code)
        \/ Start(w)
    BY DEF Serve, LockVerify, Verify, Route, UpstreamEnds,
           LockHandler, Check, Throw, Insert, Return
  <2> QED  BY <2>1, OthersStay
<1>3. CASE LockVerify(w)
  BY <1>1, <1>3, LockStep DEF LockVerify
<1>4. CASE LockHandler(w)
  BY <1>1, <1>4, LockStep DEF LockHandler
<1>5. CASE Check(w)
  <2>1. /\ pc[w] = "check" /\ pc'[w] = "insert" /\ current' = current
        /\ locker' = locker /\ users' = users /\ ~Refuses(current[w])
    BY <1>5 DEF Check, Goto, Shape
  <2>2. HolderIsInside'
    BY <1>2, <2>1 DEF HolderIsInside, UnderLocker
  <2>3. CheckedNameIsFree'
    BY <1>2, <2>1 DEF CheckedNameIsFree, Found, UserNames, Refuses
  <2>4. OneRowPerName'
    BY <2>1 DEF OneRowPerName
  <2> QED  BY <1>2, <2>2, <2>3, <2>4
<1>6. CASE Insert(w)
  <2>1. /\ pc[w] = "insert" /\ locker' = locker
        /\ \/ current[w].route = "signup" /\ pc'[w] = "return"
           \/ /\ current[w].route = "protected" /\ pc'[w] \in {"insert", "return"}
              /\ users' = users /\ current'[w] = current[w]
    BY <1>6 DEF Insert, Goto, Shape
  <2>2. HolderIsInside'
    BY <1>2, <2>1 DEF HolderIsInside, UnderLocker
  <2>3. \A v \in Workers \ {w} : pc[v] # "insert"
    BY <2>1 DEF HolderIsInside, UnderLocker
  <2>4. CheckedNameIsFree'
    <3>1. ASSUME NEW v \in Workers, pc'[v] = "insert", current'[v].route = "signup"
          PROVE  FALSE
      BY <1>2, <2>1, <2>3, <3>1
    <3> QED  BY <3>1 DEF CheckedNameIsFree
  <2>5. OneRowPerName'
    <3>1. CASE current[w].route = "signup"
      <4> DEFINE name == Lower[current[w].name]
      <4>1. \A t \in DOMAIN users : ReadWhole(name) => users[t] # name
        <5>1. \A n \in UserNames : Sought[name] \notin {n, NoName}
          BY <2>1, <3>1 DEF CheckedNameIsFree, Found
        <5> QED  BY <5>1 DEF UserNames, ReadWhole
      <4>2. PICK now \in clock..MaxClock :
              users' = [t \in DOMAIN users \cup {now} |-> IF t = now THEN name ELSE users[t]]
        BY <1>6, <3>1 DEF Insert, InsertUser
      <4>3. /\ DOMAIN users' = DOMAIN users \cup {now}
            /\ users'[now] = name
            /\ \A t \in DOMAIN users \ {now} : users'[t] = users[t]
        BY <4>2
      <4> HIDE DEF name
      <4> QED  BY <4>1, <4>3 DEF OneRowPerName
    <3>2. CASE current[w].route # "signup"
      BY <1>6, <3>2 DEF Insert, OneRowPerName
    <3> QED  BY <3>1, <3>2
  <2> QED  BY <1>2, <2>2, <2>4, <2>5
<1>7. ASSUME \/ Start(w) \/ Verify(w) \/ Route(w)
             \/ UpstreamEnds(w) \/ Throw(w) \/ Return(w)
      PROVE  ServerInv'
  <2>1. /\ users' = users
        /\ locker' = locker \/ pc[w] \in UnderLocker
    BY <1>7 DEF Start, Verify, Route, UpstreamEnds, Throw,
                Return, UnderLocker
  <2>2. pc'[w] \notin UnderLocker
    <3>1. CASE Start(w)
      BY <3>1 DEF Start, Shape, UnderLocker
    <3>2. ASSUME \/ \E code : Answer(w, code)
                 \/ \E place \in {"route", "lockVerify", "upstream", "lockHandler"} :
                       Goto(w, place)
          PROVE  pc'[w] \notin UnderLocker
      BY <3>2 DEF Answer, Goto, Shape, UnderLocker
    <3> QED  BY <1>7, <3>1, <3>2 DEF Verify, Route, UpstreamEnds,
                                     Throw, Return
  <2> QED  BY <1>2, <2>1, <2>2, OutsideStep
<1> QED  BY <1>3, <1>4, <1>5, <1>6, <1>7 DEF Serve

(* Every step keeps the invariant. *)
LEMMA StepServer == ServerInv /\ [Next]_vars => ServerInv'
<1> SUFFICES ASSUME ServerInv, [Next]_vars  PROVE ServerInv'
  OBVIOUS
<1>1. ASSUME UNCHANGED <<users, locker, pc, current>>  PROVE ServerInv'
  BY <1>1 DEF ServerInv, Shape, NameInv, HolderIsInside, CheckedNameIsFree,
              OneRowPerName, Found, UserNames
<1>2. ASSUME NEW w \in Workers, Serve(w)  PROVE ServerInv'
  BY <1>2, ServeServer
<1>3. CASE Crash
  BY <1>3 DEF Crash, ServerInv, Shape, NameInv, HolderIsInside,
              CheckedNameIsFree, OneRowPerName, UnderLocker
<1> QED  BY <1>1, <1>2, <1>3 DEF Next, Arrive, vars

(* At every moment, each name that signup's lookup reads whole is in at     *)
(* most one row of users, for any set of threads, of requests and of names, *)
(* whatever the lookup reads of them, and any number of crashes.            *)
THEOREM NamesAreUnique == Spec => []OneRowPerName
<1>1. ServerInv => OneRowPerName
  BY DEF ServerInv, NameInv
<1> QED  BY <1>1, InitServer, StepServer, PTL DEF Spec
-----------------------------------------------------------------------------
(* Types.  A worker that is not idle has a request. *)
BusyHasRequest ==
    \A w \in Workers : pc[w] = "idle" <=> current[w] \notin Requests

Places == {"idle", "lockVerify", "verify", "route",
           "upstream", "lockHandler", "check", "insert", "return"}

TypeInv == TypeOK /\ BusyHasRequest

(* A worker that goes on, or answers, keeps the types. *)
LEMMA MoveTypes ==
    ASSUME TypeInv, NEW w \in Workers, pc[w] # "idle",
           \/ \E place \in Places \ {"idle"} : Goto(w, place)
           \/ \E code \in Answers : Answer(w, code)
    PROVE  /\ pc' \in [Workers -> Places]
           /\ current' \in [Workers -> Requests \cup {NoRequest}]
           /\ status' \in [Requests -> Answers \cup {"new", "waiting", "dropped"}]
           /\ BusyHasRequest'
<1> USE DEF TypeInv, TypeOK, BusyHasRequest, Places
<1>1. CASE \E place \in Places \ {"idle"} : Goto(w, place)
  BY <1>1 DEF Goto
<1>2. CASE \E code \in Answers : Answer(w, code)
  <2>1. PICK code \in Answers : Answer(w, code)
    BY <1>2
  <2>2. current[w] \in Requests
    OBVIOUS
  <2>3. NoRequest \notin Requests
    BY RequestAssumption
  <2>4. /\ pc' = [pc EXCEPT ![w] = "idle"]
        /\ current' = [current EXCEPT ![w] = NoRequest]
        /\ status' = [status EXCEPT ![current[w]] = code]
    BY <2>1 DEF Answer
  <2>5. BusyHasRequest'
    BY <2>3, <2>4
  <2> QED  BY <2>2, <2>4, <2>5
<1> QED  BY <1>1, <1>2

(* The steps of a worker on the request it has, and what they may touch *)
LEMMA ServeKinds ==
    ASSUME TypeInv, NEW w \in Workers, Serve(w), ~Start(w)
    PROVE  /\ pc[w] # "idle"
           /\ \/ \E place \in Places \ {"idle"} : Goto(w, place)
              \/ \E code \in Answers : Answer(w, code)
           /\ UNCHANGED <<queue, crashes>>
           /\ locker' \in {locker, w, NoWorker}
           /\ Insert(w) \/ UNCHANGED <<users, inserted, clock>>
BY DEF Serve, LockVerify, Verify, Route, UpstreamEnds, LockHandler, Check,
       Throw, Insert, Return, Places, Answers

(* signup puts a name in lower case under a time that is not over the bound *)
LEMMA InsertTypes ==
    ASSUME TypeInv, NEW w \in Workers, Insert(w)
    PROVE  /\ DOMAIN users' \subseteq 0..MaxClock
           /\ \A t \in DOMAIN users' : \E n \in DOMAIN Lower : users'[t] = Lower[n]
           /\ inserted' \subseteq Requests
           /\ clock' \in 0..MaxClock
<1> USE DEF TypeInv, TypeOK
<1>1. current[w] \in Requests
  BY DEF Insert, BusyHasRequest
<1>2. inserted' \subseteq Requests
  BY <1>1 DEF Insert
<1>3. CASE current[w].route = "signup"
  <2> DEFINE n == current[w].name
  <2>1. n \in DOMAIN Lower
    BY <1>1, RequestAssumption
  <2> HIDE DEF n
  <2>2. InsertUser(Lower[n])
    BY <1>3 DEF Insert, n
  <2>3. PICK now \in clock..MaxClock :
          /\ clock' = now
          /\ users' = [t \in DOMAIN users \cup {now} |-> IF t = now THEN Lower[n] ELSE users[t]]
    BY <2>2 DEF InsertUser
  <2>4. now \in 0..MaxClock
    BY <2>3, RequestAssumption
  <2> QED  BY <1>2, <2>1, <2>3, <2>4
<1>4. CASE current[w].route # "signup"
  BY <1>2, <1>4 DEF Insert
<1> QED  BY <1>3, <1>4

(* Init has the types. *)
LEMMA InitTypes == Init => TypeInv
<1> SUFFICES ASSUME Init PROVE TypeInv
  OBVIOUS
<1>1. NoRequest \notin Requests /\ MaxClock \in Nat /\ MaxCrashes \in Nat
  BY RequestAssumption
<1>2. <<>> \in Seq(Requests)
  BY EmptySeq
<1> QED  BY <1>1, <1>2 DEF Init, TypeInv, TypeOK, BusyHasRequest

(* Every step keeps the types. *)
LEMMA StepTypes == TypeInv /\ [Next]_vars => TypeInv'
<1> SUFFICES ASSUME TypeInv, [Next]_vars PROVE TypeInv'
  OBVIOUS
<1> USE DEF TypeInv, TypeOK
<1>1. ASSUME NEW r \in Requests, NEW w \in Workers, Arrive(r, w)  PROVE TypeInv'
  <2>1. Append(queue[w], r) \in Seq(Requests)
    BY AppendProperties
  <2> QED  BY <1>1, <2>1 DEF Arrive, BusyHasRequest
<1>2. ASSUME NEW w \in Workers, Start(w)  PROVE TypeInv'
  <2>1. queue[w] \in Seq(Requests) /\ queue[w] # <<>>
    BY <1>2 DEF Start
  <2>2. Head(queue[w]) \in Requests /\ Tail(queue[w]) \in Seq(Requests)
    BY <2>1, HeadTailProperties
  <2>3. NoRequest \notin Requests
    BY RequestAssumption
  <2>4. /\ queue' \in [Workers -> Seq(Requests)]
        /\ UNCHANGED <<users, locker, inserted, clock, crashes>>
    BY <1>2, <2>2 DEF Start
  <2> DEFINE r == Head(queue[w])
  <2> HIDE DEF r
  <2>5. CASE status' = [status EXCEPT ![r] = "401"] /\ UNCHANGED <<pc, current>>
    BY <2>4, <2>5 DEF Answers, BusyHasRequest
  <2>6. CASE /\ current' = [current EXCEPT ![w] = r]
             /\ pc' = [pc EXCEPT ![w] = IF Public(r) THEN "route" ELSE "lockVerify"]
             /\ UNCHANGED status
    BY <2>2, <2>4, <2>6 DEF BusyHasRequest, r
  <2> QED  BY <1>2, <2>5, <2>6 DEF Start, r
<1>3. ASSUME NEW w \in Workers, Serve(w), ~Start(w)  PROVE TypeInv'
  <2>1. /\ pc' \in [Workers -> Places]
        /\ current' \in [Workers -> Requests \cup {NoRequest}]
        /\ status' \in [Requests -> Answers \cup {"new", "waiting", "dropped"}]
        /\ BusyHasRequest'
    BY <1>3, ServeKinds, MoveTypes
  <2>2. UNCHANGED <<queue, crashes>> /\ locker' \in Workers \cup {NoWorker}
    BY <1>3, ServeKinds
  <2>3. /\ DOMAIN users' \subseteq 0..MaxClock
        /\ \A t \in DOMAIN users' : \E n \in DOMAIN Lower : users'[t] = Lower[n]
        /\ inserted' \subseteq Requests
        /\ clock' \in 0..MaxClock
    BY <1>3, ServeKinds, InsertTypes
  <2> QED  BY <2>1, <2>2, <2>3 DEF Places
<1>4. CASE Crash
  <2>1. <<>> \in Seq(Requests) /\ NoRequest \notin Requests
        /\ MaxCrashes \in Nat /\ crashes' \in 0..MaxCrashes
    BY <1>4, EmptySeq, RequestAssumption DEF Crash
  <2>2. status' \in [Requests -> Answers \cup {"new", "waiting", "dropped"}]
    BY <1>4 DEF Crash
  <2>3. /\ queue' \in [Workers -> Seq(Requests)] /\ BusyHasRequest'
        /\ current' \in [Workers -> Requests \cup {NoRequest}]
        /\ pc' \in [Workers -> Places]
    BY <1>4, <2>1 DEF Crash, BusyHasRequest, Places
  <2> QED  BY <1>4, <2>1, <2>2, <2>3 DEF Crash, Places
<1>5. CASE UNCHANGED vars
  BY <1>5 DEF vars, BusyHasRequest
<1> QED  BY <1>1, <1>2, <1>3, <1>4, <1>5 DEF Next

(* The variables of the server always have their types. *)
THEOREM ServerTypes == Spec => []TypeOK
<1>1. TypeInv => TypeOK
  BY DEF TypeInv
<1> QED  BY <1>1, InitTypes, StepTypes, PTL DEF Spec
-----------------------------------------------------------------------------
(* What a handler does is authorised, and an error is reported only where   *)
(* it could stop halfway.  The induction needs that a request is in one place only, so that nobody else *)
(* answers it, and what each place says of the checks it has passed.        *)

Positions(w) == 1..Len(queue[w])

(* A request that waits is on one connection or with one worker, once *)
InOnePlace ==
    /\ \A w \in Workers : current[w] \in Requests => status[current[w]] = "waiting"
    /\ \A w \in Workers : \A n \in Positions(w) : status[queue[w][n]] = "waiting"
    /\ \A v, w \in Workers : current[v] = current[w] /\ current[v] \in Requests => v = w
    /\ \A v, w \in Workers : \A n \in Positions(w) : queue[w][n] # current[v]
    /\ \A v, w \in Workers : \A m \in Positions(v), n \in Positions(w) :
          queue[v][m] = queue[w][n] => v = w /\ m = n

(* Behind the middleware the header is good, behind the check the body *)
ChecksPassed ==
    \A w \in Workers : current[w] \in Requests /\ ~Public(current[w]) =>
        /\ pc[w] \notin {"lockVerify", "verify"} => current[w].header = "good"
        /\ pc[w] \in {"insert", "return"} => current[w].body = "good"

(* An effect belongs to a request that is about to be answered with 200,    *)
(* that a handler behind the middleware is still busy with, or that is out  *)
(* of the server                                                            *)
EffectIsLast ==
    \A r \in inserted :
        /\ \A w \in Workers : current[w] = r =>
              pc[w] = "return" \/ (pc[w] = "insert" /\ r.route = "protected")
        /\ \A w \in Workers : \A n \in Positions(w) : queue[w][n] # r

EffectInv == TypeInv /\ InOnePlace /\ ChecksPassed /\ EffectIsLast /\ EffectsAreAuthorized

(* The effects so far stay authorised while their requests are answered     *)
(* with 200, dropped or left alone, or with 404 behind the middleware.      *)
LEMMA EffectsStay ==
    ASSUME EffectInv, inserted' = inserted,
           \A r \in inserted : \/ status'[r] \in {status[r], "200", "dropped"}
                               \/ status'[r] = "404" /\ ~Public(r)
    PROVE  EffectsAreAuthorized'
BY DEF EffectInv, EffectsAreAuthorized, Public

(* A client's request joins a queue. *)
LEMMA ArriveEffects ==
    ASSUME EffectInv, NEW r \in Requests, NEW w \in Workers, Arrive(r, w), TypeInv'
    PROVE  EffectInv'
<1> USE DEF EffectInv
<1>1. /\ queue[w] \in Seq(Requests) /\ status[r] = "new"
      /\ queue' = [queue EXCEPT ![w] = Append(queue[w], r)]
      /\ status' = [status EXCEPT ![r] = "waiting"]
      /\ UNCHANGED <<pc, current, inserted>>
  BY DEF Arrive, TypeInv, TypeOK
<1>2. /\ queue \in [Workers -> Seq(Requests)]
      /\ status \in [Requests -> Answers \cup {"new", "waiting", "dropped"}]
      /\ inserted \subseteq Requests
  BY DEF TypeInv, TypeOK
<1>3. \A v \in Workers : \A n \in Positions(v) : queue[v][n] \in Requests /\ queue[v][n] # r
  <2>1. \A v \in Workers : \A n \in Positions(v) : queue[v][n] \in Requests
    BY <1>2, ElementOfSeq DEF Positions
  <2> QED  BY <1>1, <2>1 DEF InOnePlace
<1>4. /\ \A v \in Workers : r # current[v]
      /\ r \notin inserted
  BY <1>1 DEF InOnePlace, EffectsAreAuthorized
<1>5. /\ Len(queue[w]) \in Nat /\ Len(queue'[w]) = Len(queue[w]) + 1
      /\ \A n \in 1..Len(queue[w]) : queue'[w][n] = queue[w][n]
      /\ queue'[w][Len(queue[w]) + 1] = r
      /\ \A v \in Workers \ {w} : queue'[v] = queue[v]
  <2>1. queue'[w] = Append(queue[w], r) /\ \A v \in Workers \ {w} : queue'[v] = queue[v]
    BY <1>1, <1>2
  <2> QED  BY <1>1, <2>1, AppendProperties, LenProperties
<1>6. /\ Positions(w)' = Positions(w) \cup {Len(queue[w]) + 1}
      /\ \A v \in Workers \ {w} : Positions(v)' = Positions(v)
      /\ Len(queue[w]) + 1 \notin Positions(w)
  BY <1>5 DEF Positions
<1>7. \A v \in Workers : \A n \in Positions(v)' :
         \/ n \in Positions(v) /\ queue'[v][n] = queue[v][n]
         \/ v = w /\ n = Len(queue[w]) + 1 /\ queue'[v][n] = r
  BY <1>5, <1>6 DEF Positions
<1>8. InOnePlace'
  <2>1. ASSUME NEW v \in Workers, NEW n \in Positions(v)'
        PROVE  status'[queue'[v][n]] = "waiting"
    <3>1. CASE n \in Positions(v) /\ queue'[v][n] = queue[v][n]
      BY <1>1, <1>2, <1>3, <3>1 DEF InOnePlace, Positions
    <3>2. CASE queue'[v][n] = r
      BY <1>1, <1>2, <3>2
    <3> QED  BY <1>7, <3>1, <3>2
  <2>2. \A v \in Workers : current'[v] \in Requests => status'[current'[v]] = "waiting"
    BY <1>1, <1>2, <1>4 DEF InOnePlace
  <2>3. ASSUME NEW u \in Workers, NEW v \in Workers, NEW n \in Positions(v)'
        PROVE  queue'[v][n] # current'[u]
    <3>1. CASE n \in Positions(v) /\ queue'[v][n] = queue[v][n]
      BY <1>1, <3>1 DEF InOnePlace, Positions
    <3>2. CASE queue'[v][n] = r
      BY <1>1, <1>4, <3>2
    <3> QED  BY <1>7, <3>1, <3>2
  <2>4. \A u, v \in Workers : \A m \in Positions(u)', n \in Positions(v)' :
           queue'[u][m] = queue'[v][n] => u = v /\ m = n
    BY <1>3, <1>7 DEF InOnePlace
  <2> QED  BY <1>1, <2>1, <2>2, <2>3, <2>4 DEF InOnePlace
<1>9. ChecksPassed'
  BY <1>1 DEF ChecksPassed, Public
<1>10. EffectIsLast'
  <2>1. inserted' = inserted /\ pc' = pc /\ current' = current
    BY <1>1
  <2>2. ASSUME NEW q \in inserted, NEW v \in Workers, NEW n \in Positions(v)'
        PROVE  queue'[v][n] # q
    <3>1. CASE n \in Positions(v) /\ queue'[v][n] = queue[v][n]
      BY <3>1 DEF EffectIsLast
    <3>2. CASE queue'[v][n] = r
      BY <1>4, <3>2
    <3> QED  BY <1>7, <3>1, <3>2
  <2>3. \A q \in inserted : \A v \in Workers : current[v] = q =>
           pc[v] = "return" \/ (pc[v] = "insert" /\ q.route = "protected")
    BY DEF EffectIsLast
  <2> QED  BY <2>1, <2>2, <2>3 DEF EffectIsLast
<1>11. EffectsAreAuthorized'
  BY <1>1, <1>2, <1>4, EffectsStay
<1> QED  BY <1>8, <1>9, <1>10, <1>11

(* A worker takes the first request of its queue, or refuses it. *)
LEMMA StartEffects ==
    ASSUME EffectInv, NEW w \in Workers, Start(w), TypeInv'
    PROVE  EffectInv'
<1> USE DEF EffectInv
<1> DEFINE r == Head(queue[w])
<1>1. /\ queue \in [Workers -> Seq(Requests)] /\ queue[w] # <<>>
      /\ status \in [Requests -> Answers \cup {"new", "waiting", "dropped"}]
      /\ pc \in [Workers -> Places]
      /\ current \in [Workers -> Requests \cup {NoRequest}]
      /\ NoRequest \notin Requests
      /\ current[w] \notin Requests
  BY RequestAssumption DEF Start, TypeInv, TypeOK, Places, BusyHasRequest
<1>2. /\ queue' = [queue EXCEPT ![w] = Tail(queue[w])] /\ inserted' = inserted
      /\ r \in Requests
  BY <1>1, HeadTailProperties DEF Start
<1>3. /\ Len(queue[w]) \in Nat /\ Len(queue[w]) # 0
      /\ r = queue[w][1]
      /\ Len(queue'[w]) = Len(queue[w]) - 1
      /\ \A n \in 1..(Len(queue[w]) - 1) : queue'[w][n] = queue[w][n + 1]
  <2>1. queue[w] \in Seq(Requests) /\ queue'[w] = Tail(queue[w])
    BY <1>1, <1>2
  <2> QED  BY <1>1, <2>1, HeadTailProperties, LenProperties, EmptySeq
<1>4. \A v \in Workers : \A n \in Positions(v) : queue[v][n] \in Requests
  BY <1>1, ElementOfSeq DEF Positions
<1>5. \A v \in Workers : \A n \in Positions(v)' :
         \E m \in Positions(v) : /\ queue'[v][n] = queue[v][m]
                                /\ m = IF v = w THEN n + 1 ELSE n
  <2>1. SUFFICES ASSUME NEW v \in Workers, NEW n \in Positions(v)'
                 PROVE  \E m \in Positions(v) : /\ queue'[v][n] = queue[v][m]
                                               /\ m = IF v = w THEN n + 1 ELSE n
    OBVIOUS
  <2>2. CASE v = w
    <3>1. n \in 1..(Len(queue[w]) - 1)
      BY <1>3, <2>2 DEF Positions
    <3>2. n + 1 \in Positions(v)
      BY <1>3, <2>2, <3>1 DEF Positions
    <3> QED  BY <1>3, <2>2, <3>1, <3>2
  <2>3. CASE v # w
    BY <1>1, <1>2, <2>3 DEF Positions
  <2> QED  BY <2>2, <2>3
<1>6. /\ \A v \in Workers : \A n \in Positions(v)' : queue'[v][n] # r
      /\ \A v \in Workers : current[v] # r
      /\ status[r] = "waiting"
      /\ r \notin inserted
  <2>1. 1 \in Positions(w)
    BY <1>3 DEF Positions
  <2>2. ASSUME NEW v \in Workers, NEW n \in Positions(v)', queue'[v][n] = r
        PROVE  FALSE
    <3>1. PICK m \in Positions(v) : /\ queue'[v][n] = queue[v][m]
                                    /\ m = IF v = w THEN n + 1 ELSE n
      BY <1>5
    <3>2. v = w /\ m = 1
      BY <1>3, <2>1, <2>2, <3>1 DEF InOnePlace
    <3>3. n \in 1..Len(queue'[w])
      BY <3>2 DEF Positions
    <3> QED  BY <1>3, <3>1, <3>2, <3>3
  <2> QED  BY <1>3, <2>1, <2>2 DEF InOnePlace, EffectIsLast
<1>7. \A u, v \in Workers : \A m \in Positions(u)', n \in Positions(v)' :
         queue'[u][m] = queue'[v][n] => u = v /\ m = n
  <2>1. SUFFICES ASSUME NEW u \in Workers, NEW v \in Workers,
                        NEW m \in Positions(u)', NEW n \in Positions(v)',
                        queue'[u][m] = queue'[v][n]
                 PROVE  u = v /\ m = n
    OBVIOUS
  <2>2. PICK k \in Positions(u) : /\ queue'[u][m] = queue[u][k]
                                  /\ k = IF u = w THEN m + 1 ELSE m
    BY <1>5
  <2>3. PICK l \in Positions(v) : /\ queue'[v][n] = queue[v][l]
                                  /\ l = IF v = w THEN n + 1 ELSE n
    BY <1>5
  <2>4. u = v /\ k = l
    <3>1. queue[u][k] = queue[v][l]
      BY <2>1, <2>2, <2>3
    <3>2. \A x, y \in Workers : \A i \in Positions(x), j \in Positions(y) :
             queue[x][i] = queue[y][j] => x = y /\ i = j
      BY DEF InOnePlace
    <3> QED  BY <3>1, <3>2
  <2>5. m \in Int /\ n \in Int
    BY DEF Positions
  <2> QED  BY <2>2, <2>3, <2>4, <2>5
<1> HIDE DEF r
<1>8. CASE status' = [status EXCEPT ![r] = "401"] /\ UNCHANGED <<pc, current>>
  <2>1. ASSUME NEW v \in Workers, NEW n \in Positions(v)'
        PROVE  /\ status'[queue'[v][n]] = "waiting"
               /\ \A u \in Workers : queue'[v][n] # current'[u]
               /\ \A q \in inserted : queue'[v][n] # q
    <3>1. PICK m \in Positions(v) : queue'[v][n] = queue[v][m]
      BY <1>5
    <3>2. queue[v][m] # r /\ queue[v][m] \in Requests
      BY <1>4, <1>6, <3>1
    <3>3. status[queue[v][m]] = "waiting"
      BY DEF InOnePlace
    <3>4. status'[queue[v][m]] = "waiting"
      <4>1. status \in [Requests -> Answers \cup {"new", "waiting", "dropped"}]
        BY DEF TypeInv, TypeOK
      <4> QED  BY <1>8, <3>2, <3>3, <4>1
    <3>5. \A u \in Workers : queue[v][m] # current[u]
      BY DEF InOnePlace
    <3>6. \A q \in inserted : queue[v][m] # q
      BY DEF EffectIsLast
    <3> QED  BY <1>8, <3>1, <3>4, <3>5, <3>6
  <2>2. \A v \in Workers : current'[v] \in Requests => status'[current'[v]] = "waiting"
    BY <1>1, <1>6, <1>8 DEF InOnePlace
  <2>3. InOnePlace'
    BY <1>7, <1>8, <2>1, <2>2 DEF InOnePlace
  <2>4. ChecksPassed'
    BY <1>8 DEF ChecksPassed, Public
  <2>5. EffectIsLast'
    <3>1. \A q \in inserted' : \A v \in Workers : current'[v] = q =>
             pc'[v] = "return" \/ (pc'[v] = "insert" /\ q.route = "protected")
      BY <1>2, <1>8 DEF EffectIsLast
    <3>2. \A q \in inserted' : \A v \in Workers : \A n \in Positions(v)' : queue'[v][n] # q
      <4>1. inserted' = inserted
        BY <1>2
      <4> QED  BY <2>1, <4>1
    <3> QED  BY <3>1, <3>2 DEF EffectIsLast
  <2>6. EffectsAreAuthorized'
    BY <1>1, <1>2, <1>6, <1>8, EffectsStay DEF TypeInv, TypeOK
  <2> QED  BY <2>3, <2>4, <2>5, <2>6
<1>9. CASE /\ current' = [current EXCEPT ![w] = r]
           /\ pc' = [pc EXCEPT ![w] = IF Public(r) THEN "route" ELSE "lockVerify"]
           /\ UNCHANGED status
  <2>1. ASSUME NEW v \in Workers, NEW n \in Positions(v)'
        PROVE  /\ status'[queue'[v][n]] = "waiting"
               /\ \A u \in Workers : queue'[v][n] # current'[u]
               /\ \A q \in inserted : queue'[v][n] # q
    <3>1. PICK m \in Positions(v) : queue'[v][n] = queue[v][m]
      BY <1>5
    <3>2. queue[v][m] # r /\ queue[v][m] \in Requests
      BY <1>4, <1>6, <3>1
    <3>3. \A u \in Workers : queue[v][m] # current'[u]
      BY <1>1, <1>9, <3>2 DEF InOnePlace, Positions
    <3> QED  BY <1>9, <3>1, <3>3 DEF InOnePlace, EffectIsLast, Positions
  <2>2. /\ \A v \in Workers : current'[v] \in Requests => status'[current'[v]] = "waiting"
        /\ \A u, v \in Workers : current'[u] = current'[v] /\ current'[u] \in Requests => u = v
    BY <1>1, <1>6, <1>9 DEF InOnePlace
  <2>3. InOnePlace'
    BY <1>7, <2>1, <2>2 DEF InOnePlace
  <2>5. ChecksPassed'
    BY <1>1, <1>9 DEF ChecksPassed, Public
  <2>6. EffectIsLast'
    <3>1. \A q \in inserted' : \A v \in Workers : current'[v] = q =>
             pc'[v] = "return" \/ (pc'[v] = "insert" /\ q.route = "protected")
      BY <1>1, <1>2, <1>6, <1>9 DEF EffectIsLast
    <3>2. \A q \in inserted' : \A v \in Workers : \A n \in Positions(v)' : queue'[v][n] # q
      <4>1. inserted' = inserted
        BY <1>2
      <4> QED  BY <2>1, <4>1
    <3> QED  BY <3>1, <3>2 DEF EffectIsLast
  <2>7. EffectsAreAuthorized'
    BY <1>2, <1>9, EffectsStay
  <2> QED  BY <2>3, <2>5, <2>6, <2>7
<1> QED  BY <1>8, <1>9 DEF Start, r

(* A worker answers the request it has; with an error only if the request   *)
(* had no effect or the handler threw halfway.                              *)
LEMMA AnswerEffects ==
    ASSUME EffectInv, NEW w \in Workers, NEW code, Answer(w, code), TypeInv',
           pc[w] # "idle",
           \/ code = "200"
           \/ pc[w] \notin {"insert", "return"}
           \/ code = "404" /\ pc[w] = "insert" /\ current[w].route = "protected",
           UNCHANGED <<queue, inserted>>
    PROVE  EffectInv'
<1> USE DEF EffectInv
<1>1. /\ status \in [Requests -> Answers \cup {"new", "waiting", "dropped"}]
      /\ pc \in [Workers -> Places]
      /\ current \in [Workers -> Requests \cup {NoRequest}]
      /\ NoRequest \notin Requests
      /\ current[w] \in Requests
      /\ inserted \subseteq Requests
      /\ queue \in [Workers -> Seq(Requests)]
  BY RequestAssumption DEF TypeInv, TypeOK, Places, BusyHasRequest
<1>2. /\ status' = [status EXCEPT ![current[w]] = code]
      /\ pc' = [pc EXCEPT ![w] = "idle"]
      /\ current' = [current EXCEPT ![w] = NoRequest]
      /\ queue' = queue /\ inserted' = inserted
  BY DEF Answer
<1>3. \A v \in Workers : \A n \in Positions(v) :
         queue[v][n] \in Requests /\ queue[v][n] # current[w]
  BY <1>1, ElementOfSeq DEF Positions, InOnePlace
<1>4. InOnePlace'
  <2>1. \A v \in Workers : Positions(v)' = Positions(v)
    BY <1>2 DEF Positions
  <2>2. \A v \in Workers : \A n \in Positions(v) : status'[queue'[v][n]] = "waiting"
    BY <1>1, <1>2, <1>3 DEF InOnePlace, Positions
  <2>3. /\ \A v \in Workers : current'[v] \in Requests => status'[current'[v]] = "waiting"
        /\ \A u, v \in Workers : current'[u] = current'[v] /\ current'[u] \in Requests => u = v
    BY <1>1, <1>2 DEF InOnePlace
  <2>4. \A u, v \in Workers : \A n \in Positions(v) : queue'[v][n] # current'[u]
    BY <1>1, <1>2, <1>3 DEF InOnePlace, Positions
  <2>5. \A u, v \in Workers : \A m \in Positions(u), n \in Positions(v) :
           queue'[u][m] = queue'[v][n] => u = v /\ m = n
    BY <1>2 DEF InOnePlace
  <2> QED  BY <2>1, <2>2, <2>3, <2>4, <2>5 DEF InOnePlace
<1>5. ChecksPassed'
  BY <1>1, <1>2 DEF ChecksPassed, Public
<1>6. EffectIsLast'
  BY <1>1, <1>2 DEF EffectIsLast, Positions
<1>7. EffectsAreAuthorized'
  <2>1. \A r \in inserted : \/ status'[r] \in {status[r], "200", "dropped"}
                            \/ status'[r] = "404" /\ ~Public(r)
    BY <1>1, <1>2 DEF EffectIsLast, Public
  <2> QED  BY <1>2, <2>1, EffectsStay
<1> QED  BY <1>4, <1>5, <1>6, <1>7

(* A worker goes on to a place whose check it has passed. *)
LEMMA GotoEffects ==
    ASSUME EffectInv, NEW w \in Workers, NEW place, Goto(w, place), TypeInv',
           pc[w] \notin {"idle", "return"}, UNCHANGED queue,
           \/ inserted' = inserted /\ pc[w] # "insert"
           \/ /\ inserted' = inserted \cup {current[w]} /\ pc[w] = "insert"
              /\ \/ place = "return"
                 \/ place = "insert" /\ current[w].route = "protected",
           place \in {"lockVerify", "verify"} => pc[w] \in {"lockVerify", "verify"},
           ~Public(current[w]) /\ place \notin {"lockVerify", "verify"}
                => current[w].header = "good",
           ~Public(current[w]) /\ place \in {"insert", "return"}
                => current[w].body = "good"
    PROVE  EffectInv'
<1> USE DEF EffectInv
<1>1. /\ pc \in [Workers -> Places]
      /\ current[w] \in Requests
      /\ pc' = [pc EXCEPT ![w] = place]
      /\ UNCHANGED <<current, status, queue>>
  BY DEF TypeInv, TypeOK, Places, BusyHasRequest, Goto
<1>2. InOnePlace'
  BY <1>1 DEF InOnePlace, Positions
<1>3. ChecksPassed'
  BY <1>1 DEF ChecksPassed, Public
<1>4. EffectIsLast'
  <2>1. CASE inserted' = inserted /\ pc[w] # "insert"
    BY <1>1, <2>1 DEF EffectIsLast, Positions
  <2>2. CASE /\ inserted' = inserted \cup {current[w]}
             /\ \/ place = "return"
                \/ place = "insert" /\ current[w].route = "protected"
    BY <1>1, <2>2 DEF EffectIsLast, Positions, InOnePlace
  <2> QED  BY <2>1, <2>2
<1>5. EffectsAreAuthorized'
  <2>1. CASE inserted' = inserted
    BY <1>1, <2>1, EffectsStay
  <2>2. CASE inserted' = inserted \cup {current[w]} /\ place \in {"insert", "return"}
    BY <1>1, <2>2 DEF EffectsAreAuthorized, InOnePlace, Public
  <2> QED  BY <2>1, <2>2
<1> QED  BY <1>2, <1>3, <1>4, <1>5

(* Every step keeps what effects rest on. *)
LEMMA StepEffects == EffectInv /\ [Next]_vars => EffectInv'
<1> SUFFICES ASSUME EffectInv, [Next]_vars PROVE EffectInv'
  OBVIOUS
<1>1. TypeInv /\ TypeInv'
  BY StepTypes DEF EffectInv
<1>2. ASSUME NEW w \in Workers, Serve(w), ~Start(w)  PROVE EffectInv'
  <2>1. /\ pc[w] # "idle" /\ current[w] \in Requests /\ queue' = queue
        /\ current[w].route \in {"ask", "signup", "protected"}
    BY <1>1, <1>2, ServeKinds, RequestAssumption DEF BusyHasRequest, TypeInv
  <2>2. CASE LockVerify(w)
    BY <1>1, <2>1, <2>2, GotoEffects DEF LockVerify
  <2>3. CASE Verify(w)
    <3>1. CASE current[w].header = "good" /\ Goto(w, "route")
      BY <1>1, <2>1, <2>3, <3>1, GotoEffects DEF Verify
    <3>2. CASE Answer(w, "401")
      BY <1>1, <2>1, <2>3, <3>2, AnswerEffects DEF Verify
    <3> QED  BY <2>3, <3>1, <3>2 DEF Verify
  <2>4. CASE Route(w)
    <3>1. ~Public(current[w]) => current[w].header = "good"
      BY <2>1, <2>4 DEF Route, EffectInv, ChecksPassed
    <3> QED  BY <1>1, <2>1, <2>4, <3>1, GotoEffects DEF Route
  <2>5. CASE UpstreamEnds(w)
    BY <1>1, <2>1, <2>5, AnswerEffects DEF UpstreamEnds
  <2>6. CASE LockHandler(w)
    <3>1. ~Public(current[w]) => current[w].header = "good"
      BY <2>1, <2>6 DEF LockHandler, EffectInv, ChecksPassed
    <3> QED  BY <1>1, <2>1, <2>6, <3>1, GotoEffects DEF LockHandler
  <2>7. CASE Check(w)
    <3>1. ~Public(current[w]) => current[w].header = "good"
      BY <2>1, <2>7 DEF Check, EffectInv, ChecksPassed
    <3>2. ~Public(current[w]) => current[w].body = "good"
      BY <2>1, <2>7, RequestAssumption DEF Check, Refuses, Public
    <3> QED  BY <1>1, <2>1, <2>7, <3>1, <3>2, GotoEffects DEF Check
  <2>8. CASE Throw(w)
    BY <1>1, <2>1, <2>8, AnswerEffects DEF Throw
  <2>9. CASE Insert(w)
    <3>1. ~Public(current[w]) => current[w].header = "good" /\ current[w].body = "good"
      BY <2>1, <2>9 DEF Insert, EffectInv, ChecksPassed
    <3> QED  BY <1>1, <2>1, <2>9, <3>1, GotoEffects DEF Insert
  <2>10. CASE Return(w)
    BY <1>1, <2>1, <2>10, AnswerEffects DEF Return
  <2> QED  BY <1>2, <2>2, <2>3, <2>4, <2>5, <2>6, <2>7, <2>8, <2>9, <2>10 DEF Serve
<1>3. CASE Crash
  <2> USE DEF EffectInv
  <2>1. /\ inserted' = inserted /\ inserted \subseteq Requests
        /\ \A w \in Workers : current'[w] = NoRequest /\ queue'[w] = <<>>
        /\ \A r \in Requests : status'[r] \in {status[r], "dropped"}
        /\ NoRequest \notin Requests
    BY <1>1, <1>3, RequestAssumption DEF Crash, TypeInv, TypeOK
  <2>2. \A w \in Workers : Positions(w)' = {}
    BY <2>1 DEF Positions
  <2>3. InOnePlace' /\ ChecksPassed' /\ EffectIsLast'
    BY <2>1, <2>2 DEF InOnePlace, ChecksPassed, EffectIsLast
  <2>4. EffectsAreAuthorized'
    BY <2>1, EffectsStay
  <2> QED  BY <1>1, <2>3, <2>4
<1>4. CASE UNCHANGED vars
  <2> USE DEF EffectInv
  <2>1. /\ UNCHANGED <<pc, current, queue, status, inserted>>
        /\ \A w \in Workers : Positions(w)' = Positions(w)
    BY <1>4 DEF vars, Positions
  <2>2. InOnePlace' /\ ChecksPassed'
    BY <2>1 DEF InOnePlace, ChecksPassed
  <2>3. EffectIsLast' /\ EffectsAreAuthorized'
    BY <2>1 DEF EffectIsLast, EffectsAreAuthorized
  <2> QED  BY <1>1, <2>2, <2>3
<1> QED  BY <1>1, <1>2, <1>3, <1>4, ArriveEffects, StartEffects DEF Next

(* A handler behind the middleware has an effect only for a valid token, in *)
(* the header and in the body; a request answered with 401 had none, and    *)
(* neither had a signup answered with an error, for any number of threads,  *)
(* connections and crashes.  Another handler may have had some before 404.  *)
THEOREM OnlyAuthorizedEffects == Spec => []EffectsAreAuthorized
<1>1. Init => EffectInv
  <2> SUFFICES ASSUME Init PROVE EffectInv
    OBVIOUS
  <2>1. \A w \in Workers : Positions(w) = {} /\ current[w] = NoRequest
    BY DEF Init, Positions
  <2>2. NoRequest \notin Requests /\ inserted = {}
    BY RequestAssumption DEF Init
  <2> QED  BY <2>1, <2>2, InitTypes DEF EffectInv, InOnePlace, ChecksPassed,
                                        EffectIsLast, EffectsAreAuthorized
<1>2. EffectInv => EffectsAreAuthorized
  BY DEF EffectInv
<1> QED  BY <1>1, <1>2, StepEffects, PTL DEF Spec
=============================================================================
