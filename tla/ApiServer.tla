----------------------------- MODULE ApiServer ------------------------------
(***************************************************************************)
(* The HTTP server of main.cpp: Crow's worker threads, AuthMiddleware, the *)
(* /api route with the one V8 isolate they share under v8::Locker, the     *)
(* blocking /ask route, and signup as the handler that checks first and    *)
(* inserts later.                                                          *)
(*                                                                         *)
(* A connection belongs to one worker, which serves its requests one after *)
(* the other.  Between two steps of a worker the others take theirs.       *)
(***************************************************************************)
EXTENDS Integers, Sequences, FiniteSets

CONSTANTS
    Workers,     \* the threads of app.multithreaded()
    Requests,    \* what clients send: records [id, route, header, body, name]
    Lower,       \* trim().toLowerCase() of the names in use
    Sought,      \* the name cond_re reads in "username = '<name>'"
    NoName,      \* it reads none: the lookup has no condition
    NoWorker,    \* nobody holds the Locker
    NoRequest,   \* a worker that is not serving a request
    MaxSent,     \* bound: requests that clients send
    MaxQueue,    \* bound: requests waiting on the connections of a worker
    MaxClock,    \* bound: milliseconds that pass
    MaxCrashes   \* bound: deaths of the process

ASSUME RequestAssumption ==
    /\ NoWorker \notin Workers
    /\ NoRequest \notin Requests
    /\ MaxSent \in Nat /\ MaxQueue \in Nat /\ MaxClock \in Nat /\ MaxCrashes \in Nat
    /\ \A r \in Requests :
          /\ r.route \in {"ask", "signup", "protected"}
          /\ r.header \in {"none", "bad", "good"}
          /\ r.body \in {"bad", "good"}
          /\ r.name \in DOMAIN Lower
    /\ \A n \in DOMAIN Lower : Lower[n] \in DOMAIN Sought

VARIABLES
    users,     \* table users: the name in the row stored under a created_at
    locker,    \* the worker inside v8::Locker
    pc,        \* where each worker is
    current,   \* the request each worker serves
    queue,     \* requests on the connections of each worker
    status,    \* "new", "waiting", the code of the answer, or "dropped"
    inserted,  \* the requests whose INSERT was executed (history)
    clock,     \* new Date().toISOString(), as last read by signup
    crashes    \* deaths of the process so far

vars    == <<users, locker, pc, current, queue, status, inserted, clock, crashes>>

Answers == {"200", "401", "404", "500"}
-----------------------------------------------------------------------------
(* AuthMiddleware: the urls that need no token (the static pages, which      *)
(* touch nothing, are left out)                                             *)
Public(r) == r.route \in {"ask", "signup"}

(* res.end and the return to the io_service loop *)
Answer(w, code) ==
    /\ status' = [status EXCEPT ![current[w]] = code]
    /\ pc' = [pc EXCEPT ![w] = "idle"]
    /\ current' = [current EXCEPT ![w] = NoRequest]

Goto(w, place) ==
    /\ pc' = [pc EXCEPT ![w] = place]
    /\ UNCHANGED <<current, status>>

UserNames == {users[t] : t \in DOMAIN users}

(* DBManager::insert of a row without an id: its key is the first column,   *)
(* which is created_at, and time may have passed since the last one         *)
InsertUser(name) ==
    \E now \in clock..MaxClock :
        /\ clock' = now
        /\ users' = [t \in DOMAIN users \cup {now} |-> IF t = now THEN name ELSE users[t]]

Init ==
    /\ users = [t \in {} |-> NoRequest]
    /\ locker = NoWorker
    /\ pc = [w \in Workers |-> "idle"]
    /\ current = [w \in Workers |-> NoRequest]
    /\ queue = [w \in Workers |-> <<>>]
    /\ status = [r \in Requests |-> "new"]
    /\ inserted = {}
    /\ clock = 0 /\ crashes = 0

(* A client sends a request, on a connection of some worker *)
Arrive(r, w) ==
    /\ status[r] = "new"
    /\ Cardinality({q \in Requests : status[q] # "new"}) < MaxSent
    /\ Len(queue[w]) < MaxQueue
    /\ status' = [status EXCEPT ![r] = "waiting"]
    /\ queue' = [queue EXCEPT ![w] = Append(@, r)]
    /\ UNCHANGED <<users, locker, pc, current, inserted, clock, crashes>>

(* before_handle of the next request, up to its Locker *)
Start(w) ==
    /\ pc[w] = "idle"
    /\ queue[w] # <<>>
    /\ queue' = [queue EXCEPT ![w] = Tail(@)]
    /\ LET r == Head(queue[w]) IN
         \/ /\ ~Public(r) /\ r.header = "none"
            /\ status' = [status EXCEPT ![r] = "401"]
            /\ UNCHANGED <<pc, current>>
         \/ /\ Public(r) \/ r.header # "none"
            /\ current' = [current EXCEPT ![w] = r]
            /\ pc' = [pc EXCEPT ![w] = IF Public(r) THEN "route" ELSE "lockVerify"]
            /\ UNCHANGED status
    /\ UNCHANGED <<users, locker, inserted, clock, crashes>>

(* v8::Locker locker(g_isolate): blocks the thread while another holds it *)
LockVerify(w) ==
    /\ pc[w] = "lockVerify"
    /\ locker = NoWorker
    /\ locker' = w
    /\ Goto(w, "verify")
    /\ UNCHANGED <<users, queue, inserted, clock, crashes>>

(* Mutant: the result of auth.verify is not looked at *)
VerifyNothingMutant(w) ==
    /\ pc[w] = "verify"
    /\ locker' = NoWorker
    /\ Goto(w, "route")
    /\ UNCHANGED <<users, queue, inserted, clock, crashes>>

(* Mutant: the early return keeps the Locker *)
VerifyMutant(w) ==
    /\ pc[w] = "verify"
    /\ \/ current[w].header = "good" /\ Goto(w, "route") /\ locker' = NoWorker
       \/ current[w].header = "bad" /\ Answer(w, "401") /\ UNCHANGED locker
    /\ UNCHANGED <<users, queue, inserted, clock, crashes>>

(* auth.verify(token) and the end of before_handle, which frees the Locker; *)
(* Crow calls the route only when the response is not completed             *)
Verify(w) ==
    /\ pc[w] = "verify"
    /\ locker' = NoWorker
    /\ \/ current[w].header = "good" /\ Goto(w, "route")
       \/ current[w].header = "bad" /\ Answer(w, "401")
    /\ UNCHANGED <<users, queue, inserted, clock, crashes>>

Route(w) ==
    /\ pc[w] = "route"
    /\ \/ current[w].route = "ask" /\ Goto(w, "upstream")
       \/ current[w].route \in {"signup", "protected"} /\ Goto(w, "lockHandler")
    /\ UNCHANGED <<users, locker, queue, inserted, clock, crashes>>

(* curl_easy_perform returns, with the answer of the model or an error *)
UpstreamEnds(w) ==
    /\ pc[w] = "upstream"
    /\ \E code \in {"200", "500"} : Answer(w, code)
    /\ UNCHANGED <<users, locker, queue, inserted, clock, crashes>>

(* Mutant: the handler does not wait for the Locker *)
LockHandlerMutant(w) ==
    /\ pc[w] = "lockHandler"
    /\ locker' = w
    /\ Goto(w, "check")
    /\ UNCHANGED <<users, queue, inserted, clock, crashes>>

LockHandler(w) ==
    /\ pc[w] = "lockHandler"
    /\ locker = NoWorker
    /\ locker' = w
    /\ Goto(w, "check")
    /\ UNCHANGED <<users, queue, inserted, clock, crashes>>

(* signup's lookup is SQL text with the name between apostrophes: the rows  *)
(* it finds are those of the name that cond_re reads there (the part before *)
(* an apostrophe), and all of them when it reads none (an empty name).      *)
Found(name) == \E n \in UserNames : Sought[name] \in {n, NoName}

(* The queries and checks a handler starts with: signup looks the name up,  *)
(* the others verify the token of the body                                  *)
Refuses(r) ==
    \/ r.route = "signup" /\ Found(Lower[r.name])
    \/ r.route = "protected" /\ r.body = "bad"

Check(w) ==
    /\ pc[w] = "check"
    /\ ~Refuses(current[w])
    /\ Goto(w, "insert")
    /\ UNCHANGED <<users, locker, queue, inserted, clock, crashes>>

(* The handler throws: at its first checks, or, behind the middleware, at   *)
(* any later step and so after some of its writes (postJournal seeds the    *)
(* chart before it looks at the lines).  InvokeApiFunction catches it in a  *)
(* TryCatch of its own and returns undefined, so that the route's TryCatch  *)
(* has caught nothing and the answer is that of an undefined result.        *)
Throw(w) ==
    /\ \/ pc[w] = "check" /\ Refuses(current[w])
       \/ pc[w] = "insert" /\ current[w].route = "protected"
    /\ locker' = NoWorker
    /\ Answer(w, "404")
    /\ UNCHANGED <<users, queue, inserted, clock, crashes>>

(* Mutant: the row gets the name as it was typed *)
InsertMutant(w) ==
    /\ pc[w] = "insert"
    /\ \/ current[w].route = "signup" /\ InsertUser(current[w].name)
       \/ current[w].route = "protected" /\ UNCHANGED <<users, clock>>
    /\ inserted' = inserted \cup {current[w]}
    /\ Goto(w, "return")
    /\ UNCHANGED <<locker, queue, crashes>>

(* A write of the handler.  signup has one; the others may go on to more. *)
Insert(w) ==
    /\ pc[w] = "insert"
    /\ \/ /\ current[w].route = "signup"
          /\ InsertUser(Lower[current[w].name])
          /\ Goto(w, "return")
       \/ /\ current[w].route = "protected"
          /\ \E place \in {"insert", "return"} : Goto(w, place)
          /\ UNCHANGED <<users, clock>>
    /\ inserted' = inserted \cup {current[w]}
    /\ UNCHANGED <<locker, queue, crashes>>

(* The result goes out and the Locker is freed *)
Return(w) ==
    /\ pc[w] = "return"
    /\ locker' = NoWorker
    /\ Answer(w, "200")
    /\ UNCHANGED <<users, queue, inserted, clock, crashes>>

(* The process ends and is started again: connections are gone, rows stay *)
Crash ==
    /\ crashes < MaxCrashes
    /\ crashes' = crashes + 1
    /\ locker' = NoWorker
    /\ pc' = [w \in Workers |-> "idle"]
    /\ current' = [w \in Workers |-> NoRequest]
    /\ queue' = [w \in Workers |-> <<>>]
    /\ status' = [r \in Requests |-> IF status[r] = "waiting" THEN "dropped" ELSE status[r]]
    /\ UNCHANGED <<users, inserted, clock>>

Serve(w) ==
    \/ Start(w) \/ LockVerify(w) \/ Verify(w)
    \/ Route(w) \/ UpstreamEnds(w)
    \/ LockHandler(w) \/ Check(w) \/ Throw(w) \/ Insert(w) \/ Return(w)

Next ==
    \/ \E r \in Requests, w \in Workers : Arrive(r, w)
    \/ \E w \in Workers : Serve(w)
    \/ Crash

Spec == Init /\ [][Next]_vars

(* The scheduler runs every thread that can run, and every request to the   *)
(* model ends (curl sets no timeout: that is up to the other side).         *)
FairSpec == Spec /\ \A w \in Workers : WF_vars(Serve(w))
-----------------------------------------------------------------------------
(* Properties *)

Waiting(r) == status[r] = "waiting"

(* The types of the variables *)
TypeOK ==
    /\ DOMAIN users \subseteq 0..MaxClock
    /\ \A t \in DOMAIN users : \E n \in DOMAIN Lower : users[t] = Lower[n]
    /\ locker \in Workers \cup {NoWorker}
    /\ pc \in [Workers -> {"idle", "lockVerify", "verify", "route",
                           "upstream", "lockHandler", "check", "insert", "return"}]
    /\ current \in [Workers -> Requests \cup {NoRequest}]
    /\ queue \in [Workers -> Seq(Requests)]
    /\ status \in [Requests -> Answers \cup {"new", "waiting", "dropped"}]
    /\ inserted \subseteq Requests
    /\ clock \in 0..MaxClock /\ crashes \in 0..MaxCrashes

(* signup looks a name up and inserts it later, on several threads: no name *)
(* that the lookup reads whole is ever in two rows, in whatever order the   *)
(* threads run and the process dies ('User exists'); the empty one is not   *)
(* either, since its lookup finds anybody.  A name with an apostrophe is    *)
(* looked up as another one, and may be in any number of rows.              *)
ReadWhole(name) == Sought[name] \in {name, NoName}

OneRowPerName ==
    \A s, t \in DOMAIN users : users[s] = users[t] /\ ReadWhole(users[s]) => s = t

(* A handler behind the middleware has an effect only for a request with a  *)
(* valid token in the header and in the body; a request that was refused a  *)
(* token (401) had none, and neither had a signup that was answered with an *)
(* error.  Another handler may have had some before the error (404).        *)
EffectsAreAuthorized ==
    \A r \in inserted :
        /\ ~Public(r) => r.header = "good" /\ r.body = "good"
        /\ status[r] \in {"waiting", "200", "404", "dropped"}
        /\ Public(r) => status[r] # "404"

(* Every request that reached the server is answered, or dropped by a crash:*)
(* no thread keeps the Locker, none waits for it forever.                   *)
EveryRequestEnds == \A r \in Requests : Waiting(r) ~> ~Waiting(r)

(* The inductive invariant behind OneRowPerName: who is past a Locker holds *)
(* it, and the name that signup is about to insert is still free.           *)
UnderLocker == {"verify", "check", "insert", "return"}

HolderIsInside == \A w \in Workers : pc[w] \in UnderLocker => locker = w

CheckedNameIsFree ==
    \A w \in Workers : pc[w] = "insert" /\ current[w].route = "signup"
        => ~Found(Lower[current[w].name])

NameInv == HolderIsInside /\ CheckedNameIsFree /\ OneRowPerName
=============================================================================
