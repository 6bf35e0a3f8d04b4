---------------------------- MODULE ModuleLoader ----------------------------
(***************************************************************************)
(* The boot of main() up to app.run(), and require(): which scripts run,   *)
(* in which order, and what is in the module cache and in api afterwards.  *)
(*                                                                         *)
(* RequireCallback throws its errors while its own TryCatch is in scope,   *)
(* which takes them back when it goes out of scope: a require that fails   *)
(* gives undefined, and the script that asked goes on.                     *)
(***************************************************************************)
EXTENDS ScriptFiles

CONSTANTS
    HandlerRequires,  \* the modules that handlers require at run time
    MaxDepth          \* nested calls of require until the stack is full

(* There is room for main(), business.js and a module it requires *)
ASSUME DepthAssumption == MaxDepth \in Nat /\ MaxDepth >= 3

VARIABLES
    state,     \* "booting", "serving", "exited" by itself, or "down" after a crash
    stack,     \* main() and the scripts that run, each with the requires it has to do
    cache,     \* moduleCache: the modules whose exports are kept
    api,       \* the entries of the global api
    finished   \* how often each module has run to its end, in this process

loaderVars == <<state, stack, cache, api, finished>>

Frame(name, script) == [name |-> name, todo |-> script.requires, kind |-> script.kind]
Outermost(name, requires) == <<Frame(name, [EmptyScript EXCEPT !.requires = requires])>>
Top   == Last(stack)
Wants == Head(Top.todo)

(* The process as main() starts *)
Booting ==
    /\ state' = "booting"
    /\ stack' = Outermost("main", <<"auth", "sanitize", "business">>)
    /\ cache' = {}
    /\ api' = {}
    /\ finished' = [m \in {} |-> 0]

Down ==
    /\ state' = "down"
    /\ stack' = <<>>
    /\ cache' = {}
    /\ api' = {}
    /\ finished' = [m \in {} |-> 0]

LoaderInit ==
    /\ state = "down"
    /\ stack = <<>>
    /\ cache = {}
    /\ api = {}
    /\ finished = [m \in {} |-> 0]
-----------------------------------------------------------------------------
(* main() runs business.js as a script, everything else is required *)
AsScript == Top.name = "main" /\ Wants = "business"

(* Stopped by what main() could not load *)
Vital(requirer, name) == requirer.name = "main" /\ state = "booting" /\ name # "auth"

Running == state \in {"booting", "serving"}

(* The stack below the top frame with its next require done *)
Advanced(frames) ==
    [frames EXCEPT ![Len(frames)].todo = Tail(@)]

RequireHit ==
    /\ Running /\ Top.todo # <<>>
    /\ ~AsScript
    /\ Wants \in cache
    /\ stack' = Advanced(stack)
    /\ UNCHANGED <<scripts, state, cache, api, finished>>

(* Mutant: an error of a required script is one of the script that asked *)
FailedMutant(frames, name) ==
    /\ stack' = [frames EXCEPT ![Len(frames)].todo = <<>>]
    /\ state' = IF Vital(Last(frames), name) THEN "exited" ELSE state

(* The requirer gets undefined; main() returns where it cannot go on *)
Failed(frames, name) ==
    /\ stack' = Advanced(frames)
    /\ state' = IF Vital(Last(frames), name) THEN "exited" ELSE state

(* The script does not compile, or there is no stack left to call it *)
RequireFails ==
    /\ Running /\ Top.todo # <<>>
    /\ AsScript \/ Wants \notin cache
    /\ LoadScript(Wants).kind = "broken" \/ Len(stack) = MaxDepth
    /\ Failed(stack, Wants)
    /\ UNCHANGED <<scripts, cache, api, finished>>

(* The script starts.  It may add to api before or after its own requires:  *)
(* no request is served in between.                                         *)
Enter ==
    /\ Running /\ Top.todo # <<>>
    /\ AsScript \/ Wants \notin cache
    /\ LoadScript(Wants).kind # "broken" /\ Len(stack) < MaxDepth
    /\ stack' = Append(stack, Frame(Wants, LoadScript(Wants)))
    /\ api' = api \cup LoadScript(Wants).api
    /\ UNCHANGED <<scripts, state, cache, finished>>

(* It has done its requires and ends by an exception *)
Throw ==
    /\ Running /\ Len(stack) > 1 /\ Top.todo = <<>>
    /\ Top.kind = "throws"
    /\ Failed(Front(stack), Top.name)
    /\ UNCHANGED <<scripts, cache, api, finished>>

(* Mutant: the exports of a module are not kept *)
KeptMutant(name, requirer) == {}

(* What a script that has run leaves in the cache *)
Kept(name, requirer) == IF requirer.name = "main" /\ name = "business" THEN {} ELSE {name}

Leave ==
    /\ Running /\ Len(stack) > 1 /\ Top.todo = <<>>
    /\ Top.kind # "throws"
    /\ cache' = cache \cup Kept(Top.name, stack[Len(stack) - 1])
    /\ finished' = [m \in DOMAIN finished \cup {Top.name} |->
                       IF m \notin DOMAIN finished THEN 1
                       ELSE IF m = Top.name THEN finished[m] + 1 ELSE finished[m]]
    /\ stack' = Advanced(Front(stack))
    /\ UNCHANGED <<scripts, state, api>>

(* app.run() *)
Serve ==
    /\ state = "booting"
    /\ Len(stack) = 1 /\ Top.todo = <<>>
    /\ state' = "serving"
    /\ UNCHANGED <<scripts, stack, cache, api, finished>>

(* A handler, under the isolate's lock, requires a module: bc_enable *)
Handle(name) ==
    /\ state = "serving"
    /\ Len(stack) = 1 /\ Top.todo = <<>>
    /\ stack' = Outermost("handler", <<name>>)
    /\ UNCHANGED <<scripts, state, cache, api, finished>>

LoaderStep == RequireHit \/ RequireFails \/ Enter \/ Throw \/ Leave \/ Serve

LoaderNext == LoaderStep \/ \E name \in HandlerRequires : Handle(name)
-----------------------------------------------------------------------------
(* Properties *)

LoaderTypeOK ==
    /\ state \in {"booting", "serving", "exited", "down"}
    /\ Len(stack) <= MaxDepth
    /\ cache \subseteq DOMAIN finished
    /\ state = "serving" => Len(stack) > 0

Requires(folder, m) == Range(folder[m].requires) \cap DOMAIN folder

IsClosed(folder, S) == \A m \in S : Requires(folder, m) \subseteq S

(* The modules that come back to themselves through what they require: they *)
(* are in every set that has all that they require, directly or not         *)
Cyclic(folder) ==
    {m \in DOMAIN folder : \A S \in SUBSET DOMAIN folder :
        Requires(folder, m) \subseteq S /\ IsClosed(folder, S) => m \in S}

(* A module runs to its end at most once in a process, whoever requires it  *)
(* and however often: auth, the ledger and the rest are one object for all. *)
(* A module in a cycle is not: the cache is filled only after it has run.   *)
OneInstance ==
    \A m \in DOMAIN finished : finished[m] > 1 => m \in Cyclic(scripts)
=============================================================================
