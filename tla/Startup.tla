------------------------------ MODULE Startup ------------------------------
(***************************************************************************)
(* One server process and the next: main() loads the scripts while the     *)
(* requirements watcher, a thread that static initialization has started,  *)
(* writes into the same folder, and a crash may come between any two       *)
(* steps.                                                                  *)
(***************************************************************************)
EXTENDS ModuleLoader, RequirementsWatcher

CONSTANTS
    CoreScripts,  \* the folder scripts/ as it may be installed
    MaxFaults     \* bound on crashes and on files that cannot be opened

ASSUME FolderAssumption ==
    /\ CoreScripts # {}
    /\ \A folder \in CoreScripts :
          "business" \in DOMAIN folder /\ \A name \in DOMAIN folder : IsScript(folder[name])
    /\ MaxFaults \in Nat

SlugsOf(file) == {ParseRequirements(text).slug : text \in Documents[file]}

(* What the watcher may read while an editor writes the file *)
Begun(file) == UNION {{SubSeq(text, 1, n) : n \in 0..Len(text)} : text \in Documents[file]}

VARIABLES
    installed,   \* the folder as it was installed
    replaced,    \* the installed scripts that a module was generated over
    faults,      \* crashes and files that could not be opened
    interrupted, \* the steps at which a script has been left empty, if any
    disturbed    \* a script has been written since the process started

history == <<installed, replaced>>
vars == <<scripts, loaderVars, watcherVars, history, faults, interrupted, disturbed>>

Init ==
    /\ scripts \in CoreScripts
    /\ LoaderInit
    /\ WatcherInit
    /\ installed = scripts
    /\ replaced = {}
    /\ faults = 0
    /\ interrupted = {}
    /\ disturbed = FALSE

(* Somebody starts the server *)
Start ==
    /\ ~Running
    /\ Booting
    /\ Scaffold
    /\ disturbed' = FALSE
    /\ UNCHANGED <<scripts, history, faults, interrupted>>

Interrupt == interrupted' = interrupted \cup ({job.at} \cap {"fill", "append"})

(* A step of main() or of a handler; where main() returns, threads end *)
Load ==
    /\ LoaderNext
    /\ IF state' = "exited" THEN WatcherDies /\ Interrupt
       ELSE UNCHANGED <<watcherVars, interrupted>>
    /\ UNCHANGED <<history, faults, disturbed>>

Watch ==
    /\ Running
    /\ ThreadStep
    /\ disturbed' = (disturbed \/ job.at \in {"module", "fill", "rewrite", "append"})
    /\ replaced' = replaced \cup (IF job.at = "module" THEN {Target} \cap DOMAIN installed ELSE {})
    /\ UNCHANGED <<loaderVars, installed, faults, interrupted>>

Write == EditorNext /\ UNCHANGED <<loaderVars, history, faults, interrupted, disturbed>>

DiskFails ==
    /\ Running
    /\ faults < MaxFaults
    /\ faults' = faults + 1
    /\ Interrupt
    /\ OpenFails
    /\ UNCHANGED <<loaderVars, history, disturbed>>

Crash ==
    /\ Running
    /\ faults < MaxFaults
    /\ faults' = faults + 1
    /\ Interrupt
    /\ Down
    /\ WatcherDies
    /\ disturbed' = FALSE
    /\ UNCHANGED <<scripts, history>>

Next == Start \/ Load \/ Watch \/ Write \/ DiskFails \/ Crash

Spec == Init /\ [][Next]_vars

(* The kernel runs the watcher's thread.  Whether anybody starts the        *)
(* server, edits or closes a file is left open.                             *)
FairSpec == Spec /\ WF_vars(Watch)
-----------------------------------------------------------------------------
(* Properties *)

(* The types of the variables *)
TypeOK ==
    /\ LoaderTypeOK /\ WatcherTypeOK
    /\ faults \in 0..MaxFaults
    /\ replaced \subseteq DOMAIN installed

Generated == UNION {SlugsOf(f) : f \in DOMAIN Documents}

(* Where no generation has been cut off (by a crash, by main() that         *)
(* returns) while it filled a module, a generated module that business.js   *)
(* has come to require has been written completely, except while it is      *)
(* written anew: a process that loads it meanwhile keeps an empty module in *)
(* its cache, no other does (generateFromMd, steps 1 and 3).                *)
RequiresAreWritten ==
    "fill" \notin interrupted =>
        \A slug \in Generated \cap (Range(LoadScript("business").requires)
                                       \ Range(installed["business"].requires)) :
            LoadScript(slug) = EmptyScript => job.at = "fill" /\ job.app.slug = slug

(* business.js keeps what was in it when it was installed, except between   *)
(* the two steps of its rewriting.  There are two ways to lose it: a        *)
(* generation that is cut off just there, and a file with the slug          *)
(* "business", over which nothing watches (RequirementsWatcher.cpp:316).    *)
(* A crash anywhere else, a file that cannot be opened and any other slug   *)
(* leave it.                                                                *)
BaseIsKept ==
    "append" \notin interrupted /\ job.at # "append" /\ "business" \notin replaced =>
        /\ LoadScript("business").api = installed["business"].api
        /\ IsPrefix(installed["business"].requires, LoadScript("business").requires)

(* One instance of a module, whatever the watcher writes, as long as it     *)
(* writes over no installed script: what required others in a circle may    *)
(* be a generated module by then, which requires nothing.                   *)
OneInstanceOfInstalled == replaced = {} => OneInstance

(* How much is served after a require has failed.  An exception should end  *)
(* the boot (see FailureSurfaces), but the loader goes on, and then a       *)
(* failure costs no more than what failed: a server in whose time no script *)
(* was written has the endpoints of business.js and of every module that    *)
(* business.js requires and that compiles, those after the failure included.*)
LoadsDespiteFailures ==
    state = "serving" /\ ~disturbed =>
        \A m \in {"business"} \cup Range(LoadScript("business").requires) :
            LoadScript(m).kind = "broken" \/ LoadScript(m).api \subseteq api

(* "propagate the exception to JS caller so it surfaces" (main.cpp:150):    *)
(* business.js would get it and end by it, and so would main()              *)
(* (main.cpp:714-717).  A server that serves, in whose time no script was   *)
(* written, has loaded whatever business.js requires.                       *)
FailureSurfaces ==
    state = "serving" /\ ~disturbed => Range(LoadScript("business").requires) \subseteq cache

(* What is read of a file, at any moment, has a slug of its own *)
HasOwnSlug(file) ==
    \A other \in DOMAIN Documents \ {file} :
        SlugsOf(file) \cap {ParseRequirements(lines).slug : lines \in Begun(other)} = {}

(* Whatever was written while whatever else was being generated: in the     *)
(* end every file whose last change was reported, to a process that lived   *)
(* on, has its module and its require in their latest form, if no other has *)
(* its slug and none has replaced business.js.                              *)
Converges ==
    <>[]("business" \notin replaced =>
            \A file \in (noticed \cap DOMAIN md) \ DOMAIN writing :
                HasOwnSlug(file) => UpToDate(file))
=============================================================================
