------------------------- MODULE RequirementsWatcher -------------------------
(***************************************************************************)
(* RequirementsWatcher.cpp: the thread that waits for *.md files in        *)
(* requirements/ and generates a script for each, and the editors that     *)
(* write these files while it reads them.                                  *)
(*                                                                         *)
(* A file is the sequence of its lines as far as the parser tells them     *)
(* apart: records [part, slug, api], part being "heading", "slug" or       *)
(* "json" (the fenced block).  The pages under public/ are left out.       *)
(***************************************************************************)
EXTENDS ScriptFiles

CONSTANTS
    Documents,   \* from the names of .md files to the texts they may get
    Template,    \* agent.md as the watcher scaffolds it
    NotNames,    \* the slugs that are no part of a JavaScript identifier
    MaxEdits     \* bound on the files that are opened, moved or removed

ASSUME DocumentAssumption ==
    /\ "agent" \in DOMAIN Documents /\ Template \in Documents["agent"]
    /\ \A file \in DOMAIN Documents : \A text \in Documents[file] : text \in Seq(Range(text))
    /\ MaxEdits \in Nat

VARIABLES
    md,        \* from the names of the files in requirements/ to their texts
    writing,   \* from the names of the files open in an editor to the lines to come
    watching,  \* inotify_add_watch has been called
    events,    \* names of files, as inotify will report them
    job,       \* what the thread does: [at, file, app, body]
    noticed,   \* files whose last change inotify reports, or has reported, to this process
    edits      \* number of edits

watcherVars == <<md, writing, watching, events, job, noticed, edits>>

Idle == [at |-> "idle"]
DefaultSlug == "generated-app"
Hello(slug) == <<slug, "hello">>

Without(f, x) == [k \in DOMAIN f \ {x} |-> f[k]]
With(f, x, v) == [k \in DOMAIN f \cup {x} |-> IF k = x THEN v ELSE f[k]]
-----------------------------------------------------------------------------
(* parseRequirements: the block's slug goes before the Slug: line, that     *)
(* before the one made from the heading.                                    *)
ParseRequirements(lines) ==
    LET Of(part) == SelectSeq(lines, LAMBDA line : line.part = part)
        named    == Of("json") \o Of("slug") \o Of("heading")
        slug     == IF named = <<>> THEN DefaultSlug ELSE named[1].slug
        given    == IF Of("json") = <<>> THEN {} ELSE Of("json")[1].api
    IN  [slug |-> slug, api |-> IF given = {} THEN {Hello(slug)} ELSE given]

(* genBusinessModule: "_api.my-app_hello = {" does not compile *)
GenBusinessModule(app) ==
    [kind |-> IF app.slug \in NotNames /\ Hello(app.slug) \in app.api THEN "broken" ELSE "ok",
     requires |-> <<>>, api |-> app.api]

WatcherInit ==
    /\ md \in {[f \in {} |-> <<>>], [f \in {"agent"} |-> Template]}
    /\ writing = [f \in {} |-> <<>>]
    /\ watching = FALSE
    /\ events = <<>>
    /\ job = Idle
    /\ noticed = {}
    /\ edits = 0

(* Static initialization: without an .md file there, agent.md is scaffolded *)
Scaffold ==
    /\ md' = IF DOMAIN md = {} THEN With(md, "agent", Template) ELSE md
    /\ watching' = FALSE
    /\ UNCHANGED <<writing, events, job, noticed, edits>>

(* Mutant: the thread outlives the process *)
WatcherDiesMutant ==
    /\ watching' = FALSE
    /\ events' = <<>>
    /\ noticed' = {}
    /\ UNCHANGED <<md, writing, job, edits>>

(* The process is gone, and its inotify queue with it *)
WatcherDies ==
    /\ watching' = FALSE
    /\ events' = <<>>
    /\ job' = Idle
    /\ noticed' = {}
    /\ UNCHANGED <<md, writing, edits>>
-----------------------------------------------------------------------------
(* Editors *)

Edit == edits < MaxEdits /\ edits' = edits + 1

(* Mutant: files that are written in place are not reported *)
ReportMutant(file, mask) ==
    IF watching /\ mask \in {"IN_CREATE", "IN_MOVED_TO"}
    THEN events' = Append(events, file) /\ noticed' = noticed \cup {file}
    ELSE events' = events /\ noticed' = IF watching THEN noticed \cup {file} ELSE noticed \ {file}

(* inotify reports what the mask asks for, once there is a watch *)
Report(file, mask) ==
    IF watching /\ mask \in {"IN_CREATE", "IN_MOVED_TO", "IN_CLOSE_WRITE"}
    THEN events' = Append(events, file) /\ noticed' = noticed \cup {file}
    ELSE events' = events /\ noticed' = noticed \ {file}

(* An editor creates or truncates a file, which it will fill *)
Open(file, text) ==
    /\ Edit
    /\ file \notin DOMAIN writing
    /\ md' = With(md, file, <<>>)
    /\ writing' = With(writing, file, text)
    /\ Report(file, IF file \in DOMAIN md THEN "IN_OPEN" ELSE "IN_CREATE")
    /\ UNCHANGED <<scripts, watching, job>>

WriteLine(file) ==
    /\ file \in DOMAIN writing /\ writing[file] # <<>>
    /\ writing' = [writing EXCEPT ![file] = Tail(@)]
    /\ md' = IF file \in DOMAIN md THEN [md EXCEPT ![file] = Append(@, Head(writing[file]))] ELSE md
    /\ UNCHANGED <<scripts, watching, events, job, noticed, edits>>

Close(file) ==
    /\ file \in DOMAIN writing /\ writing[file] = <<>>
    /\ writing' = Without(writing, file)
    /\ Report(file, "IN_CLOSE_WRITE")
    /\ UNCHANGED <<scripts, md, watching, job, edits>>

(* A file written elsewhere takes its place at once *)
MoveIn(file, text) ==
    /\ Edit
    /\ file \notin DOMAIN writing
    /\ md' = With(md, file, text)
    /\ Report(file, "IN_MOVED_TO")
    /\ UNCHANGED <<scripts, writing, watching, job>>

Delete(file) ==
    /\ Edit
    /\ file \in DOMAIN md \ DOMAIN writing
    /\ md' = Without(md, file)
    /\ UNCHANGED <<scripts, writing, watching, events, job, noticed>>

EditorNext ==
    \E file \in DOMAIN Documents :
        \/ \E text \in Documents[file] : Open(file, text) \/ MoveIn(file, text)
        \/ WriteLine(file) \/ Close(file) \/ Delete(file)
-----------------------------------------------------------------------------
(* The thread *)

Files == <<md, writing, noticed, edits>>

AddWatch ==
    /\ ~watching
    /\ watching' = TRUE
    /\ UNCHANGED <<scripts, events, job, Files>>

(* One event; the delay of 100 ms is whatever comes before the next step *)
TakeEvent ==
    /\ watching /\ job = Idle /\ events # <<>>
    /\ events' = Tail(events)
    /\ job' = [at |-> "read", file |-> Head(events)]
    /\ UNCHANGED <<scripts, watching, Files>>

ReadFile ==
    /\ job.at = "read"
    /\ job' = IF job.file \notin DOMAIN md THEN Idle
              ELSE [at |-> "module", file |-> job.file, app |-> ParseRequirements(md[job.file])]
    /\ UNCHANGED <<scripts, watching, events, Files>>

(* Mutant: the require is written first, the module after it *)
AfterOpenMutant(at) == IF at = "module" THEN "business" ELSE "append"

(* writeFile opens a file, which empties it, and then fills it *)
AfterOpen(at) == IF at = "module" THEN "fill" ELSE "append"

Target == IF job.at \in {"module", "fill"} THEN job.app.slug ELSE "business"

OpenScript ==
    /\ job.at \in {"module", "rewrite"}
    /\ scripts' = Written(Target, EmptyScript)
    /\ job' = [job EXCEPT !.at = AfterOpen(@)]
    /\ UNCHANGED <<watching, events, Files>>

FillModule ==
    /\ job.at = "fill"
    /\ scripts' = Written(Target, GenBusinessModule(job.app))
    /\ job' = [job EXCEPT !.at = "business"]
    /\ UNCHANGED <<watching, events, Files>>

(* Mutant: only the new lines are written, not those that were read *)
AppendedMutant(slug) == [EmptyScript EXCEPT !.requires = <<slug>>]

Appended(slug) == [scripts["business"] EXCEPT !.requires = Append(@, slug)]

(* appendIfMissing reads business.js: it may be missing, or have the require *)
ReadBusiness ==
    /\ job.at = "business"
    /\ job' = IF \/ "business" \notin DOMAIN scripts
                 \/ job.app.slug \in Range(scripts["business"].requires)
              THEN Idle
              ELSE [at |-> "rewrite", file |-> job.file, body |-> Appended(job.app.slug)]
    /\ UNCHANGED <<scripts, watching, events, Files>>

FillBusiness ==
    /\ job.at = "append"
    /\ scripts' = Written("business", job.body)
    /\ job' = Idle
    /\ UNCHANGED <<watching, events, Files>>

(* A script cannot be opened: that is the end of the generation *)
OpenFails ==
    /\ job.at \in {"module", "rewrite"}
    /\ job' = Idle
    /\ noticed' = noticed \ {job.file}
    /\ UNCHANGED <<scripts, md, writing, watching, events, edits>>

ThreadStep ==
    AddWatch \/ TakeEvent \/ ReadFile \/ OpenScript \/ FillModule \/ ReadBusiness \/ FillBusiness
-----------------------------------------------------------------------------
(* Properties *)

WatcherTypeOK ==
    /\ edits \in 0..MaxEdits
    /\ DOMAIN md \cup DOMAIN writing \cup Range(events) \cup noticed \subseteq DOMAIN Documents
    /\ job.at \in {"idle", "read", "module", "fill", "business", "rewrite", "append"}
    /\ \A name \in DOMAIN scripts : IsScript(scripts[name])
    /\ ~watching => job = Idle

(* What the watcher has generated for the file in its present text is there *)
UpToDate(file) ==
    LET app == ParseRequirements(md[file])
    IN  /\ LoadScript(app.slug) = GenBusinessModule(app)
        /\ app.slug \in Range(LoadScript("business").requires)
=============================================================================
