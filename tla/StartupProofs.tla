---------------------------- MODULE StartupProofs ----------------------------
(***************************************************************************)
(* Theorems about Startup: what the requirements watcher leaves in the     *)
(* folder scripts/, for any installation, any requirements files, and any  *)
(* interleaving of editors, the watcher's thread, the module loader and    *)
(* crashes.                                                                *)
(***************************************************************************)
EXTENDS Startup, InductionTheorems

-----------------------------------------------------------------------------
(* Types *)

(* What ParseRequirements may return for a file, at any moment *)
IsApp(app) == \E f \in DOMAIN Documents : \E lines \in Begun(f) : app = ParseRequirements(lines)

ScriptTypes == \A name \in DOMAIN scripts : IsScript(scripts[name])

LoaderTypes ==
    /\ state \in {"booting", "serving", "exited", "down"}
    /\ stack \in Seq(Range(stack)) /\ Len(stack) <= MaxDepth
    /\ Running => stack # <<>>
    /\ cache \subseteq DOMAIN finished

(* A file in an editor has the first lines of its text, the editor the rest *)
FileTypes ==
    /\ edits \in 0..MaxEdits
    /\ DOMAIN md \cup DOMAIN writing \cup noticed \subseteq DOMAIN Documents
    /\ events \in Seq(DOMAIN Documents)
    /\ \A file \in DOMAIN md \ DOMAIN writing : md[file] \in Begun(file)
    /\ \A file \in DOMAIN writing :
          /\ file \in DOMAIN md
          /\ \E text \in Documents[file] : \E n \in 0..Len(text) :
                md[file] = SubSeq(text, 1, n) /\ writing[file] = SubSeq(text, n + 1, Len(text))

JobType ==
    \/ job = Idle
    \/ /\ job.at = "read"
       /\ job = [at |-> job.at, file |-> job.file]
       /\ job.file \in DOMAIN Documents
    \/ /\ job.at \in {"module", "fill", "business"}
       /\ job = [at |-> job.at, file |-> job.file, app |-> job.app]
       /\ IsApp(job.app)
    \/ /\ job.at \in {"rewrite", "append"}
       /\ job = [at |-> job.at, file |-> job.file, body |-> job.body]
       /\ IsScript(job.body)

(* The thread works in a process that runs, once the watch is there. *)
ThreadTypes ==
    /\ JobType
    /\ watching \in BOOLEAN
    /\ watching => Running
    /\ ~watching => job = Idle

HistoryTypes == installed \in CoreScripts /\ replaced \subseteq DOMAIN installed

TypeInv ==
    /\ ScriptTypes /\ LoaderTypes /\ FileTypes /\ ThreadTypes
    /\ HistoryTypes /\ faults \in 0..MaxFaults

LEMMA TypesHold == TypeInv => TypeOK
<1> SUFFICES ASSUME TypeInv
             PROVE  TypeOK
  OBVIOUS
<1>1. Range(events) \subseteq DOMAIN Documents
  BY DEF TypeInv, FileTypes, Range
<1>2. job.at \in {"idle", "read", "module", "fill", "business", "rewrite", "append"}
  BY DEF TypeInv, ThreadTypes, JobType, Idle
<1>3. WatcherTypeOK
  BY <1>1, <1>2 DEF TypeInv, FileTypes, ThreadTypes, ScriptTypes, WatcherTypeOK
<1>4. state = "serving" => Len(stack) > 0
  <2>1. Len(stack) \in Nat /\ (stack # <<>> => Len(stack) # 0)
    BY EmptySeq, LenProperties DEF TypeInv, LoaderTypes
  <2> QED  BY <2>1 DEF TypeInv, LoaderTypes, Running
<1>5. LoaderTypeOK
  BY <1>4 DEF TypeInv, LoaderTypes, LoaderTypeOK
<1> QED  BY <1>3, <1>5 DEF TypeInv, HistoryTypes, TypeOK

(* A frame whose next require is done is still one frame. *)
LEMMA AdvancedFrames ==
    ASSUME NEW frames, frames \in Seq(Range(frames))
    PROVE  /\ Advanced(frames) \in Seq(Range(Advanced(frames)))
           /\ Len(Advanced(frames)) = Len(frames)
<1> DEFINE n == Len(frames)
           a == Advanced(frames)
<1>1. n \in Nat /\ DOMAIN frames = 1..n
  BY LenProperties
<1>2. \E f : a = [k \in 1..n |-> f[k]]
  <2>1. DOMAIN a = 1..n /\ a = [k \in DOMAIN a |-> a[k]]
    BY <1>1 DEF Advanced
  <2> QED  BY <2>1
<1> HIDE DEF a, n
<1>3. a \in [1..n -> Range(a)]
  BY <1>2 DEF Range
<1>4. a \in Seq(Range(a))
  BY <1>1, <1>3, SeqDef
<1>5. Len(a) \in Nat /\ 1..Len(a) = 1..n
  BY <1>3, <1>4, LenProperties
<1>6. Len(a) = n
  <2>1. /\ n = 0 \/ n \in 1..Len(a)
        /\ Len(a) = 0 \/ Len(a) \in 1..n
    BY <1>1, <1>5
  <2> QED  BY <1>1, <1>5, <2>1
<1> QED  BY <1>4, <1>6 DEF a, n

(* A new frame on the stack, and the stack below its top. *)
LEMMA StackOps ==
    ASSUME NEW frames, frames \in Seq(Range(frames)), NEW x
    PROVE  /\ Append(frames, x) \in Seq(Range(Append(frames, x)))
           /\ Len(Append(frames, x)) = Len(frames) + 1 /\ Append(frames, x) # <<>>
           /\ Len(frames) \in Nat /\ (frames = <<>> <=> Len(frames) = 0)
           /\ Len(frames) > 1 =>
                 /\ Front(frames) \in Seq(Range(Front(frames)))
                 /\ Len(Front(frames)) = Len(frames) - 1
<1> DEFINE S == Range(frames) \cup {x}
<1>1. frames \in Seq(S) /\ x \in S
  BY SeqMonotonic
<1>2. Append(frames, x) \in Seq(S) /\ Len(Append(frames, x)) = Len(frames) + 1 /\ Append(frames, x) # <<>>
  BY <1>1, AppendProperties
<1>3. Append(frames, x) \in Seq(Range(Append(frames, x)))
  BY <1>2, SeqOfRange
<1>4. Len(frames) \in Nat /\ (frames = <<>> <=> Len(frames) = 0)
  BY EmptySeq, LenProperties
<1>5. ASSUME Len(frames) > 1
      PROVE  Front(frames) \in Seq(Range(Front(frames))) /\ Len(Front(frames)) = Len(frames) - 1
  <2>1. /\ SubSeq(frames, 1, Len(frames) - 1) \in Seq(Range(frames))
        /\ Len(SubSeq(frames, 1, Len(frames) - 1)) = Len(frames) - 1
    BY <1>4, <1>5, SubSeqProperties
  <2>2. SubSeq(frames, 1, Len(frames) - 1) \in Seq(Range(SubSeq(frames, 1, Len(frames) - 1)))
    BY <2>1, SeqOfRange
  <2> QED  BY <2>1, <2>2 DEF Front
<1> QED  BY <1>2, <1>3, <1>4, <1>5
-----------------------------------------------------------------------------
(* Steps keep the types *)

(* The first lines of a text are what may be read. *)
LEMMA FirstLines ==
    ASSUME NEW file, NEW text \in Documents[file], NEW n \in 0..Len(text)
    PROVE  SubSeq(text, 1, n) \in Begun(file)
<1> DEFINE S(t) == {SubSeq(t, 1, m) : m \in 0..Len(t)}
<1>1. SubSeq(text, 1, n) \in S(text)
  OBVIOUS
<1>2. Begun(file) = UNION {S(t) : t \in Documents[file]}
  BY DEF Begun
<1> HIDE DEF S
<1> QED  BY <1>1, <1>2

(* So is all of a text. *)
LEMMA WholeText ==
    ASSUME NEW file \in DOMAIN Documents, NEW text \in Documents[file]
    PROVE  text \in Begun(file)
<1>1. text \in Seq(Range(text))
  BY DocumentAssumption
<1>2. SubSeq(text, 1, Len(text)) = text /\ Len(text) \in Nat
  BY <1>1, SubSeqFull, LenProperties
<1>3. Len(text) \in 0..Len(text)
  BY <1>2
<1>4. SubSeq(text, 1, Len(text)) \in Begun(file)
  BY <1>3, FirstLines
<1> QED  BY <1>2, <1>4

LEMMA InitTypes == Init => TypeInv
<1> SUFFICES ASSUME Init
             PROVE  TypeInv
  OBVIOUS
<1>1. ScriptTypes
  BY FolderAssumption DEF Init, ScriptTypes
<1>2. LoaderTypes
  <2>1. <<>> \in Seq(Range(<<>>)) /\ Len(<<>>) = 0
    BY EmptySeq
  <2> QED  BY <2>1, DepthAssumption DEF Init, LoaderInit, LoaderTypes, Running
<1>3. FileTypes
  <2>1. events \in Seq(DOMAIN Documents)
    BY EmptySeq DEF Init, WatcherInit
  <2>2. Template \in Begun("agent")
    BY WholeText, DocumentAssumption
  <2>3. DOMAIN writing = {} /\ DOMAIN md \subseteq {"agent"} /\ \A f \in DOMAIN md : md[f] = Template
    BY DEF Init, WatcherInit
  <2>4. edits = 0 /\ noticed = {}
    BY DEF Init, WatcherInit
  <2> QED  BY <2>1, <2>2, <2>3, <2>4, DocumentAssumption DEF FileTypes
<1>4. ThreadTypes /\ faults \in 0..MaxFaults
  <2>1. faults = 0 /\ watching = FALSE /\ job = Idle
    BY DEF Init, WatcherInit
  <2>2. faults \in 0..MaxFaults
    BY <2>1, FolderAssumption
  <2> QED  BY <2>1, <2>2 DEF ThreadTypes, JobType
<1>5. HistoryTypes
  BY DEF Init, HistoryTypes
<1> QED  BY <1>1, <1>2, <1>3, <1>4, <1>5 DEF TypeInv

LEMMA StartTypes ==
    ASSUME TypeInv, Start
    PROVE  TypeInv'
<1>1. /\ ~Running /\ state' = "booting" /\ cache' = {} /\ watching' = FALSE
      /\ stack' = <<Frame("main", [EmptyScript EXCEPT !.requires = <<"auth", "sanitize", "business">>])>>
      /\ md' = IF DOMAIN md = {} THEN With(md, "agent", Template) ELSE md
      /\ UNCHANGED <<scripts, writing, events, job, noticed, edits, installed, replaced, faults>>
  BY DEF Start, Booting, Scaffold, Outermost, history
<1>2. ScriptTypes'
  BY <1>1 DEF TypeInv, ScriptTypes
<1>3. LoaderTypes'
  <2>1. ASSUME NEW x
        PROVE  <<x>> \in Seq(Range(<<x>>)) /\ Len(<<x>>) = 1 /\ <<x>> # <<>>
    <3>1. <<x>> \in Seq({x}) /\ Len(<<x>>) = 1 /\ <<x>> # <<>>
      OBVIOUS
    <3> QED  BY <3>1, SeqOfRange
  <2> QED  BY <1>1, <2>1, DepthAssumption DEF LoaderTypes
<1>4. FileTypes'
  <2>1. CASE DOMAIN md = {}
    <3>1. DOMAIN md' = {"agent"} /\ md'["agent"] = Template
      BY <1>1, <2>1 DEF With
    <3>2. DOMAIN writing = {}
      BY <2>1 DEF TypeInv, FileTypes
    <3>3. Template \in Begun("agent")
      BY WholeText, DocumentAssumption
    <3> QED  BY <1>1, <3>1, <3>2, <3>3, DocumentAssumption DEF TypeInv, FileTypes
  <2>2. CASE DOMAIN md # {}
    BY <1>1, <2>2 DEF TypeInv, FileTypes
  <2> QED  BY <2>1, <2>2
<1>5. ThreadTypes' /\ HistoryTypes'
  BY <1>1 DEF TypeInv, ThreadTypes, JobType, IsApp, HistoryTypes
<1> QED  BY <1>1, <1>2, <1>3, <1>4, <1>5 DEF TypeInv

(* What a failed require leaves of the stack *)
LEMMA FailedFrames ==
    ASSUME NEW frames, frames \in Seq(Range(frames)), Len(frames) > 0, NEW name, Failed(frames, name)
    PROVE  /\ stack' \in Seq(Range(stack')) /\ Len(stack') = Len(frames) /\ stack' # <<>>
           /\ state' \in {"exited", state}
<1>1. stack' = Advanced(frames) /\ state' \in {"exited", state}
  BY DEF Failed
<1>2. stack' \in Seq(Range(stack')) /\ Len(stack') = Len(frames)
  BY <1>1, AdvancedFrames
<1>3. stack' # <<>>
  BY <1>2, EmptySeq
<1> QED  BY <1>1, <1>2, <1>3

LEMMA LoaderStepTypes ==
    ASSUME LoaderTypes, LoaderNext
    PROVE  LoaderTypes' /\ Running /\ (state' = "exited" \/ Running') /\ scripts' = scripts
<1>1. /\ stack \in Seq(Range(stack)) /\ Len(stack) <= MaxDepth /\ Len(stack) \in Nat
      /\ Running => Len(stack) >= 1
      /\ MaxDepth \in Nat \ {0}
  BY StackOps, DepthAssumption DEF LoaderTypes
<1>2. Running /\ scripts' = scripts
  BY DEF LoaderNext, LoaderStep, RequireHit, RequireFails, Enter, Throw, Leave, Serve, Handle, Running
<1>3. ASSUME stack' \in Seq(Range(stack')), Len(stack') <= MaxDepth, stack' # <<>>,
             state' \in {"booting", "serving", "exited"}, cache' \subseteq DOMAIN finished'
      PROVE  LoaderTypes' /\ (state' = "exited" \/ Running')
  BY <1>3 DEF LoaderTypes, Running
<1>4. state \in {"booting", "serving"}
  BY <1>2 DEF Running
<1>5. CASE RequireHit
  <2>1. stack' = Advanced(stack) /\ UNCHANGED <<state, cache, finished>>
    BY <1>5 DEF RequireHit
  <2>2. stack' \in Seq(Range(stack')) /\ Len(stack') = Len(stack)
    BY <1>1, <2>1, AdvancedFrames
  <2>3. stack' # <<>>
    BY <1>1, <1>2, <2>2, EmptySeq
  <2> QED  BY <1>1, <1>2, <1>3, <1>4, <2>1, <2>2, <2>3 DEF LoaderTypes
<1>6. CASE RequireFails
  <2>1. Failed(stack, Wants) /\ UNCHANGED <<cache, finished>>
    BY <1>6 DEF RequireFails
  <2>2. /\ stack' \in Seq(Range(stack')) /\ Len(stack') = Len(stack) /\ stack' # <<>>
        /\ state' \in {"exited", state}
    BY <1>1, <1>2, <2>1, FailedFrames
  <2> QED  BY <1>1, <1>2, <1>3, <1>4, <2>1, <2>2 DEF LoaderTypes
<1>7. CASE Enter
  <2>1. /\ stack' = Append(stack, Frame(Wants, LoadScript(Wants))) /\ Len(stack) < MaxDepth
        /\ UNCHANGED <<state, cache, finished>>
    BY <1>7 DEF Enter
  <2>2. stack' \in Seq(Range(stack')) /\ Len(stack') = Len(stack) + 1 /\ stack' # <<>>
    BY <1>1, <2>1, StackOps
  <2> QED  BY <1>1, <1>2, <1>3, <1>4, <2>1, <2>2 DEF LoaderTypes
<1>8. CASE Throw
  <2>1. Failed(Front(stack), Top.name) /\ UNCHANGED <<cache, finished>> /\ Len(stack) > 1
    BY <1>8 DEF Throw
  <2>2. Front(stack) \in Seq(Range(Front(stack))) /\ Len(Front(stack)) = Len(stack) - 1
    BY <1>1, <2>1, StackOps
  <2>3. Len(Front(stack)) > 0
    BY <1>1, <2>1, <2>2
  <2>4. /\ stack' \in Seq(Range(stack')) /\ Len(stack') = Len(Front(stack)) /\ stack' # <<>>
        /\ state' \in {"exited", state}
    BY <2>1, <2>2, <2>3, FailedFrames
  <2> QED  BY <1>1, <1>2, <1>3, <1>4, <2>1, <2>2, <2>4 DEF LoaderTypes
<1>9. CASE Leave
  <2>1. /\ stack' = Advanced(Front(stack)) /\ Len(stack) > 1 /\ state' = state
        /\ cache' = cache \cup Kept(Top.name, stack[Len(stack) - 1])
        /\ DOMAIN finished' = DOMAIN finished \cup {Top.name}
    BY <1>9 DEF Leave
  <2>2. Front(stack) \in Seq(Range(Front(stack))) /\ Len(Front(stack)) = Len(stack) - 1
    BY <1>1, <2>1, StackOps
  <2>3. stack' \in Seq(Range(stack')) /\ Len(stack') = Len(stack) - 1
    BY <2>1, <2>2, AdvancedFrames
  <2>4. stack' # <<>>
    BY <1>1, <2>1, <2>3, EmptySeq
  <2>5. cache' \subseteq DOMAIN finished'
    BY <2>1 DEF LoaderTypes, Kept
  <2> QED  BY <1>1, <1>2, <1>3, <1>4, <2>1, <2>3, <2>4, <2>5
<1>10. CASE Serve
  BY <1>1, <1>2, <1>3, <1>10 DEF Serve, LoaderTypes
<1>11. ASSUME NEW name \in HandlerRequires, Handle(name)
       PROVE  LoaderTypes' /\ (state' = "exited" \/ Running')
  <2>1. \E x : stack' = <<x>> /\ UNCHANGED <<state, cache, finished>>
    BY <1>11 DEF Handle, Outermost
  <2>2. stack' \in Seq(Range(stack')) /\ Len(stack') = 1 /\ stack' # <<>>
    <3>1. PICK x : stack' = <<x>>
      BY <2>1
    <3>2. <<x>> \in Seq({x}) /\ Len(<<x>>) = 1 /\ <<x>> # <<>>
      OBVIOUS
    <3> QED  BY <3>1, <3>2, SeqOfRange
  <2> QED  BY <1>1, <1>2, <1>3, <1>4, <2>1, <2>2 DEF LoaderTypes
<1> QED  BY <1>2, <1>5, <1>6, <1>7, <1>8, <1>9, <1>10, <1>11 DEF LoaderNext, LoaderStep

LEMMA LoadTypes ==
    ASSUME TypeInv, Load
    PROVE  TypeInv'
<1>1. LoaderTypes' /\ Running /\ (state' = "exited" \/ Running') /\ scripts' = scripts
  BY LoaderStepTypes DEF TypeInv, Load
<1>2. faults' = faults /\ HistoryTypes'
  BY DEF Load, TypeInv, HistoryTypes, history
<1>3. CASE state' = "exited"
  <2>1. /\ watching' = FALSE /\ events' = <<>> /\ job' = Idle /\ noticed' = {}
        /\ UNCHANGED <<md, writing, edits>>
    BY <1>3 DEF Load, WatcherDies
  <2>2. events' \in Seq(DOMAIN Documents)
    BY <2>1, EmptySeq
  <2>3. FileTypes'
    BY <2>1, <2>2 DEF TypeInv, FileTypes
  <2> QED  BY <1>1, <1>2, <2>1, <2>3 DEF TypeInv, ScriptTypes, ThreadTypes, JobType
<1>4. CASE state' # "exited"
  <2>1. UNCHANGED <<md, writing, watching, events, job, noticed, edits>>
    BY <1>4 DEF Load, watcherVars
  <2>2. FileTypes' /\ ScriptTypes'
    BY <1>1, <2>1 DEF TypeInv, FileTypes, ScriptTypes
  <2>3. ThreadTypes'
    BY <1>1, <1>4, <2>1 DEF TypeInv, ThreadTypes, JobType, IsApp
  <2> QED  BY <1>1, <1>2, <2>2, <2>3 DEF TypeInv
<1> QED  BY <1>3, <1>4
(* inotify reports files that may be there, and nothing else changes. *)
LEMMA ReportTypes ==
    ASSUME FileTypes, NEW file \in DOMAIN Documents, NEW mask, Report(file, mask)
    PROVE  events' \in Seq(DOMAIN Documents) /\ noticed' \subseteq DOMAIN Documents
<1>1. Append(events, file) \in Seq(DOMAIN Documents)
  BY AppendProperties DEF FileTypes
<1>2. events \in Seq(DOMAIN Documents) /\ noticed \subseteq DOMAIN Documents
  BY DEF FileTypes
<1> QED  BY <1>1, <1>2 DEF Report

(* An editor keeps what it has written and what it has still to write apart. *)
LEMMA EditorTypes ==
    ASSUME FileTypes, NEW file \in DOMAIN Documents,
           \/ \E text \in Documents[file] : Open(file, text) \/ MoveIn(file, text)
           \/ WriteLine(file) \/ Close(file) \/ Delete(file)
    PROVE  FileTypes'
<1>1. edits' \in 0..MaxEdits
  <2>1. edits \in 0..MaxEdits /\ (Edit => edits' = edits + 1 /\ edits < MaxEdits)
    BY DEF FileTypes, Edit
  <2>2. edits' = edits \/ Edit
    BY DEF Open, MoveIn, WriteLine, Close, Delete
  <2> QED  BY <2>1, <2>2, DocumentAssumption
<1>2. events' \in Seq(DOMAIN Documents) /\ noticed' \subseteq DOMAIN Documents
  <2>1. (\E mask : Report(file, mask)) \/ UNCHANGED <<events, noticed>>
    BY DEF Open, MoveIn, WriteLine, Close, Delete
  <2> QED  BY <2>1, ReportTypes DEF FileTypes
<1> DEFINE Half(m, w, f) ==
              \E text \in Documents[f] : \E n \in 0..Len(text) :
                 m = SubSeq(text, 1, n) /\ w = SubSeq(text, n + 1, Len(text))
<1>3. /\ DOMAIN md \cup DOMAIN writing \subseteq DOMAIN Documents
      /\ \A f \in DOMAIN md \ DOMAIN writing : md[f] \in Begun(f)
      /\ \A f \in DOMAIN writing : f \in DOMAIN md /\ Half(md[f], writing[f], f)
  BY DEF FileTypes
<1> SUFFICES /\ DOMAIN md' \cup DOMAIN writing' \subseteq DOMAIN Documents
             /\ \A f \in DOMAIN md' \ DOMAIN writing' : md'[f] \in Begun(f)
             /\ \A f \in DOMAIN writing' : f \in DOMAIN md' /\ Half(md'[f], writing'[f], f)
  BY <1>1, <1>2 DEF FileTypes
<1>4. ASSUME NEW text \in Documents[file], Open(file, text)
      PROVE  /\ DOMAIN md' = DOMAIN md \cup {file} /\ DOMAIN writing' = DOMAIN writing \cup {file}
             /\ Half(md'[file], writing'[file], file)
             /\ \A f \in DOMAIN md : f # file => md'[f] = md[f]
             /\ \A f \in DOMAIN writing : f # file => writing'[f] = writing[f]
  <2>1. md' = With(md, file, <<>>) /\ writing' = With(writing, file, text)
    BY <1>4 DEF Open
  <2>2. text \in Seq(Range(text))
    BY DocumentAssumption
  <2>3. Len(text) \in Nat
    BY <2>2, LenProperties
  <2>4. SubSeq(text, 1, 0) = <<>> /\ SubSeq(text, 0 + 1, Len(text)) = text
    BY <2>2, SubSeqEmpty, SubSeqFull
  <2>5. 0 \in 0..Len(text)
    BY <2>3
  <2>6. Half(<<>>, text, file)
    BY <2>4, <2>5
  <2> HIDE DEF Half
  <2> QED  BY <2>1, <2>6 DEF With
<1>5. ASSUME NEW text \in Documents[file], MoveIn(file, text)
      PROVE  /\ DOMAIN md' = DOMAIN md \cup {file} /\ writing' = writing /\ file \notin DOMAIN writing
             /\ md'[file] \in Begun(file)
             /\ \A f \in DOMAIN md : f # file => md'[f] = md[f]
  <2>1. md' = With(md, file, text) /\ writing' = writing /\ file \notin DOMAIN writing
    BY <1>5 DEF MoveIn
  <2> QED  BY <2>1, WholeText DEF With
<1>6. ASSUME WriteLine(file)
      PROVE  /\ DOMAIN md' = DOMAIN md /\ DOMAIN writing' = DOMAIN writing /\ file \in DOMAIN writing
             /\ Half(md'[file], writing'[file], file)
             /\ \A f \in DOMAIN md : f # file => md'[f] = md[f]
             /\ \A f \in DOMAIN writing : f # file => writing'[f] = writing[f]
  <2>1. /\ file \in DOMAIN writing /\ writing[file] # <<>>
        /\ writing' = [writing EXCEPT ![file] = Tail(@)]
        /\ md' = [md EXCEPT ![file] = Append(@, Head(writing[file]))]
    BY <1>3, <1>6 DEF WriteLine
  <2>2. PICK text \in Documents[file] : \E n \in 0..Len(text) :
           md[file] = SubSeq(text, 1, n) /\ writing[file] = SubSeq(text, n + 1, Len(text))
    BY <1>3, <2>1
  <2>3. PICK n \in 0..Len(text) :
           md[file] = SubSeq(text, 1, n) /\ writing[file] = SubSeq(text, n + 1, Len(text))
    BY <2>2
  <2>4. text \in Seq(Range(text)) /\ Len(text) \in Nat
    <3>1. text \in Seq(Range(text))
      BY DocumentAssumption
    <3> QED  BY <3>1, LenProperties
  <2>5. n < Len(text)
    <3>1. n = Len(text) => SubSeq(text, n + 1, Len(text)) = <<>>
      BY <2>4, SubSeqEmpty
    <3> QED  BY <2>1, <2>3, <2>4, <3>1
  <2>6. /\ n + 1 \in 1..Len(text) /\ Len(text) \in (n + 1)..Len(text)
        /\ n + 1 \in 1..(n + 1) /\ n + 1 \in 0..Len(text) /\ (n + 1) - 1 = n /\ 1 \in 1..Len(text)
        /\ n + 1 \in 1..Len(text)
    BY <2>3, <2>4, <2>5
  <2>7. /\ Head(writing[file]) = text[n + 1]
        /\ Tail(writing[file]) = SubSeq(text, (n + 1) + 1, Len(text))
    BY <2>3, <2>4, <2>6, HeadTailOfSubSeq
  <2>8. SubSeq(text, 1, n + 1) = SubSeq(text, 1, n) \o <<text[n + 1]>>
    BY <2>4, <2>6, SubSeqRecursiveSecond
  <2>9. SubSeq(text, 1, n) \in Seq(Range(text)) /\ text[n + 1] \in Range(text)
    <3>1. DOMAIN text = 1..Len(text)
      BY <2>4, LenProperties
    <3>2. \A k \in 1..n : text[k] \in Range(text)
      BY <2>3, <2>4, <3>1 DEF Range
    <3>3. n \in Int /\ 1 \in Int
      BY <2>3
    <3>4. SubSeq(text, 1, n) \in Seq(Range(text))
      BY <3>2, <3>3, SubSeqProperties
    <3> QED  BY <2>6, <3>1, <3>4 DEF Range
  <2>10. Append(SubSeq(text, 1, n), text[n + 1]) = SubSeq(text, 1, n) \o <<text[n + 1]>>
    BY <2>9, AppendIsConcat
  <2>11. Append(md[file], Head(writing[file])) = SubSeq(text, 1, n + 1)
    BY <2>3, <2>7, <2>8, <2>10
  <2>12. Half(Append(md[file], Head(writing[file])), Tail(writing[file]), file)
    BY <2>6, <2>7, <2>11
  <2> HIDE DEF Half
  <2> QED  BY <1>3, <2>1, <2>12
<1>7. ASSUME Close(file)
      PROVE  /\ md' = md /\ DOMAIN writing' = DOMAIN writing \ {file} /\ file \in DOMAIN writing
             /\ md[file] \in Begun(file)
             /\ \A f \in DOMAIN writing : f # file => writing'[f] = writing[f]
  <2>1. file \in DOMAIN writing /\ writing' = Without(writing, file) /\ md' = md
    BY <1>7 DEF Close
  <2>2. md[file] \in Begun(file)
    BY <1>3, <2>1, FirstLines
  <2> QED  BY <2>1, <2>2 DEF Without
<1>8. ASSUME Delete(file)
      PROVE  /\ DOMAIN md' = DOMAIN md \ {file} /\ writing' = writing /\ file \notin DOMAIN writing
             /\ \A f \in DOMAIN md : f # file => md'[f] = md[f]
  BY <1>8 DEF Delete, Without
<1> HIDE DEF Half
<1> QED  BY <1>3, <1>4, <1>5, <1>6, <1>7, <1>8

LEMMA WriteTypes ==
    ASSUME TypeInv, Write
    PROVE  TypeInv'
<1>1. UNCHANGED <<loaderVars, faults>> /\ HistoryTypes'
  BY DEF Write, TypeInv, HistoryTypes, history
<1>2. UNCHANGED <<scripts, watching, job>>
  BY DEF Write, EditorNext, Open, MoveIn, WriteLine, Close, Delete
<1>3. FileTypes'
  BY EditorTypes DEF TypeInv, Write, EditorNext
<1> QED
  BY <1>1, <1>2, <1>3 DEF loaderVars, TypeInv, ScriptTypes, LoaderTypes, Running, ThreadTypes,
                          JobType, IsApp
(* What is written to scripts/ is a script. *)
LEMMA ScriptsWritten ==
    /\ IsScript(EmptyScript)
    /\ \A app : IsScript(GenBusinessModule(app))
    /\ \A s, slug :
          IsScript(s) =>
              /\ IsScript([s EXCEPT !.requires = Append(@, slug)])
              /\ [s EXCEPT !.requires = Append(@, slug)].requires = Append(s.requires, slug)
              /\ [s EXCEPT !.requires = Append(@, slug)].api = s.api
<1>1. <<>> \in Seq(Range(<<>>))
  BY EmptySeq
<1>2. IsScript(EmptyScript)
  BY <1>1 DEF IsScript, EmptyScript
<1>3. \A app : IsScript(GenBusinessModule(app))
  BY <1>1 DEF IsScript, GenBusinessModule
<1>4. ASSUME NEW s, IsScript(s), NEW slug
      PROVE  /\ IsScript([s EXCEPT !.requires = Append(@, slug)])
             /\ [s EXCEPT !.requires = Append(@, slug)].requires = Append(s.requires, slug)
             /\ [s EXCEPT !.requires = Append(@, slug)].api = s.api
  <2> DEFINE r == Append(s.requires, slug)
             t == [s EXCEPT !.requires = Append(@, slug)]
  <2>1. s = [kind |-> s.kind, requires |-> s.requires, api |-> s.api]
    BY <1>4 DEF IsScript
  <2>2. s.kind \in {"ok", "throws", "broken"} /\ s.requires \in Seq(Range(s.requires))
    BY <1>4 DEF IsScript
  <2>3. r \in Seq(Range(r))
    BY <2>2, StackOps
  <2>4. t = [kind |-> s.kind, requires |-> r, api |-> s.api]
    <3>1. \A x : [s EXCEPT !.requires = x] = [kind |-> s.kind, requires |-> x, api |-> s.api]
      BY <2>1
    <3> QED  BY <3>1
  <2> HIDE DEF r, t
  <2>5. t.kind = s.kind /\ t.requires = r /\ t.api = s.api
    BY <2>4
  <2> QED  BY <2>2, <2>3, <2>4, <2>5 DEF IsScript, r, t
<1> QED  BY <1>2, <1>3, <1>4

(* The steps of the thread, each with the job it has and the job it leaves. *)
LEMMA WatchSteps ==
    ASSUME TypeInv, Watch
    PROVE  /\ UNCHANGED <<state, stack, cache, api, finished, installed, faults, interrupted>>
           /\ UNCHANGED <<md, writing, noticed, edits>>
           /\ Running /\ Running' /\ watching' = TRUE
           /\ \/ UNCHANGED <<scripts, events, job>>
              \/ /\ job = Idle /\ events # <<>> /\ events' = Tail(events)
                 /\ job' = [at |-> "read", file |-> Head(events)]
                 /\ UNCHANGED scripts
              \/ /\ job.at = "read" /\ job' = Idle
                 /\ UNCHANGED <<scripts, events>>
              \/ /\ job.at = "read" /\ job.file \in DOMAIN md
                 /\ job' = [at |-> "module", file |-> job.file, app |-> ParseRequirements(md[job.file])]
                 /\ UNCHANGED <<scripts, events>>
              \/ /\ job.at = "module" /\ IsApp(job.app)
                 /\ scripts' = Written(job.app.slug, EmptyScript)
                 /\ job' = [at |-> "fill", file |-> job.file, app |-> job.app]
                 /\ UNCHANGED events
              \/ /\ job.at = "fill" /\ IsApp(job.app)
                 /\ scripts' = Written(job.app.slug, GenBusinessModule(job.app))
                 /\ job' = [at |-> "business", file |-> job.file, app |-> job.app]
                 /\ UNCHANGED events
              \/ /\ job.at = "business" /\ IsApp(job.app)
                 /\ job' = Idle
                 /\ UNCHANGED <<scripts, events>>
              \/ /\ job.at = "business" /\ IsApp(job.app) /\ "business" \in DOMAIN scripts
                 /\ job' = [at |-> "rewrite", file |-> job.file, body |-> Appended(job.app.slug)]
                 /\ UNCHANGED <<scripts, events>>
              \/ /\ job.at = "rewrite" /\ IsScript(job.body)
                 /\ scripts' = Written("business", EmptyScript)
                 /\ job' = [at |-> "append", file |-> job.file, body |-> job.body]
                 /\ UNCHANGED events
              \/ /\ job.at = "append" /\ IsScript(job.body)
                 /\ scripts' = Written("business", job.body)
                 /\ job' = Idle
                 /\ UNCHANGED events
<1>1. /\ UNCHANGED <<state, stack, cache, api, finished, installed, faults, interrupted>>
      /\ Running /\ Running'
  BY DEF Watch, loaderVars, Running
<1>2. JobType /\ watching \in BOOLEAN /\ (~watching => job = Idle)
  BY DEF TypeInv, ThreadTypes
<1>3. UNCHANGED <<md, writing, noticed, edits>>
  BY DEF Watch, ThreadStep, AddWatch, TakeEvent, ReadFile, OpenScript, FillModule, ReadBusiness,
         FillBusiness, Files
<1>4. job # Idle => watching
  BY <1>2
<1>5. Idle.at = "idle"
  BY DEF Idle
<1>6. CASE AddWatch
  BY <1>1, <1>3, <1>6 DEF AddWatch
<1>7. CASE TakeEvent
  BY <1>1, <1>3, <1>7 DEF TakeEvent
<1>8. CASE ReadFile
  <2>1. job.at = "read" /\ UNCHANGED <<scripts, watching, events>>
    BY <1>8 DEF ReadFile
  <2>2. watching' = TRUE
    BY <1>2, <1>4, <1>5, <2>1
  <2> QED  BY <1>1, <1>3, <1>8, <2>1, <2>2 DEF ReadFile
<1>9. CASE OpenScript
  <2>1. /\ job.at \in {"module", "rewrite"} /\ scripts' = Written(Target, EmptyScript)
        /\ job' = [job EXCEPT !.at = AfterOpen(@)] /\ UNCHANGED <<watching, events>>
    BY <1>9 DEF OpenScript
  <2>2. watching' = TRUE
    BY <1>2, <1>4, <1>5, <2>1
  <2>3. CASE job.at = "module"
    <3>1. IsApp(job.app) /\ job = [at |-> job.at, file |-> job.file, app |-> job.app]
      BY <1>2, <1>5, <2>3 DEF JobType
    <3>2. Target = job.app.slug /\ AfterOpen(job.at) = "fill"
      BY <2>3 DEF Target, AfterOpen
    <3>3. job' = [at |-> "fill", file |-> job.file, app |-> job.app]
      BY <2>1, <3>1, <3>2
    <3> QED  BY <1>1, <1>3, <2>1, <2>2, <2>3, <3>1, <3>2, <3>3
  <2>4. CASE job.at = "rewrite"
    <3>1. IsScript(job.body) /\ job = [at |-> job.at, file |-> job.file, body |-> job.body]
      BY <1>2, <1>5, <2>4 DEF JobType
    <3>2. Target = "business" /\ AfterOpen(job.at) = "append"
      BY <2>4 DEF Target, AfterOpen
    <3>3. job' = [at |-> "append", file |-> job.file, body |-> job.body]
      BY <2>1, <3>1, <3>2
    <3> QED  BY <1>1, <1>3, <2>1, <2>2, <2>4, <3>1, <3>2, <3>3
  <2> QED  BY <2>1, <2>3, <2>4
<1>10. CASE FillModule
  <2>1. /\ job.at = "fill" /\ scripts' = Written(Target, GenBusinessModule(job.app))
        /\ job' = [job EXCEPT !.at = "business"] /\ UNCHANGED <<watching, events>>
    BY <1>10 DEF FillModule
  <2>2. watching' = TRUE
    BY <1>2, <1>4, <1>5, <2>1
  <2>3. IsApp(job.app) /\ job = [at |-> job.at, file |-> job.file, app |-> job.app]
    BY <1>2, <1>5, <2>1 DEF JobType
  <2>4. Target = job.app.slug
    BY <2>1 DEF Target
  <2>5. job' = [at |-> "business", file |-> job.file, app |-> job.app]
    BY <2>1, <2>3
  <2> QED  BY <1>1, <1>3, <2>1, <2>2, <2>3, <2>4, <2>5
<1>11. CASE ReadBusiness
  <2>1. job.at = "business" /\ UNCHANGED <<scripts, watching, events>>
    BY <1>11 DEF ReadBusiness
  <2>2. watching' = TRUE
    BY <1>2, <1>4, <1>5, <2>1
  <2>3. IsApp(job.app)
    BY <1>2, <1>5, <2>1 DEF JobType
  <2> QED  BY <1>1, <1>3, <1>11, <2>1, <2>2, <2>3 DEF ReadBusiness
<1>12. CASE FillBusiness
  <2>1. job.at = "append" /\ scripts' = Written("business", job.body) /\ job' = Idle
        /\ UNCHANGED <<watching, events>>
    BY <1>12 DEF FillBusiness
  <2>2. watching' = TRUE
    BY <1>2, <1>4, <1>5, <2>1
  <2>3. IsScript(job.body)
    BY <1>2, <1>5, <2>1 DEF JobType
  <2> QED  BY <1>1, <1>3, <2>1, <2>2, <2>3
<1> QED  BY <1>6, <1>7, <1>8, <1>9, <1>10, <1>11, <1>12 DEF Watch, ThreadStep

(* What a step of the thread adds to the installed scripts that it has      *)
(* written over                                                             *)
LEMMA WatchReplaces ==
    ASSUME TypeInv, Watch
    PROVE  /\ HistoryTypes' /\ replaced \subseteq replaced'
           /\ job.at = "module" /\ job.app.slug \in DOMAIN installed => job.app.slug \in replaced'
<1>1. /\ installed' = installed /\ replaced \subseteq DOMAIN installed /\ installed \in CoreScripts
      /\ replaced' = replaced \cup (IF job.at = "module" THEN {Target} \cap DOMAIN installed ELSE {})
  BY DEF Watch, TypeInv, HistoryTypes
<1>2. job.at = "module" => Target = job.app.slug
  BY DEF Target
<1> QED  BY <1>1, <1>2 DEF HistoryTypes

LEMMA WatchTypes ==
    ASSUME TypeInv, Watch
    PROVE  TypeInv'
<1>1. /\ UNCHANGED <<state, stack, cache, api, finished, installed, faults, interrupted>>
      /\ UNCHANGED <<md, writing, noticed, edits>>
      /\ Running /\ Running' /\ watching' = TRUE
  BY WatchSteps
<1>2. LoaderTypes' /\ HistoryTypes' /\ faults' \in 0..MaxFaults
  BY <1>1, WatchReplaces DEF TypeInv, LoaderTypes, Running
<1>3. events \in Seq(DOMAIN Documents) /\ ScriptTypes /\ JobType
  BY DEF TypeInv, FileTypes, ScriptTypes, ThreadTypes
<1>4. ASSUME events' \in Seq(DOMAIN Documents), ScriptTypes', JobType'
      PROVE  TypeInv'
  <2>1. FileTypes'
    BY <1>1, <1>4 DEF TypeInv, FileTypes
  <2>2. ThreadTypes'
    BY <1>1, <1>4 DEF ThreadTypes
  <2> QED  BY <1>2, <1>4, <2>1, <2>2 DEF TypeInv
<1>5. ASSUME NEW name, NEW s, IsScript(s), scripts' = Written(name, s)
      PROVE  ScriptTypes'
  BY <1>3, <1>5 DEF ScriptTypes, Written
<1>6. CASE UNCHANGED <<scripts, events, job>>
  BY <1>3, <1>4, <1>6 DEF ScriptTypes, JobType, IsApp
<1>7. CASE /\ job = Idle /\ events # <<>> /\ events' = Tail(events)
           /\ job' = [at |-> "read", file |-> Head(events)]
           /\ UNCHANGED scripts
  <2>1. events' \in Seq(DOMAIN Documents) /\ Head(events) \in DOMAIN Documents
    BY <1>3, <1>7, HeadTailProperties
  <2>2. JobType'
    BY <1>7, <2>1 DEF JobType
  <2> QED  BY <1>3, <1>4, <1>7, <2>1, <2>2 DEF ScriptTypes
<1>8. CASE job' = Idle /\ UNCHANGED <<scripts, events>>
  <2>1. JobType'
    BY <1>8 DEF JobType
  <2> QED  BY <1>3, <1>4, <1>8, <2>1 DEF ScriptTypes
<1>9. CASE /\ job.at = "read" /\ job.file \in DOMAIN md
           /\ job' = [at |-> "module", file |-> job.file, app |-> ParseRequirements(md[job.file])]
           /\ UNCHANGED <<scripts, events>>
  <2>1. job.file \in DOMAIN Documents /\ md[job.file] \in Begun(job.file)
    <3>1. job.file \in DOMAIN Documents
      BY <1>9 DEF TypeInv, FileTypes
    <3>2. CASE job.file \in DOMAIN writing
      <4>1. PICK text \in Documents[job.file] : \E n \in 0..Len(text) : md[job.file] = SubSeq(text, 1, n)
        BY <3>2 DEF TypeInv, FileTypes
      <4> QED  BY <3>1, <4>1, FirstLines
    <3>3. CASE job.file \notin DOMAIN writing
      BY <1>9, <3>1, <3>3 DEF TypeInv, FileTypes
    <3> QED  BY <3>2, <3>3, <3>1
  <2>2. IsApp(ParseRequirements(md[job.file]))
    BY <2>1 DEF IsApp
  <2>3. IsApp(job.app)'
    BY <1>9, <2>2 DEF IsApp
  <2>4. JobType'
    BY <1>9, <2>3 DEF JobType
  <2> QED  BY <1>3, <1>4, <1>9, <2>4 DEF ScriptTypes
<1>10. CASE /\ job.at = "module" /\ IsApp(job.app)
            /\ scripts' = Written(job.app.slug, EmptyScript)
            /\ job' = [at |-> "fill", file |-> job.file, app |-> job.app]
            /\ UNCHANGED events
  <2>1. IsApp(job.app)'
    BY <1>10 DEF IsApp
  <2>2. JobType'
    BY <1>10, <2>1 DEF JobType
  <2> QED  BY <1>3, <1>4, <1>5, <1>10, <2>2, ScriptsWritten
<1>11. CASE /\ job.at = "fill" /\ IsApp(job.app)
            /\ scripts' = Written(job.app.slug, GenBusinessModule(job.app))
            /\ job' = [at |-> "business", file |-> job.file, app |-> job.app]
            /\ UNCHANGED events
  <2>1. IsApp(job.app)'
    BY <1>11 DEF IsApp
  <2>2. JobType'
    BY <1>11, <2>1 DEF JobType
  <2> QED  BY <1>3, <1>4, <1>5, <1>11, <2>2, ScriptsWritten
<1>12. CASE /\ job.at = "business" /\ IsApp(job.app) /\ "business" \in DOMAIN scripts
            /\ job' = [at |-> "rewrite", file |-> job.file, body |-> Appended(job.app.slug)]
            /\ UNCHANGED <<scripts, events>>
  <2>1. IsScript(Appended(job.app.slug))
    BY <1>3, <1>12, ScriptsWritten DEF ScriptTypes, Appended
  <2>2. JobType'
    BY <1>12, <2>1 DEF JobType, IsScript
  <2> QED  BY <1>3, <1>4, <1>12, <2>2 DEF ScriptTypes
<1>13. CASE /\ job.at = "rewrite" /\ IsScript(job.body)
            /\ scripts' = Written("business", EmptyScript)
            /\ job' = [at |-> "append", file |-> job.file, body |-> job.body]
            /\ UNCHANGED events
  <2>1. JobType'
    BY <1>13 DEF JobType, IsScript
  <2> QED  BY <1>3, <1>4, <1>5, <1>13, <2>1, ScriptsWritten
<1>14. CASE /\ job.at = "append" /\ IsScript(job.body)
            /\ scripts' = Written("business", job.body)
            /\ job' = Idle
            /\ UNCHANGED events
  <2>1. JobType'
    BY <1>14 DEF JobType
  <2> QED  BY <1>3, <1>4, <1>5, <1>14, <2>1
<1> QED  BY <1>6, <1>7, <1>8, <1>9, <1>10, <1>11, <1>12, <1>13, <1>14, WatchSteps

LEMMA FaultTypes ==
    ASSUME TypeInv, DiskFails \/ Crash
    PROVE  TypeInv'
<1>1. faults' \in 0..MaxFaults /\ scripts' = scripts /\ HistoryTypes'
  BY FolderAssumption DEF TypeInv, DiskFails, Crash, OpenFails, HistoryTypes, history
<1>2. CASE DiskFails
  <2>1. UNCHANGED <<state, stack, cache, finished>> /\ job' = Idle /\ noticed' \subseteq noticed
        /\ UNCHANGED <<md, writing, watching, events, edits>>
    BY <1>2 DEF DiskFails, loaderVars, OpenFails
  <2> QED
    BY <1>1, <2>1 DEF TypeInv, ScriptTypes, LoaderTypes, FileTypes, ThreadTypes, JobType, Running
<1>3. CASE Crash
  <2>1. /\ state' = "down" /\ stack' = <<>> /\ cache' = {} /\ watching' = FALSE
        /\ events' = <<>> /\ job' = Idle /\ noticed' = {} /\ UNCHANGED <<md, writing, edits>>
    BY <1>3 DEF Crash, Down, WatcherDies
  <2>2. <<>> \in Seq(Range(<<>>)) /\ Len(<<>>) = 0 /\ <<>> \in Seq(DOMAIN Documents)
    BY EmptySeq
  <2>3. LoaderTypes'
    BY <2>1, <2>2, DepthAssumption DEF LoaderTypes, Running
  <2>4. FileTypes'
    BY <2>1, <2>2 DEF TypeInv, FileTypes
  <2> QED  BY <1>1, <2>1, <2>3, <2>4 DEF TypeInv, ScriptTypes, ThreadTypes, JobType
<1> QED  BY <1>2, <1>3

LEMMA StepTypes ==
    ASSUME TypeInv, [Next]_vars
    PROVE  TypeInv'
<1>1. CASE UNCHANGED vars
  BY <1>1 DEF vars, loaderVars, watcherVars, history, TypeInv, ScriptTypes, LoaderTypes,
              FileTypes, ThreadTypes, JobType, IsApp, HistoryTypes, Running
<1> QED
  BY <1>1, StartTypes, LoadTypes, WatchTypes, WriteTypes, FaultTypes DEF Next

(* The variables have their types in every process and in the next one.     *)
THEOREM StartupTypes == Spec => []TypeOK
<1>1. Init => TypeInv
  BY InitTypes
<1>2. TypeInv /\ [Next]_vars => TypeInv'
  BY StepTypes
<1>3. TypeInv => TypeOK
  BY TypesHold
<1> QED  BY <1>1, <1>2, <1>3, PTL DEF Spec
-----------------------------------------------------------------------------
(* What the thread writes to scripts/ *)

(* What is generated has entries, hence it is not the empty script. *)
LEMMA GeneratedIsNotEmpty ==
    ASSUME NEW app, IsApp(app)
    PROVE  GenBusinessModule(app) # EmptyScript
<1>1. PICK f \in DOMAIN Documents : \E lines \in Begun(f) : app = ParseRequirements(lines)
  BY DEF IsApp
<1>2. PICK lines \in Begun(f) : app = ParseRequirements(lines)
  BY <1>1
<1>3. \E slug, given : app = [slug |-> slug, api |-> IF given = {} THEN {Hello(slug)} ELSE given]
  BY <1>2 DEF ParseRequirements
<1>4. app.api # {}
  BY <1>3
<1>5. GenBusinessModule(app).api = app.api /\ EmptyScript.api = {}
  BY DEF GenBusinessModule, EmptyScript
<1> QED  BY <1>4, <1>5

(* What a text of business.js has come to require is there: the generated   *)
(* modules but business.js itself, which is empty while it is rewritten.    *)
NewlyRequired(requires) ==
    (Generated \cap (Range(requires) \ Range(installed["business"].requires))) \ {"business"}

Covered(requires) == \A slug \in NewlyRequired(requires) : LoadScript(slug) # EmptyScript

(* The generation of a file does its steps in the order in which each finds *)
(* what it needs: the module is filled before business.js is read, and what *)
(* is read is written back with one require more.                           *)
RequiresInv ==
    "fill" \notin interrupted =>
        /\ \A slug \in NewlyRequired(LoadScript("business").requires) :
              LoadScript(slug) = EmptyScript => job.at = "fill" /\ job.app.slug = slug
        /\ job.at = "business" => LoadScript(job.app.slug) # EmptyScript
        /\ job.at \in {"rewrite", "append"} => Covered(job.body.requires)

(* As long as it can be read, business.js is the installed one and more, if *)
(* no module has been generated over it.                                    *)
Based(s) ==
    /\ s.api = installed["business"].api
    /\ IsPrefix(installed["business"].requires, s.requires)

BaseInv ==
    "append" \notin interrupted /\ "business" \notin replaced =>
        /\ job.at # "append" => Based(LoadScript("business"))
        /\ job.at \in {"rewrite", "append"} => Based(job.body)
        /\ job.at \in {"fill", "business"} => job.app.slug # "business"

FolderInv == TypeInv /\ RequiresInv /\ BaseInv

(* A script in the folder after a step *)
Loaded(x) == IF x \in DOMAIN scripts' THEN scripts'[x] ELSE EmptyScript

LEMMA WrittenIsLoaded ==
    ASSUME NEW name, NEW s, scripts' = Written(name, s)
    PROVE  \A x : Loaded(x) = IF x = name THEN s ELSE LoadScript(x)
BY DEF Written, Loaded, LoadScript

(* One require more *)
LEMMA OneRequireMore ==
    ASSUME NEW t, t \in Seq(Range(t)), NEW x
    PROVE  /\ Range(Append(t, x)) = Range(t) \cup {x}
           /\ \A s : s \in Seq(Range(s)) /\ IsPrefix(s, t) => IsPrefix(s, Append(t, x))
<1> DEFINE S == Range(t) \cup {x}
           u == Append(t, x)
<1>1. t \in Seq(S) /\ x \in S
  BY SeqMonotonic
<1>2. /\ u \in Seq(S) /\ Len(u) = Len(t) + 1 /\ Len(t) \in Nat
      /\ \A k \in 1..Len(t) : u[k] = t[k]
      /\ u[Len(t) + 1] = x /\ DOMAIN t = 1..Len(t)
  BY <1>1, AppendProperties, LenProperties
<1>3. DOMAIN u = 1..(Len(t) + 1) /\ u = t \o <<x>> /\ <<x>> \in Seq(S)
  BY <1>1, <1>2, LenProperties, AppendIsConcat
<1> HIDE DEF u
<1>4. Range(u) = Range(t) \cup {x}
  <2>1. DOMAIN u = DOMAIN t \cup {Len(t) + 1}
    BY <1>2, <1>3
  <2> QED  BY <1>2, <2>1 DEF Range
<1> HIDE DEF S
<1>5. ASSUME NEW s, s \in Seq(Range(s)), IsPrefix(s, t)
      PROVE  IsPrefix(s, u)
  <2>1. Len(s) \in Nat /\ Len(s) <= Len(t) /\ SubSeq(s, 1, Len(s)) = SubSeq(t, 1, Len(s))
    BY <1>5, LenProperties DEF IsPrefix
  <2>2. Len(s) <= Len(u)
    BY <1>2, <2>1
  <2>3. SubSeq(u, 1, Len(s)) = SubSeq(t, 1, Len(s))
    <3>1. CASE Len(s) = 0
      BY <3>1, SubSeqEmpty
    <3>2. CASE Len(s) # 0
      <4>1. Len(s) \in 1..Len(t) /\ 1 \in 1..Len(t)
        BY <1>2, <2>1, <3>2
      <4> QED  BY <1>1, <1>3, <4>1, SubSeqOfConcat1
    <3> QED  BY <3>1, <3>2
  <2> QED  BY <2>1, <2>2, <2>3 DEF IsPrefix
<1> QED  BY <1>4, <1>5 DEF u

LEMMA WatchRequires ==
    ASSUME TypeInv, RequiresInv, Watch
    PROVE  RequiresInv'
<1>1. interrupted' = interrupted /\ installed' = installed
  BY WatchSteps
<1> DEFINE Base == Range(installed["business"].requires) \cup {"business"}
           New(requires) == (Generated \cap Range(requires)) \ Base
<1> SUFFICES ASSUME "fill" \notin interrupted
             PROVE  /\ \A slug \in New(Loaded("business").requires) :
                          Loaded(slug) = EmptyScript => job'.at = "fill" /\ job'.app.slug = slug
                    /\ job'.at = "business" => Loaded(job'.app.slug) # EmptyScript
                    /\ job'.at \in {"rewrite", "append"} =>
                          \A slug \in New(job'.body.requires) : Loaded(slug) # EmptyScript
  BY <1>1 DEF RequiresInv, Covered, NewlyRequired, Loaded, LoadScript
<1>2. /\ \A slug \in New(LoadScript("business").requires) :
            LoadScript(slug) = EmptyScript => job.at = "fill" /\ job.app.slug = slug
      /\ job.at = "business" => LoadScript(job.app.slug) # EmptyScript
      /\ job.at \in {"rewrite", "append"} =>
            \A slug \in New(job.body.requires) : LoadScript(slug) # EmptyScript
  BY DEF RequiresInv, Covered, NewlyRequired
<1>3. "business" \in Base
  OBVIOUS
<1> HIDE DEF Base
<1>4. Idle.at = "idle" /\ Range(EmptyScript.requires) = {}
  BY DEF Idle, EmptyScript, Range
<1>5. scripts' = scripts => \A x : Loaded(x) = LoadScript(x)
  BY DEF Loaded, LoadScript
<1>6. CASE UNCHANGED <<scripts, events, job>>
  BY <1>2, <1>5, <1>6
<1>7. CASE job.at \in {"idle", "read"} /\ job'.at \in {"idle", "read", "module"} /\ UNCHANGED scripts
  BY <1>2, <1>5, <1>7
<1>8. CASE /\ job.at = "module" /\ IsApp(job.app)
           /\ scripts' = Written(job.app.slug, EmptyScript)
           /\ job' = [at |-> "fill", file |-> job.file, app |-> job.app]
  <2>1. \A x : Loaded(x) = IF x = job.app.slug THEN EmptyScript ELSE LoadScript(x)
    BY <1>8, WrittenIsLoaded
  <2>2. job'.at = "fill" /\ job'.app = job.app
    BY <1>8
  <2>3. CASE job.app.slug = "business"
    BY <1>4, <2>1, <2>2, <2>3
  <2>4. CASE job.app.slug # "business"
    BY <1>2, <1>8, <2>1, <2>2, <2>4
  <2> QED  BY <2>3, <2>4
<1>9. CASE /\ job.at = "fill" /\ IsApp(job.app)
           /\ scripts' = Written(job.app.slug, GenBusinessModule(job.app))
           /\ job' = [at |-> "business", file |-> job.file, app |-> job.app]
  <2>1. \A x : Loaded(x) = IF x = job.app.slug THEN GenBusinessModule(job.app) ELSE LoadScript(x)
    BY <1>9, WrittenIsLoaded
  <2>2. job'.at = "business" /\ job'.app = job.app
    BY <1>9
  <2>3. GenBusinessModule(job.app) # EmptyScript /\ Range(GenBusinessModule(job.app).requires) = {}
    BY <1>4, <1>9, GeneratedIsNotEmpty DEF GenBusinessModule, EmptyScript
  <2>4. CASE job.app.slug = "business"
    BY <2>1, <2>2, <2>3, <2>4
  <2>5. CASE job.app.slug # "business"
    BY <1>2, <1>9, <2>1, <2>2, <2>3, <2>5
  <2> QED  BY <2>4, <2>5
<1>10. CASE job.at = "business" /\ job' = Idle /\ UNCHANGED scripts
  BY <1>2, <1>4, <1>5, <1>10
<1>11. CASE /\ job.at = "business" /\ "business" \in DOMAIN scripts
            /\ job' = [at |-> "rewrite", file |-> job.file, body |-> Appended(job.app.slug)]
            /\ UNCHANGED scripts
  <2>1. IsScript(scripts["business"]) /\ LoadScript("business") = scripts["business"]
    BY <1>11 DEF TypeInv, ScriptTypes, LoadScript
  <2>2. /\ job'.at = "rewrite"
        /\ job'.body.requires = Append(scripts["business"].requires, job.app.slug)
    BY <1>11, <2>1, ScriptsWritten DEF Appended
  <2>3. Range(job'.body.requires) = Range(scripts["business"].requires) \cup {job.app.slug}
    BY <2>1, <2>2, OneRequireMore DEF IsScript
  <2> QED  BY <1>2, <1>5, <1>11, <2>1, <2>2, <2>3
<1>12. CASE /\ job.at = "rewrite"
            /\ scripts' = Written("business", EmptyScript)
            /\ job' = [at |-> "append", file |-> job.file, body |-> job.body]
  <2>1. \A x : Loaded(x) = IF x = "business" THEN EmptyScript ELSE LoadScript(x)
    BY <1>12, WrittenIsLoaded
  <2>2. job'.at = "append" /\ job'.body = job.body
    BY <1>12
  <2> QED  BY <1>2, <1>3, <1>4, <1>12, <2>1, <2>2
<1>13. CASE /\ job.at = "append"
            /\ scripts' = Written("business", job.body)
            /\ job' = Idle
  <2>1. \A x : Loaded(x) = IF x = "business" THEN job.body ELSE LoadScript(x)
    BY <1>13, WrittenIsLoaded
  <2> QED  BY <1>2, <1>3, <1>4, <1>13, <2>1
<1> QED  BY <1>4, <1>6, <1>7, <1>8, <1>9, <1>10, <1>11, <1>12, <1>13, WatchSteps

LEMMA WatchBase ==
    ASSUME TypeInv, BaseInv, Watch
    PROVE  BaseInv'
<1>1. /\ interrupted' = interrupted /\ installed' = installed /\ replaced \subseteq replaced'
      /\ job.at = "module" /\ job.app.slug \in DOMAIN installed => job.app.slug \in replaced'
      /\ installed \in CoreScripts
  BY WatchSteps, WatchReplaces DEF TypeInv, HistoryTypes
<1> SUFFICES ASSUME "append" \notin interrupted, "business" \notin replaced'
             PROVE  /\ job'.at # "append" => Based(Loaded("business"))
                    /\ job'.at \in {"rewrite", "append"} => Based(job'.body)
                    /\ job'.at \in {"fill", "business"} => job'.app.slug # "business"
  BY <1>1 DEF BaseInv, Based, Loaded, LoadScript
<1>2. /\ job.at # "append" => Based(LoadScript("business"))
      /\ job.at \in {"rewrite", "append"} => Based(job.body)
      /\ job.at \in {"fill", "business"} => job.app.slug # "business"
  BY <1>1 DEF BaseInv
<1>3. job.at = "module" => job.app.slug # "business"
  BY <1>1, FolderAssumption
<1>4. Idle.at = "idle"
  BY DEF Idle
<1>5. scripts' = scripts => Loaded("business") = LoadScript("business")
  BY DEF Loaded, LoadScript
<1>6. CASE UNCHANGED <<scripts, events, job>>
  BY <1>2, <1>5, <1>6
<1>7. CASE job.at \in {"idle", "read", "business"} /\ job'.at \in {"idle", "read", "module"} /\ UNCHANGED scripts
  BY <1>2, <1>5, <1>7
<1>8. ASSUME NEW s, job.at \in {"module", "fill"}, scripts' = Written(job.app.slug, s)
      PROVE  Based(Loaded("business")) /\ job.app.slug # "business"
  <2>1. Loaded("business") = LoadScript("business")
    BY <1>2, <1>3, <1>8, WrittenIsLoaded
  <2> QED  BY <1>2, <1>3, <1>8, <2>1
<1>9. CASE /\ job.at = "module" /\ IsApp(job.app)
           /\ scripts' = Written(job.app.slug, EmptyScript)
           /\ job' = [at |-> "fill", file |-> job.file, app |-> job.app]
  <2>1. job'.at = "fill" /\ job'.app = job.app
    BY <1>9
  <2> QED  BY <1>8, <1>9, <2>1
<1>10. CASE /\ job.at = "fill" /\ IsApp(job.app)
            /\ scripts' = Written(job.app.slug, GenBusinessModule(job.app))
            /\ job' = [at |-> "business", file |-> job.file, app |-> job.app]
  <2>1. job'.at = "business" /\ job'.app = job.app
    BY <1>10
  <2> QED  BY <1>8, <1>10, <2>1
<1>11. CASE /\ job.at = "business" /\ "business" \in DOMAIN scripts
            /\ job' = [at |-> "rewrite", file |-> job.file, body |-> Appended(job.app.slug)]
            /\ UNCHANGED scripts
  <2>1. IsScript(scripts["business"]) /\ LoadScript("business") = scripts["business"]
    BY <1>11 DEF TypeInv, ScriptTypes, LoadScript
  <2>2. /\ job'.at = "rewrite" /\ job'.body.api = scripts["business"].api
        /\ job'.body.requires = Append(scripts["business"].requires, job.app.slug)
    BY <1>11, <2>1, ScriptsWritten DEF Appended
  <2>3. /\ scripts["business"].api = installed["business"].api
        /\ IsPrefix(installed["business"].requires, scripts["business"].requires)
    BY <1>2, <1>11, <2>1 DEF Based
  <2>4. installed["business"].requires \in Seq(Range(installed["business"].requires))
    BY <1>1, FolderAssumption DEF IsScript
  <2>5. IsPrefix(installed["business"].requires, job'.body.requires)
    BY <2>1, <2>2, <2>3, <2>4, OneRequireMore DEF IsScript
  <2>6. Based(job'.body)
    BY <2>2, <2>3, <2>5 DEF Based
  <2> QED  BY <1>2, <1>5, <1>11, <2>6
<1>12. CASE /\ job.at = "rewrite"
            /\ job' = [at |-> "append", file |-> job.file, body |-> job.body]
  <2>1. job'.at = "append" /\ job'.body = job.body
    BY <1>12
  <2> QED  BY <1>2, <1>12, <2>1
<1>13. CASE /\ job.at = "append"
            /\ scripts' = Written("business", job.body)
            /\ job' = Idle
  <2>1. Loaded("business") = job.body
    BY <1>13, WrittenIsLoaded
  <2> QED  BY <1>2, <1>4, <1>13, <2>1
<1> QED  BY <1>4, <1>6, <1>7, <1>9, <1>10, <1>11, <1>12, <1>13, WatchSteps

(* Whoever else moves leaves scripts alone, and the job, or cuts it off. *)
LEMMA OthersKeepFolder ==
    ASSUME FolderInv, TypeInv', UNCHANGED <<scripts, installed, replaced>>,
           interrupted \subseteq interrupted',
           \/ job' = job
           \/ job' = Idle /\ (job.at \in {"fill", "append"} => job.at \in interrupted')
    PROVE  FolderInv'
<1>1. Idle.at = "idle"
  BY DEF Idle
<1>2. RequiresInv'
  BY <1>1 DEF FolderInv, RequiresInv, NewlyRequired, Covered, LoadScript
<1>3. BaseInv'
  BY <1>1 DEF FolderInv, BaseInv, Based, LoadScript
<1> QED  BY <1>2, <1>3 DEF FolderInv

LEMMA FolderIsKept == Spec => []FolderInv
<1>1. Init => FolderInv
  <2> SUFFICES ASSUME Init
               PROVE  FolderInv
    OBVIOUS
  <2>1. /\ scripts \in CoreScripts /\ installed = scripts /\ "business" \in DOMAIN scripts
        /\ job.at = "idle"
    BY FolderAssumption DEF Init, WatcherInit, Idle
  <2>2. LoadScript("business") = scripts["business"]
    BY <2>1 DEF LoadScript
  <2>3. RequiresInv
    <3>1. NewlyRequired(LoadScript("business").requires) = {}
      BY <2>1, <2>2 DEF NewlyRequired
    <3> QED  BY <2>1, <3>1 DEF RequiresInv
  <2>4. BaseInv
    <3>1. scripts["business"].requires \in Seq(Range(scripts["business"].requires))
      BY <2>1, FolderAssumption DEF IsScript
    <3>2. Len(scripts["business"].requires) \in Nat
      BY <3>1, LenProperties
    <3>3. IsPrefix(scripts["business"].requires, scripts["business"].requires)
      BY <3>2 DEF IsPrefix
    <3> QED  BY <2>1, <2>2, <3>3 DEF BaseInv, Based
  <2> QED  BY <2>3, <2>4, InitTypes DEF FolderInv
<1>2. FolderInv /\ [Next]_vars => FolderInv'
  <2> SUFFICES ASSUME FolderInv, [Next]_vars
               PROVE  FolderInv'
    OBVIOUS
  <2>1. TypeInv'
    BY StepTypes DEF FolderInv
  <2>2. CASE Start
    BY <2>1, <2>2, OthersKeepFolder DEF Start, Scaffold, history
  <2>3. CASE Load
    <3>1. scripts' = scripts
      BY <2>3, LoaderStepTypes DEF FolderInv, TypeInv, Load
    <3>2. /\ interrupted \subseteq interrupted'
          /\ \/ job' = job
             \/ job' = Idle /\ (job.at \in {"fill", "append"} => job.at \in interrupted')
      BY <2>3 DEF Load, Interrupt, WatcherDies, watcherVars
    <3> QED  BY <2>1, <2>3, <3>1, <3>2, OthersKeepFolder DEF Load, history
  <2>4. CASE Watch
    BY <2>1, <2>4, WatchRequires, WatchBase DEF FolderInv
  <2>5. CASE Write
    <3>1. UNCHANGED <<scripts, job, installed, replaced, interrupted>>
      BY <2>5 DEF Write, history, EditorNext, Open, MoveIn, WriteLine, Close, Delete
    <3> QED  BY <2>1, <3>1, OthersKeepFolder
  <2>6. CASE DiskFails
    <3>1. UNCHANGED <<scripts, installed, replaced>> /\ job.at \in {"module", "rewrite"} /\ job' = Idle
      BY <2>6 DEF DiskFails, OpenFails, history
    <3>2. interrupted \subseteq interrupted'
      BY <2>6 DEF DiskFails, Interrupt
    <3> QED  BY <2>1, <3>1, <3>2, OthersKeepFolder
  <2>7. CASE Crash
    BY <2>1, <2>7, OthersKeepFolder DEF Crash, Interrupt, WatcherDies, history
  <2>8. CASE UNCHANGED vars
    <3>1. UNCHANGED <<scripts, job, installed, replaced, interrupted>>
      BY <2>8 DEF vars, watcherVars, history
    <3> QED  BY <2>1, <3>1, OthersKeepFolder
  <2> QED  BY <2>2, <2>3, <2>4, <2>5, <2>6, <2>7, <2>8 DEF Next
<1> QED  BY <1>1, <1>2, PTL DEF Spec

(* Whatever slugs the files have: unless a generation has been cut off      *)
(* while it filled a module, no generated module that business.js has come  *)
(* to require is empty, except one that is being written anew.              *)
THEOREM RequiredModulesAreWritten == Spec => []RequiresAreWritten
<1>1. FolderInv => RequiresAreWritten
  <2> SUFFICES ASSUME FolderInv, "fill" \notin interrupted, NEW slug \in Generated,
                      slug \in Range(LoadScript("business").requires),
                      slug \notin Range(installed["business"].requires),
                      LoadScript(slug) = EmptyScript
               PROVE  job.at = "fill" /\ job.app.slug = slug
    BY DEF RequiresAreWritten
  <2>1. slug # "business"
    BY DEF EmptyScript, Range
  <2> QED  BY <2>1 DEF FolderInv, RequiresInv, NewlyRequired
<1> QED  BY <1>1, FolderIsKept, PTL

(* Whatever slugs the files have and wherever crashes come: business.js is  *)
(* what was installed and requires after it, but for the moment of its      *)
(* rewriting, unless a generation was cut off in that moment or a module    *)
(* named business was generated over it.                                    *)
THEOREM InstalledBaseIsKept == Spec => []BaseIsKept
<1>1. FolderInv => BaseIsKept
  BY DEF FolderInv, BaseInv, Based, BaseIsKept
<1> QED  BY <1>1, FolderIsKept, PTL
-----------------------------------------------------------------------------
(* The stack of main() or of a handler *)

IsFrame(f) ==
    f = [name |-> f.name, todo |-> f.todo, kind |-> f.kind] /\ f.todo \in Seq(Range(f.todo))

(* A frame with its next require done *)
Done(f) == [f EXCEPT !.todo = Tail(@)]

(* What main() has yet to load *)
MainTodo == {<<"auth", "sanitize", "business">>, <<"sanitize", "business">>, <<"business">>, <<>>}

(* Each frame has been asked for by the one below it. *)
StackInv ==
    Running =>
        /\ \A k \in 1..Len(stack) : IsFrame(stack[k])
        /\ \A k \in 1..(Len(stack) - 1) :
              stack[k].todo # <<>> /\ stack[k + 1].name = Head(stack[k].todo)
        /\ state = "booting" => stack[1].name = "main" /\ stack[1].todo \in MainTodo
        /\ state = "serving" => stack[1].todo \in {<<>>} \cup {<<name>> : name \in HandlerRequires}

LEMMA AdvancedAt ==
    ASSUME NEW frames, frames \in Seq(Range(frames)), Len(frames) > 0
    PROVE  /\ Len(Advanced(frames)) = Len(frames)
           /\ \A k \in 1..Len(frames) :
                 Advanced(frames)[k] = IF k = Len(frames) THEN Done(frames[k]) ELSE frames[k]
<1>1. Len(frames) \in Nat /\ DOMAIN frames = 1..Len(frames) /\ Len(frames) \in 1..Len(frames)
  BY LenProperties
<1>2. Len(Advanced(frames)) = Len(frames)
  BY AdvancedFrames
<1> QED  BY <1>1, <1>2 DEF Advanced, Done

LEMMA FrontAt ==
    ASSUME NEW frames, frames \in Seq(Range(frames)), Len(frames) > 1
    PROVE  /\ Front(frames) \in Seq(Range(Front(frames)))
           /\ Len(Front(frames)) = Len(frames) - 1
           /\ \A k \in 1..(Len(frames) - 1) : Front(frames)[k] = frames[k]
<1>1. Len(frames) \in Nat
  BY LenProperties
<1>2. 1 \in 1..Len(frames) + 1 /\ Len(frames) - 1 \in 0..Len(frames)
  BY <1>1
<1>3. \A k \in 1..(Len(frames) - 1) : SubSeq(frames, 1, Len(frames) - 1)[k] = frames[k]
  BY <1>1, <1>2, SubSeqProperties
<1> QED  BY <1>3, StackOps DEF Front

(* One require less to do *)
LEMMA DoneFrame ==
    ASSUME NEW f, IsFrame(f), f.todo # <<>>
    PROVE  /\ IsFrame(Done(f)) /\ Done(f).name = f.name /\ Done(f).kind = f.kind
           /\ Done(f).todo = Tail(f.todo)
           /\ Head(f.todo) \in Range(f.todo)
           /\ Range(f.todo) = {Head(f.todo)} \cup Range(Tail(f.todo))
<1> DEFINE t == f.todo
<1>1. t \in Seq(Range(t)) /\ t # <<>> /\ DOMAIN f = {"name", "todo", "kind"}
  BY DEF IsFrame
<1>2. /\ Head(t) \in Range(t) /\ Tail(t) \in Seq(Range(t)) /\ Len(Tail(t)) = Len(t) - 1
      /\ \A i \in 1..Len(Tail(t)) : Tail(t)[i] = t[i + 1]
  BY <1>1, HeadTailProperties
<1>3. Tail(t) \in Seq(Range(Tail(t)))
  BY <1>2, SeqOfRange
<1>4. Done(f) = [name |-> f.name, todo |-> Tail(t), kind |-> f.kind]
  <2>1. \A a, b, c, d : [[name |-> a, todo |-> b, kind |-> c] EXCEPT !.todo = d]
                            = [name |-> a, todo |-> d, kind |-> c]
    OBVIOUS
  <2>2. f = [name |-> f.name, todo |-> t, kind |-> f.kind]
    BY DEF IsFrame
  <2> HIDE DEF t
  <2>3. Done(f) = [f EXCEPT !.todo = Tail(t)]
    BY DEF Done, t
  <2> QED  BY <2>1, <2>2, <2>3
<1>5. Range(t) = {Head(t)} \cup Range(Tail(t))
  <2>1. Len(t) \in Nat /\ DOMAIN t = 1..Len(t) /\ DOMAIN Tail(t) = 1..(Len(t) - 1) /\ Len(t) # 0
    BY <1>1, <1>2, LenProperties, EmptySeq
  <2>2. Head(t) = t[1]
    OBVIOUS
  <2>3. \A i \in DOMAIN t : i = 1 \/ (i - 1 \in DOMAIN Tail(t) /\ Tail(t)[i - 1] = t[i])
    BY <1>2, <2>1
  <2>4. \A i \in DOMAIN Tail(t) : i + 1 \in DOMAIN t /\ Tail(t)[i] = t[i + 1]
    BY <1>2, <2>1
  <2>5. ASSUME NEW x \in Range(t) PROVE x \in {Head(t)} \cup Range(Tail(t))
    <3>1. PICK i \in DOMAIN t : t[i] = x
      BY <2>5 DEF Range
    <3> QED  BY <2>2, <2>3, <3>1 DEF Range
  <2>6. ASSUME NEW x \in Range(Tail(t)) PROVE x \in Range(t)
    <3>1. PICK i \in DOMAIN Tail(t) : Tail(t)[i] = x
      BY <2>6 DEF Range
    <3> QED  BY <2>4, <3>1 DEF Range
  <2> QED  BY <1>2, <2>5, <2>6
<1> QED  BY <1>2, <1>3, <1>4, <1>5 DEF IsFrame

(* What a step of the loader does to the stack: a require of the top frame  *)
(* is done at once, a script is started, it ends, main() serves, or a       *)
(* handler begins.                                                          *)
Settles ==
    /\ stack[Len(stack)].todo # <<>> /\ Len(stack') = Len(stack)
    /\ \A k \in 1..(Len(stack) - 1) : stack'[k] = stack[k]
    /\ stack'[Len(stack)] = Done(stack[Len(stack)])
    /\ UNCHANGED <<cache, api, finished>>
    /\ \/ RequireHit /\ state' = state
       \/ RequireFails /\ state' = IF Vital(Top, Wants) THEN "exited" ELSE state

Starts ==
    /\ Enter /\ stack[Len(stack)].todo # <<>> /\ Len(stack') = Len(stack) + 1
    /\ \A k \in 1..Len(stack) : stack'[k] = stack[k]
    /\ stack'[Len(stack) + 1] = Frame(Wants, LoadScript(Wants))
    /\ state' = state

Ends ==
    /\ stack[Len(stack)].todo = <<>> /\ Len(stack) > 1 /\ Len(stack') = Len(stack) - 1
    /\ \A k \in 1..(Len(stack) - 2) : stack'[k] = stack[k]
    /\ stack'[Len(stack) - 1] = Done(stack[Len(stack) - 1])
    /\ api' = api
    /\ \/ /\ Throw /\ UNCHANGED <<cache, finished>>
          /\ state' = IF Vital(stack[Len(stack) - 1], Top.name) THEN "exited" ELSE state
       \/ Leave /\ state' = state

Begins ==
    /\ stack[Len(stack)].todo = <<>> /\ Len(stack) = 1 /\ state' = "serving"
    /\ UNCHANGED <<cache, api, finished>>
    /\ \/ state = "booting" /\ stack' = stack
       \/ /\ state = "serving" /\ Len(stack') = 1
          /\ \E name \in HandlerRequires :
                stack'[1] = Frame("handler", [EmptyScript EXCEPT !.requires = <<name>>])

LEMMA StackSteps ==
    ASSUME TypeInv, LoaderNext
    PROVE  /\ Running /\ Len(stack) \in Nat \ {0} /\ scripts' = scripts
           /\ Top = stack[Len(stack)] /\ Wants = Head(stack[Len(stack)].todo)
           /\ Settles \/ Starts \/ Ends \/ Begins
<1>1. Running /\ scripts' = scripts
  BY LoaderStepTypes DEF TypeInv
<1>2. stack \in Seq(Range(stack)) /\ Len(stack) \in Nat \ {0} /\ Len(stack) > 0
  BY <1>1, EmptySeq DEF TypeInv, LoaderTypes
<1>3. Top = stack[Len(stack)] /\ Wants = Head(stack[Len(stack)].todo)
  BY DEF Top, Wants, Last
<1>4. ASSUME stack' = Advanced(stack)
      PROVE  /\ Len(stack') = Len(stack)
             /\ \A k \in 1..(Len(stack) - 1) : stack'[k] = stack[k]
             /\ stack'[Len(stack)] = Done(stack[Len(stack)])
  BY <1>2, <1>4, AdvancedAt
<1>5. ASSUME Len(stack) > 1, stack' = Advanced(Front(stack))
      PROVE  /\ Len(stack') = Len(stack) - 1
             /\ \A k \in 1..(Len(stack) - 2) : stack'[k] = stack[k]
             /\ stack'[Len(stack) - 1] = Done(stack[Len(stack) - 1])
  <2>1. /\ Front(stack) \in Seq(Range(Front(stack))) /\ Len(Front(stack)) = Len(stack) - 1
        /\ \A k \in 1..(Len(stack) - 1) : Front(stack)[k] = stack[k]
    BY <1>2, <1>5, FrontAt
  <2>2. /\ Len(stack') = Len(stack) - 1
        /\ \A k \in 1..(Len(stack) - 1) :
              stack'[k] = IF k = Len(stack) - 1 THEN Done(Front(stack)[k]) ELSE Front(stack)[k]
    BY <1>2, <1>5, <2>1, AdvancedAt
  <2>3. /\ Len(stack) - 1 \in 1..(Len(stack) - 1)
        /\ \A k \in 1..(Len(stack) - 2) : k \in 1..(Len(stack) - 1) /\ k # Len(stack) - 1
    BY <1>2, <1>5
  <2>4. \A k \in 1..(Len(stack) - 2) : stack'[k] = stack[k]
    BY <2>1, <2>2, <2>3
  <2> QED  BY <2>1, <2>2, <2>3, <2>4
<1>6. CASE RequireHit
  BY <1>1, <1>2, <1>3, <1>4, <1>6 DEF RequireHit, Settles
<1>7. CASE RequireFails
  BY <1>1, <1>2, <1>3, <1>4, <1>7 DEF RequireFails, Failed, Settles, Top
<1>8. CASE Enter
  <2>1. stack' = Append(stack, Frame(Wants, LoadScript(Wants))) /\ state' = state /\ Top.todo # <<>>
    BY <1>8 DEF Enter
  <2>2. /\ Len(stack') = Len(stack) + 1 /\ stack'[Len(stack) + 1] = Frame(Wants, LoadScript(Wants))
        /\ \A k \in 1..Len(stack) : stack'[k] = stack[k]
    <3>1. stack \in Seq(Range(stack) \cup {Frame(Wants, LoadScript(Wants))})
      BY <1>2, SeqMonotonic
    <3> QED  BY <1>2, <2>1, <3>1, AppendProperties
  <2> QED  BY <1>1, <1>2, <1>3, <1>8, <2>1, <2>2 DEF Starts
<1>9. CASE Throw
  <2>1. Len(stack) > 1 /\ Top.todo = <<>> /\ Failed(Front(stack), Top.name) /\ UNCHANGED <<cache, api, finished>>
    BY <1>9 DEF Throw
  <2>2. Last(Front(stack)) = stack[Len(stack) - 1]
    <3>1. /\ Len(Front(stack)) = Len(stack) - 1
          /\ \A k \in 1..(Len(stack) - 1) : Front(stack)[k] = stack[k]
      BY <1>2, <2>1, FrontAt
    <3> QED  BY <1>2, <2>1, <3>1 DEF Last
  <2> QED  BY <1>1, <1>2, <1>3, <1>5, <1>9, <2>1, <2>2 DEF Failed, Ends
<1>10. CASE Leave
  BY <1>1, <1>2, <1>3, <1>5, <1>10 DEF Leave, Ends
<1>11. CASE Serve
  BY <1>1, <1>2, <1>3, <1>11 DEF Serve, Begins
<1>12. ASSUME NEW name \in HandlerRequires, Handle(name)
       PROVE  Begins
  BY <1>3, <1>12 DEF Handle, Begins, Outermost
<1> QED  BY <1>1, <1>2, <1>3, <1>6, <1>7, <1>8, <1>9, <1>10, <1>11, <1>12 DEF LoaderNext, LoaderStep

(* main() does its requires in their order. *)
LEMMA MainTails ==
    /\ \A t \in MainTodo : t # <<>> => Tail(t) \in MainTodo
    /\ \A x : <<x>> # <<>> /\ Head(<<x>>) = x /\ Tail(<<x>>) = <<>>
    /\ \A t \in MainTodo : t # <<>> /\ Tail(t) = <<>> => t = <<"business">>
    /\ \A t \in MainTodo : t # <<>> /\ Tail(t) = <<"business">> => Head(t) # "business"
    /\ \A t \in MainTodo : t # <<>> /\ Head(t) = "business" => t = <<"business">>
<1>1. /\ Tail(<<"auth", "sanitize", "business">>) = <<"sanitize", "business">>
      /\ Tail(<<"sanitize", "business">>) = <<"business">> /\ Tail(<<"business">>) = <<>>
      /\ Head(<<"auth", "sanitize", "business">>) = "auth"
      /\ Head(<<"sanitize", "business">>) = "sanitize" /\ Head(<<"business">>) = "business"
  OBVIOUS
<1>2. <<"sanitize", "business">> # <<>> /\ <<"sanitize", "business">> # <<"business">> /\ <<"business">> # <<>>
  OBVIOUS
<1>3. \A x : <<x>> # <<>> /\ Head(<<x>>) = x /\ Tail(<<x>>) = <<>>
  OBVIOUS
<1>4. "auth" # "business" /\ "sanitize" # "business"
  OBVIOUS
<1> QED  BY <1>1, <1>2, <1>3, <1>4 DEF MainTodo

(* The stack down to a frame that has one require less to do *)
LEMMA OneDone ==
    ASSUME StackInv, Running, Len(stack) \in Nat, NEW m \in 1..Len(stack), Len(stack') = m,
           stack[m].todo # <<>>, \A k \in 1..(m - 1) : stack'[k] = stack[k],
           stack'[m] = Done(stack[m]), state' = state
    PROVE  StackInv'
<1>1. /\ \A k \in 1..Len(stack) : IsFrame(stack[k])
      /\ \A k \in 1..(Len(stack) - 1) : stack[k].todo # <<>> /\ stack[k + 1].name = Head(stack[k].todo)
  BY DEF StackInv
<1>2. /\ IsFrame(stack'[m]) /\ stack'[m].name = stack[m].name
      /\ stack'[m].todo = Tail(stack[m].todo)
  BY <1>1, DoneFrame
<1>3. \A k \in 1..Len(stack') : IsFrame(stack'[k])
  BY <1>1, <1>2
<1>4. ASSUME NEW k \in 1..(Len(stack') - 1)
      PROVE  stack'[k].todo # <<>> /\ stack'[k + 1].name = Head(stack'[k].todo)
  <2>1. /\ k \in 1..(m - 1) /\ k \in 1..(Len(stack) - 1) /\ (k + 1 = m \/ k + 1 \in 1..(m - 1))
    OBVIOUS
  <2>2. stack'[k] = stack[k] /\ stack'[k + 1].name = stack[k + 1].name
    BY <1>2, <2>1
  <2> QED  BY <1>1, <2>1, <2>2
<1>5. ASSUME state = "booting"
      PROVE  stack'[1].name = "main" /\ stack'[1].todo \in MainTodo
  <2>1. stack[1].name = "main" /\ stack[1].todo \in MainTodo
    BY <1>5 DEF StackInv
  <2>2. CASE m = 1
    BY <1>2, <2>1, <2>2, MainTails
  <2>3. CASE m # 1
    BY <2>1, <2>3
  <2> QED  BY <2>2, <2>3
<1>6. ASSUME state = "serving"
      PROVE  stack'[1].todo \in {<<>>} \cup {<<name>> : name \in HandlerRequires}
  <2>1. stack[1].todo \in {<<>>} \cup {<<name>> : name \in HandlerRequires}
    BY <1>6 DEF StackInv
  <2>2. CASE m = 1
    <3>1. stack[1].todo # <<>> /\ stack'[1].todo = Tail(stack[1].todo)
      BY <1>2, <2>2
    <3>2. PICK name \in HandlerRequires : stack[1].todo = <<name>>
      BY <2>1, <3>1
    <3> QED  BY <3>1, <3>2, MainTails
  <2>3. CASE m # 1
    BY <2>1, <2>3
  <2> QED  BY <2>2, <2>3
<1> QED  BY <1>3, <1>4, <1>5, <1>6 DEF StackInv

(* A script that only requires *)
LEMMA Requiring ==
    \A t : [EmptyScript EXCEPT !.requires = t] = [kind |-> "ok", requires |-> t, api |-> {}]
<1>1. \A a, b, c, d : [[kind |-> a, requires |-> b, api |-> c] EXCEPT !.requires = d]
                         = [kind |-> a, requires |-> d, api |-> c]
  OBVIOUS
<1>2. \E b, c : EmptyScript = [kind |-> "ok", requires |-> b, api |-> c] /\ c = {}
  BY DEF EmptyScript
<1> QED  BY <1>1, <1>2

LEMMA FrameIsFrame ==
    /\ \A name, script : IsScript(script) =>
          /\ IsFrame(Frame(name, script)) /\ Frame(name, script).name = name
          /\ Frame(name, script).todo = script.requires
    /\ \A x : IsScript([EmptyScript EXCEPT !.requires = <<x>>])
              /\ [EmptyScript EXCEPT !.requires = <<x>>].requires = <<x>>
<1>1. ASSUME NEW name, NEW script, IsScript(script)
      PROVE  /\ IsFrame(Frame(name, script)) /\ Frame(name, script).name = name
             /\ Frame(name, script).todo = script.requires
  BY <1>1 DEF IsScript, Frame, IsFrame
<1>2. ASSUME NEW x
      PROVE  /\ IsScript([EmptyScript EXCEPT !.requires = <<x>>])
             /\ [EmptyScript EXCEPT !.requires = <<x>>].requires = <<x>>
  <2>1. [EmptyScript EXCEPT !.requires = <<x>>] = [kind |-> "ok", requires |-> <<x>>, api |-> {}]
    BY Requiring
  <2>2. <<x>> \in Seq({x})
    OBVIOUS
  <2>3. <<x>> \in Seq(Range(<<x>>))
    BY <2>2, SeqOfRange
  <2> QED  BY <2>1, <2>3 DEF IsScript
<1> QED  BY <1>1, <1>2

LEMMA LoadedIsScript ==
    ASSUME TypeInv
    PROVE  \A m : IsScript(LoadScript(m))
BY ScriptsWritten DEF TypeInv, ScriptTypes, LoadScript

LEMMA LoadStack ==
    ASSUME TypeInv, StackInv, LoaderNext
    PROVE  StackInv'
<1> DEFINE n == Len(stack)
<1>1. /\ Running /\ n \in Nat \ {0} /\ Top = stack[n] /\ Wants = Head(stack[n].todo)
      /\ Settles \/ Starts \/ Ends \/ Begins
  BY StackSteps
<1>2. /\ \A k \in 1..n : IsFrame(stack[k])
      /\ \A k \in 1..(n - 1) : stack[k].todo # <<>> /\ stack[k + 1].name = Head(stack[k].todo)
  BY <1>1 DEF StackInv
<1>3. CASE Settles
  <2>1. /\ stack[n].todo # <<>> /\ Len(stack') = n /\ state' \in {state, "exited"}
        /\ \A k \in 1..(n - 1) : stack'[k] = stack[k]
        /\ stack'[n] = Done(stack[n])
    BY <1>3 DEF Settles
  <2>2. CASE state' = state
    BY <1>1, <2>1, <2>2, OneDone
  <2>3. CASE state' = "exited"
    BY <2>3 DEF StackInv, Running
  <2> QED  BY <2>1, <2>2, <2>3
<1>4. CASE Starts
  <2>1. /\ stack[n].todo # <<>> /\ Len(stack') = n + 1 /\ state' = state
        /\ \A k \in 1..n : stack'[k] = stack[k]
        /\ stack'[n + 1] = Frame(Wants, LoadScript(Wants))
    BY <1>4 DEF Starts
  <2>2. IsFrame(stack'[n + 1]) /\ stack'[n + 1].name = Wants
    BY <2>1, FrameIsFrame, LoadedIsScript
  <2>3. \A k \in 1..Len(stack') : IsFrame(stack'[k])
    BY <1>1, <1>2, <2>1, <2>2
  <2>4. \A k \in 1..(Len(stack') - 1) :
           stack'[k].todo # <<>> /\ stack'[k + 1].name = Head(stack'[k].todo)
    <3>1. \A k \in 1..(Len(stack') - 1) : k \in 1..n /\ (k = n \/ (k \in 1..(n - 1) /\ k + 1 \in 1..n))
      BY <1>1, <2>1
    <3> QED  BY <1>1, <1>2, <2>1, <2>2, <3>1
  <2>5. stack'[1] = stack[1]
    BY <1>1, <2>1
  <2> QED  BY <1>1, <2>1, <2>3, <2>4, <2>5 DEF StackInv
<1>5. CASE Ends
  <2>1. /\ n > 1 /\ Len(stack') = n - 1 /\ state' \in {state, "exited"}
        /\ \A k \in 1..(n - 2) : stack'[k] = stack[k]
        /\ stack'[n - 1] = Done(stack[n - 1])
    BY <1>5 DEF Ends
  <2>2. n - 1 \in 1..n /\ n - 1 \in 1..(n - 1) /\ (n - 1) - 1 = n - 2
    BY <1>1, <2>1
  <2>3. CASE state' = state
    BY <1>1, <1>2, <2>1, <2>2, <2>3, OneDone
  <2>4. CASE state' = "exited"
    BY <2>4 DEF StackInv, Running
  <2> QED  BY <2>1, <2>3, <2>4
<1>6. CASE Begins
  <2>1. n = 1 /\ state' = "serving" /\ stack[1].todo = <<>>
    BY <1>6 DEF Begins
  <2>2. CASE stack' = stack
    BY <1>1, <1>2, <2>1, <2>2 DEF StackInv
  <2>3. CASE stack' # stack
    <3>1. PICK name \in HandlerRequires :
             stack'[1] = Frame("handler", [EmptyScript EXCEPT !.requires = <<name>>])
      BY <1>6, <2>3 DEF Begins
    <3>2. Len(stack') = 1
      BY <1>6, <2>3 DEF Begins
    <3> DEFINE s == [EmptyScript EXCEPT !.requires = <<name>>]
    <3>3. IsScript(s) /\ s.requires = <<name>> /\ stack'[1] = Frame("handler", s)
      BY <3>1, FrameIsFrame
    <3> HIDE DEF s
    <3>4. IsFrame(stack'[1]) /\ stack'[1].todo = <<name>>
      BY <3>3, FrameIsFrame
    <3> QED  BY <2>1, <3>2, <3>4 DEF StackInv
  <2> QED  BY <2>2, <2>3
<1> QED  BY <1>1, <1>3, <1>4, <1>5, <1>6

(* main() starts with all its requires to do. *)
LEMMA StartStack ==
    ASSUME Start
    PROVE  /\ StackInv' /\ state' = "booting" /\ Len(stack') = 1
           /\ stack'[1].todo = <<"auth", "sanitize", "business">>
           /\ scripts' = scripts /\ cache' = {} /\ api' = {} /\ finished' = [m \in {} |-> 0]
<1> DEFINE t == <<"auth", "sanitize", "business">>
           f == Frame("main", [EmptyScript EXCEPT !.requires = t])
<1>1. /\ state' = "booting" /\ stack' = <<f>> /\ scripts' = scripts
      /\ cache' = {} /\ api' = {} /\ finished' = [m \in {} |-> 0]
  BY DEF Start, Booting, Outermost
<1>2. t \in Seq({"auth", "sanitize", "business"})
  OBVIOUS
<1>3. t \in Seq(Range(t))
  BY <1>2, SeqOfRange
<1>4. IsScript([kind |-> "ok", requires |-> t, api |-> {}])
  <2> HIDE DEF t
  <2> QED  BY <1>3 DEF IsScript
<1>5. \A s : s = [kind |-> "ok", requires |-> t, api |-> {}] => s.requires = t
  <2> HIDE DEF t
  <2> QED  OBVIOUS
<1>6. IsFrame(f) /\ f.name = "main" /\ f.todo = t
  <2> HIDE DEF t
  <2> QED  BY <1>4, <1>5, Requiring, FrameIsFrame DEF f
<1> HIDE DEF f
<1>7. Len(stack') = 1 /\ stack'[1] = f
  BY <1>1
<1>8. t \in MainTodo
  BY DEF MainTodo
<1>9. StackInv'
  <2> HIDE DEF t
  <2> QED  BY <1>1, <1>6, <1>7, <1>8 DEF StackInv
<1> QED  BY <1>1, <1>6, <1>7, <1>9

LEMMA OthersKeepStack ==
    ASSUME StackInv, UNCHANGED <<state, stack>> \/ state' = "down"
    PROVE  StackInv'
BY DEF StackInv, Running
-----------------------------------------------------------------------------
(* What a boot leaves in api *)

(* The entries of a module are there, or it does not compile. *)
Served(m) == LoadScript(m).kind = "broken" \/ LoadScript(m).api \subseteq api

(* As long as no script is written: what has been started has its entries   *)
(* in api, what is in the cache has, and of what business.js requires there *)
(* has all that it has no longer to do.                                     *)
BootInv ==
    Running /\ ~disturbed =>
        /\ \A m \in cache : LoadScript(m).api \subseteq api
        /\ \A k \in 2..Len(stack) : LoadScript(stack[k].name).api \subseteq api
        /\ state = "booting" /\ stack[1].todo = <<"business">> /\ Len(stack) > 1 =>
              \A m \in Range(LoadScript("business").requires) :
                  m \in Range(stack[2].todo) \/ Served(m)
        /\ state = "serving" \/ stack[1].todo = <<>> =>
              \A m \in {"business"} \cup Range(LoadScript("business").requires) : Served(m)

LEMMA LoadBoot ==
    ASSUME TypeInv, StackInv, BootInv, Load
    PROVE  BootInv'
<1> SUFFICES ASSUME Running', ~disturbed'
             PROVE  BootInv'
  BY DEF BootInv
<1> DEFINE n == Len(stack)
           B == Range(LoadScript("business").requires)
<1>1. ~disturbed /\ LoaderNext
  BY DEF Load
<1>2. /\ Running /\ n \in Nat \ {0} /\ scripts' = scripts
      /\ Top = stack[n] /\ Wants = Head(stack[n].todo)
      /\ Settles \/ Starts \/ Ends \/ Begins
  BY <1>1, StackSteps
<1>3. \A m : LoadScript(m)' = LoadScript(m)
  BY <1>2 DEF LoadScript
<1>4. /\ \A m \in cache : LoadScript(m).api \subseteq api
      /\ \A k \in 2..n : LoadScript(stack[k].name).api \subseteq api
      /\ state = "booting" /\ stack[1].todo = <<"business">> /\ n > 1 =>
            \A m \in B : m \in Range(stack[2].todo) \/ Served(m)
      /\ state = "serving" \/ stack[1].todo = <<>> => \A m \in {"business"} \cup B : Served(m)
  BY <1>1, <1>2 DEF BootInv
<1>5. /\ \A k \in 1..n : IsFrame(stack[k])
      /\ \A k \in 1..(n - 1) : stack[k].todo # <<>> /\ stack[k + 1].name = Head(stack[k].todo)
      /\ state = "booting" => stack[1].name = "main" /\ stack[1].todo \in MainTodo
  BY <1>2 DEF StackInv
<1>6. state \in {"booting", "serving"} /\ state' \in {"booting", "serving"}
  BY <1>2 DEF Running
<1>7. \A k \in 1..n : stack[k].todo # <<>> =>
         /\ Done(stack[k]).name = stack[k].name /\ Done(stack[k]).todo = Tail(stack[k].todo)
         /\ Range(stack[k].todo) = {Head(stack[k].todo)} \cup Range(Tail(stack[k].todo))
  BY <1>5, DoneFrame
(* It is enough to look at api, cache, the frames above the first and the first *)
<1>8. ASSUME api \subseteq api',
             \A m \in cache' : LoadScript(m).api \subseteq api',
             \A k \in 2..Len(stack') : LoadScript(stack'[k].name).api \subseteq api',
             state' = "booting" /\ stack'[1].todo = <<"business">> /\ Len(stack') > 1 =>
                 \A m \in B : m \in Range(stack'[2].todo) \/ Served(m)',
             state' = "serving" \/ stack'[1].todo = <<>> =>
                 \A m \in {"business"} \cup B : Served(m)'
      PROVE  BootInv'
  BY <1>3, <1>8 DEF BootInv
<1>9. ASSUME api \subseteq api' PROVE \A m : Served(m) => Served(m)'
  BY <1>3, <1>9 DEF Served
<1>10. CASE Settles
  <2>1. /\ stack[n].todo # <<>> /\ Len(stack') = n
        /\ \A k \in 1..(n - 1) : stack'[k] = stack[k]
        /\ stack'[n] = Done(stack[n])
        /\ UNCHANGED <<cache, api, finished>> /\ state' = state
        /\ RequireHit \/ RequireFails
        /\ RequireFails => ~Vital(Top, Wants)
    <3>1. RequireHit /\ RequireFails => FALSE
      BY DEF RequireHit, RequireFails
    <3> QED  BY <1>6, <1>10, <3>1 DEF Settles
  <2>2. \A k \in 1..n : stack'[k].name = stack[k].name
    BY <1>2, <1>7, <2>1
  <2>3. ASSUME n = 2, state = "booting", stack[1].todo = <<"business">>
        PROVE  \A m \in B : m \in Range(stack'[2].todo) \/ Served(m)
    <3>1. Served(Wants)
      <4>1. CASE RequireHit
        BY <1>4, <4>1 DEF RequireHit, Served
      <4>2. CASE RequireFails
        BY <2>3, <4>2, DepthAssumption DEF RequireFails, Served
      <4> QED  BY <2>1, <4>1, <4>2
    <3>2. Range(stack[2].todo) = {Wants} \cup Range(stack'[2].todo)
      BY <1>2, <1>7, <2>1, <2>3
    <3> QED  BY <1>4, <2>3, <3>1, <3>2
  <2>4. ASSUME n > 1, state = "booting", stack[1].todo = <<"business">>
        PROVE  \A m \in B : m \in Range(stack'[2].todo) \/ Served(m)
    <3>1. CASE n = 2
      BY <2>3, <2>4, <3>1
    <3>2. CASE n # 2
      <4>1. n \in Nat /\ n > 1 /\ n # 2
        BY <1>2, <2>4, <3>2
      <4>2. 2 \in 1..(n - 1)
        <5> HIDE DEF n
        <5> QED  BY <4>1
      <4> QED  BY <1>4, <2>1, <2>4, <4>2
    <3> QED  BY <3>1, <3>2
  <2>5. ASSUME n = 1, state = "booting" PROVE stack'[1].todo # <<>>
    <3>1. stack[1].name = "main" /\ stack[1].todo \in MainTodo /\ stack'[1].todo = Tail(stack[1].todo)
      BY <1>5, <1>7, <2>1, <2>5
    <3>2. SUFFICES ASSUME stack[1].todo = <<"business">> PROVE FALSE
      BY <2>1, <2>5, <3>1, MainTails
    <3>3. Wants = "business" /\ Top.name = "main"
      BY <1>2, <2>5, <3>1, <3>2, MainTails
    <3>4. AsScript /\ Vital(Top, Wants)
      BY <2>5, <3>3 DEF AsScript, Vital
    <3> QED  BY <2>1, <3>4 DEF RequireHit
  <2>6. n # 1 => stack'[1] = stack[1]
    BY <1>2, <2>1
  <2>7. \A m : Served(m) => Served(m)'
    BY <1>9, <2>1
  <2>8. state' = "booting" /\ stack'[1].todo = <<"business">> /\ Len(stack') > 1 =>
            \A m \in B : m \in Range(stack'[2].todo) \/ Served(m)'
    BY <2>1, <2>4, <2>6, <2>7
  <2>9. state' = "serving" \/ stack'[1].todo = <<>> => \A m \in {"business"} \cup B : Served(m)'
    BY <1>4, <1>6, <2>1, <2>5, <2>6, <2>7
  <2>10. \A k \in 2..Len(stack') : LoadScript(stack'[k].name).api \subseteq api'
    BY <1>4, <2>1, <2>2
  <2>11. \A m \in cache' : LoadScript(m).api \subseteq api'
    BY <1>4, <2>1
  <2> QED  BY <1>8, <2>1, <2>8, <2>9, <2>10, <2>11
<1>11. CASE Starts
  <2>1. /\ stack[n].todo # <<>> /\ Len(stack') = n + 1 /\ state' = state
        /\ \A k \in 1..n : stack'[k] = stack[k]
        /\ stack'[n + 1] = Frame(Wants, LoadScript(Wants))
        /\ api' = api \cup LoadScript(Wants).api /\ cache' = cache
    BY <1>11 DEF Starts, Enter
  <2>2. stack'[n + 1].name = Wants /\ stack'[n + 1].todo = LoadScript(Wants).requires
    BY <2>1, FrameIsFrame, LoadedIsScript
  <2>3. \A k \in 2..Len(stack') : LoadScript(stack'[k].name).api \subseteq api'
    <3>1. \A k \in 2..Len(stack') : k \in 2..n \/ k = n + 1
      BY <1>2, <2>1
    <3>2. \A k \in 2..n : stack'[k] = stack[k]
      BY <1>2, <2>1
    <3> QED  BY <1>4, <2>1, <2>2, <3>1, <3>2
  <2>4. stack'[1] = stack[1]
    BY <1>2, <2>1
  <2>5. \A m : Served(m) => Served(m)'
    BY <1>9, <2>1
  <2>6. ASSUME state' = "booting", stack'[1].todo = <<"business">>
        PROVE  \A m \in B : m \in Range(stack'[2].todo) \/ Served(m)'
    <3>1. CASE n = 1
      BY <1>2, <2>1, <2>2, <2>4, <2>6, <3>1, MainTails
    <3>2. CASE n # 1
      <4>1. n > 1 /\ stack'[2] = stack[2]
        <5>1. n \in Nat \ {0}
          BY <1>2
        <5> HIDE DEF n
        <5>2. n > 1 /\ 2 \in 1..n
          BY <3>2, <5>1
        <5> QED  BY <2>1, <5>2
      <4> QED  BY <1>4, <2>1, <2>4, <2>5, <2>6, <4>1
    <3> QED  BY <3>1, <3>2
  <2>7. state' = "serving" \/ stack'[1].todo = <<>> => \A m \in {"business"} \cup B : Served(m)'
    BY <1>4, <2>1, <2>4, <2>5
  <2>8. \A m \in cache' : LoadScript(m).api \subseteq api'
    BY <1>4, <2>1
  <2> QED  BY <1>8, <2>1, <2>3, <2>6, <2>7, <2>8
<1>12. CASE Ends
  <2>1. /\ stack[n].todo = <<>> /\ n > 1 /\ Len(stack') = n - 1
        /\ \A k \in 1..(n - 2) : stack'[k] = stack[k]
        /\ stack'[n - 1] = Done(stack[n - 1]) /\ api' = api /\ state' = state
        /\ \/ Throw /\ cache' = cache /\ ~Vital(stack[n - 1], Top.name)
           \/ Leave /\ cache' = cache \cup Kept(Top.name, stack[n - 1])
    BY <1>6, <1>12 DEF Ends, Leave
  <2>2. /\ n \in 2..n /\ n - 1 \in 1..n /\ stack[n - 1].todo # <<>>
        /\ Top.name = Head(stack[n - 1].todo)
    <3>1. n - 1 \in 1..(n - 1) /\ (n - 1) + 1 = n
      BY <1>2, <2>1
    <3> QED  BY <1>2, <1>5, <2>1, <3>1
  <2>3. LoadScript(Top.name).api \subseteq api
    BY <1>2, <1>4, <2>2
  <2>4. \A m \in cache' : LoadScript(m).api \subseteq api'
    BY <1>4, <2>1, <2>3 DEF Kept
  <2>5. \A k \in 1..(n - 1) : stack'[k].name = stack[k].name
    BY <1>2, <1>7, <2>1, <2>2
  <2>6. \A k \in 2..Len(stack') : LoadScript(stack'[k].name).api \subseteq api'
    BY <1>4, <2>1, <2>5
  <2>7. \A m : Served(m) => Served(m)'
    BY <1>9, <2>1
  <2>8. ASSUME n > 2 PROVE stack'[1] = stack[1]
    BY <1>2, <2>1, <2>8
  <2>9. ASSUME state = "booting", n > 2, stack[1].todo = <<"business">>
        PROVE  \A m \in B : m \in Range(stack'[2].todo) \/ Served(m)
    <3>1. CASE n = 3
      <4>1. stack'[2] = Done(stack[2]) /\ stack[2].todo # <<>> /\ Top.name = Head(stack[2].todo)
        BY <2>1, <2>2, <3>1
      <4>2. Range(stack[2].todo) = {Top.name} \cup Range(stack'[2].todo)
        BY <1>2, <1>7, <2>9, <4>1
      <4>3. Served(Top.name)
        BY <2>3 DEF Served
      <4> QED  BY <1>4, <2>9, <4>2, <4>3
    <3>2. CASE n # 3
      <4>1. stack'[2] = stack[2]
        BY <1>2, <2>1, <2>9, <3>2
      <4> QED  BY <1>4, <2>9, <4>1
    <3> QED  BY <3>1, <3>2
  <2>10. ASSUME state = "booting", n = 2, stack'[1].todo = <<>>
         PROVE  \A m \in {"business"} \cup B : Served(m)
    <3> HIDE DEF n
    <3>0. /\ stack'[1] = Done(stack[1]) /\ stack[1].todo # <<>> /\ Top.name = Head(stack[1].todo)
          /\ Top = stack[2] /\ n > 1 /\ 1 \in 1..n
      <4>1. n - 1 = 1 /\ n > 1 /\ 1 \in 1..n
        BY <2>10
      <4> QED  BY <1>2, <2>1, <2>2, <2>10, <4>1
    <3>1. stack[1].name = "main" /\ stack[1].todo \in MainTodo /\ stack'[1].todo = Tail(stack[1].todo)
      BY <1>5, <1>7, <2>2, <2>10, <3>0
    <3>2. stack[1].todo = <<"business">>
      BY <2>10, <3>0, <3>1, MainTails
    <3>3. Top.name = "business" /\ Top = stack[2] /\ n > 1
      BY <3>0, <3>2, MainTails
    <3>4. Range(stack[2].todo) = {}
      BY <1>2, <2>1, <3>3 DEF Range
    <3> QED  BY <1>4, <2>3, <2>10, <3>2, <3>3, <3>4 DEF Served
  <2>11. state' = "booting" /\ stack'[1].todo = <<"business">> /\ Len(stack') > 1 =>
             \A m \in B : m \in Range(stack'[2].todo) \/ Served(m)'
    BY <1>2, <2>1, <2>7, <2>8, <2>9
  <2>12. state' = "serving" \/ stack'[1].todo = <<>> => \A m \in {"business"} \cup B : Served(m)'
    <3>1. CASE n = 2
      BY <1>4, <1>6, <2>1, <2>7, <2>10, <3>1
    <3>2. CASE n # 2
      BY <1>2, <1>4, <1>6, <2>1, <2>7, <2>8, <3>2
    <3> QED  BY <3>1, <3>2
  <2> QED  BY <1>8, <2>1, <2>4, <2>6, <2>11, <2>12
<1>13. CASE Begins
  <2>1. /\ n = 1 /\ state' = "serving" /\ stack[1].todo = <<>> /\ Len(stack') = 1
        /\ UNCHANGED <<cache, api>>
    BY <1>2, <1>13 DEF Begins
  <2>2. \A m \in {"business"} \cup B : Served(m)'
    BY <1>4, <1>9, <2>1
  <2>3. 2..Len(stack') = {}
    BY <2>1
  <2> QED  BY <1>4, <1>8, <2>1, <2>2, <2>3
<1> QED  BY <1>2, <1>10, <1>11, <1>12, <1>13

LEMMA InitBoot == Init => StackInv /\ BootInv
BY DEF Init, LoaderInit, StackInv, BootInv, Running

LEMMA StepBoot ==
    ASSUME TypeInv, StackInv, BootInv, [Next]_vars
    PROVE  StackInv' /\ BootInv'
<1>1. CASE Start
  <2>1. /\ StackInv' /\ state' = "booting" /\ Len(stack') = 1 /\ cache' = {}
        /\ stack'[1].todo = <<"auth", "sanitize", "business">>
    BY <1>1, StartStack
  <2>2. stack'[1].todo # <<"business">> /\ stack'[1].todo # <<>>
    <3>1. /\ <<"auth", "sanitize", "business">> # <<"business">>
          /\ <<"auth", "sanitize", "business">> # <<>>
      OBVIOUS
    <3> QED  BY <2>1, <3>1
  <2>3. 2..Len(stack') = {}
    BY <2>1
  <2> QED  BY <2>1, <2>2, <2>3 DEF BootInv
<1>2. CASE Load
  BY <1>2, LoadBoot, LoadStack DEF Load
<1>3. ASSUME UNCHANGED <<state, stack, cache, api>>, disturbed => disturbed',
             disturbed' \/ scripts' = scripts
      PROVE  StackInv' /\ BootInv'
  <2>1. StackInv'
    BY <1>3, OthersKeepStack
  <2>2. CASE disturbed'
    BY <2>1, <2>2 DEF BootInv
  <2>3. CASE ~disturbed'
    <3>1. \A m : LoadScript(m)' = LoadScript(m)
      BY <1>3, <2>3 DEF LoadScript
    <3>2. \A m : Served(m)' <=> Served(m)
      BY <1>3, <3>1 DEF Served
    <3> QED  BY <1>3, <2>1, <2>3, <3>1, <3>2 DEF BootInv, Running
  <2> QED  BY <2>1, <2>2, <2>3
<1>4. CASE Watch
  <2>1. UNCHANGED <<state, stack, cache, api>>
    BY <1>4 DEF Watch, loaderVars
  <2>2. disturbed' = (disturbed \/ job.at \in {"module", "fill", "rewrite", "append"})
    BY <1>4 DEF Watch
  <2>3. scripts' = scripts \/ job.at \in {"module", "fill", "rewrite", "append"}
    BY <1>4, WatchSteps
  <2> QED  BY <1>3, <2>1, <2>2, <2>3
<1>5. CASE Write
  <2>1. UNCHANGED <<state, stack, cache, api, disturbed>> /\ scripts' = scripts
    BY <1>5 DEF Write, EditorNext, Open, MoveIn, WriteLine, Close, Delete, loaderVars
  <2> QED  BY <1>3, <2>1
<1>6. CASE DiskFails
  <2>1. UNCHANGED <<state, stack, cache, api, disturbed>> /\ scripts' = scripts
    BY <1>6 DEF DiskFails, OpenFails, loaderVars
  <2> QED  BY <1>3, <2>1
<1>7. CASE Crash
  BY <1>7, OthersKeepStack DEF Crash, Down, BootInv, Running
<1>8. CASE UNCHANGED vars
  <2>1. UNCHANGED <<state, stack, cache, api, disturbed>> /\ scripts' = scripts
    BY <1>8 DEF vars, loaderVars
  <2> QED  BY <1>3, <2>1
<1> QED  BY <1>1, <1>2, <1>4, <1>5, <1>6, <1>7, <1>8 DEF Next

(* A failed require gives undefined and the script that asked goes on,      *)
(* although an exception should surface there (main.cpp:150).  What this    *)
(* leaves: a server in whose time no script was written has the endpoints   *)
(* of business.js and of every module it requires that compiles, whatever   *)
(* fails before, in between or below.                                       *)
THEOREM BootLoadsDespiteFailures == Spec => []LoadsDespiteFailures
<1>1. BootInv => LoadsDespiteFailures
  BY DEF BootInv, LoadsDespiteFailures, Running, Served
<1>2. Init => TypeInv /\ StackInv /\ BootInv
  BY InitTypes, InitBoot
<1>3. TypeInv /\ StackInv /\ BootInv /\ [Next]_vars => (TypeInv /\ StackInv /\ BootInv)'
  BY StepTypes, StepBoot
<1> QED  BY <1>1, <1>2, <1>3, PTL DEF Spec
-----------------------------------------------------------------------------
(* How often a module runs *)

(* business.js is for main() alone, which runs it as a script: a module     *)
(* that requires it runs it once more.                                      *)
LoadedByMain ==
    /\ "business" \notin HandlerRequires
    /\ \A folder \in CoreScripts : \A name \in DOMAIN folder :
          "business" \notin Range(folder[name].requires)

(* The installed scripts but business.js are as they were, and what is      *)
(* generated requires nothing.                                              *)
Installed(folder) ==
    \A m : m # "business" =>
        IF m \in DOMAIN folder THEN m \in DOMAIN scripts /\ scripts[m] = folder[m]
        ELSE LoadScript(m).requires = <<>>

CoreInv ==
    /\ Installed(installed)
    /\ \A m : "business" \notin Range(LoadScript(m).requires)
    /\ job.at \in {"rewrite", "append"} => "business" \notin Range(job.body.requires)
    /\ job.at \in {"fill", "business"} => job.app.slug \notin DOMAIN installed

(* Nobody has run in vain: a module that is on the stack though it is in    *)
(* the cache, or has run twice, is in a cycle.                              *)
OneInv ==
    /\ \A m \in DOMAIN finished :
          /\ finished[m] \in Nat
          /\ m # "business" => m \in cache
          /\ finished[m] > 1 => m # "business" /\ m \in Cyclic(scripts)
    /\ "business" \in DOMAIN finished /\ state = "booting" => stack[1].todo = <<>>
    /\ Running => \A k \in 2..Len(stack) :
          /\ "business" \notin Range(stack[k].todo)
          /\ stack[k].name # "business" =>
                /\ Range(stack[k].todo) \subseteq Range(LoadScript(stack[k].name).requires)
                /\ stack[k].name \in cache => stack[k].name \in Cyclic(scripts)

(* Whoever comes back along requires is in a cycle. *)
LEMMA PathIsCycle ==
    ASSUME NEW f, NEW name, NEW j \in Nat, NEW n \in Nat, j < n, name[n] = name[j],
           \A k \in j..(n - 1) : name[k] \in DOMAIN f /\ name[k + 1] \in Range(f[name[k]].requires)
    PROVE  name[j] \in Cyclic(f)
<1>1. j \in j..(n - 1)
  OBVIOUS
<1>2. ASSUME NEW k \in j..(n - 1) PROVE name[k + 1] \in Requires(f, name[k])
  <2>1. k + 1 = n \/ k + 1 \in j..(n - 1)
    OBVIOUS
  <2>2. name[k + 1] \in DOMAIN f
    BY <1>1, <2>1
  <2> QED  BY <2>2 DEF Requires
<1>3. ASSUME NEW S \in SUBSET DOMAIN f, Requires(f, name[j]) \subseteq S, IsClosed(f, S)
      PROVE  name[j] \in S
  <2> DEFINE bad == {k \in (j + 1)..n : name[k] \notin S}
  <2>1. SUFFICES ASSUME name[n] \notin S PROVE FALSE
    OBVIOUS
  <2>2. bad \in SUBSET Nat /\ n \in bad
    BY <2>1
  <2>3. PICK x \in bad : \A y \in bad : x <= y
    BY <2>2, LeastNumber
  <2>4. x \in (j + 1)..n /\ name[x] \notin S /\ x - 1 \in j..(n - 1) /\ (x - 1) + 1 = x
    OBVIOUS
  <2>5. name[x] \in Requires(f, name[x - 1])
    BY <1>2, <2>4
  <2>6. CASE x = j + 1
    BY <1>3, <2>4, <2>5, <2>6
  <2>7. CASE x # j + 1
    <3>1. x - 1 \in (j + 1)..n /\ ~(x <= x - 1)
      BY <2>4, <2>7
    <3>2. name[x - 1] \in S
      BY <2>3, <3>1
    <3> QED  BY <1>3, <2>4, <2>5, <3>2 DEF IsClosed
  <2> QED  BY <2>6, <2>7
<1> QED  BY <1>1, <1>3 DEF Cyclic

(* Cycles that are not through business.js outlast what is written. *)
LEMMA CyclesStay ==
    ASSUME NEW f, NEW g, DOMAIN f \subseteq DOMAIN g,
           \A m \in DOMAIN f \ {"business"} : g[m].requires = f[m].requires,
           \A m \in DOMAIN f : "business" \notin Range(f[m].requires),
           NEW c \in Cyclic(f), c # "business"
    PROVE  c \in Cyclic(g)
<1>1. c \in DOMAIN f /\ c \in DOMAIN g
  BY DEF Cyclic
<1>2. ASSUME NEW m \in DOMAIN f \ {"business"}
      PROVE  Requires(f, m) \subseteq Requires(g, m) \cap (DOMAIN f \ {"business"})
  BY <1>2 DEF Requires
<1>3. ASSUME NEW S \in SUBSET DOMAIN g, Requires(g, c) \subseteq S, IsClosed(g, S)
      PROVE  c \in S
  <2> DEFINE T == S \cap (DOMAIN f \ {"business"})
  <2>1. Requires(f, c) \subseteq T
    BY <1>1, <1>2, <1>3
  <2>2. IsClosed(f, T)
    BY <1>2, <1>3 DEF IsClosed
  <2>3. T \in SUBSET DOMAIN f
    OBVIOUS
  <2> QED  BY <2>1, <2>2, <2>3 DEF Cyclic
<1> QED  BY <1>1, <1>3 DEF Cyclic

(* What a step of the watcher's thread writes *)
LEMMA WatchWrites ==
    ASSUME TypeInv, Watch
    PROVE  \/ scripts' = scripts
           \/ /\ job.at \in {"module", "fill"}
              /\ \E s : s.requires = <<>> /\ scripts' = Written(job.app.slug, s)
           \/ \E s : /\ s = EmptyScript \/ (s = job.body /\ job.at = "append")
                     /\ scripts' = Written("business", s)
<1>1. EmptyScript.requires = <<>> /\ \A app : GenBusinessModule(app).requires = <<>>
  BY DEF EmptyScript, GenBusinessModule
<1> DEFINE Goal ==
        \/ scripts' = scripts
        \/ /\ job.at \in {"module", "fill"}
           /\ \E s : s.requires = <<>> /\ scripts' = Written(job.app.slug, s)
        \/ \E s : /\ s = EmptyScript \/ (s = job.body /\ job.at = "append")
                  /\ scripts' = Written("business", s)
<1>2. ASSUME NEW s, job.at \in {"module", "fill"}, s.requires = <<>>, scripts' = Written(job.app.slug, s)
      PROVE  Goal
  BY <1>2
<1>3. ASSUME NEW s, s = EmptyScript \/ (s = job.body /\ job.at = "append"), scripts' = Written("business", s)
      PROVE  Goal
  BY <1>3
<1>4. scripts' = scripts => Goal
  OBVIOUS
<1> HIDE DEF Goal
<1>5. Goal
  BY <1>1, <1>2, <1>3, <1>4, WatchSteps
<1> QED  BY <1>5 DEF Goal

LEMMA WatchCore ==
    ASSUME TypeInv, CoreInv, Watch, replaced' = {}
    PROVE  /\ CoreInv' /\ DOMAIN scripts \subseteq DOMAIN scripts'
           /\ \A m : m # "business" => LoadScript(m).requires' = LoadScript(m).requires
<1>0. job.at \in {"module", "fill", "business"} => job.app.slug \notin DOMAIN installed
  BY WatchReplaces DEF CoreInv
<1>1. /\ Installed(installed) /\ installed' = installed /\ "business" \in DOMAIN installed
  BY WatchSteps, FolderAssumption DEF CoreInv, TypeInv, HistoryTypes
<1>2. \A m : LoadScript(m)' = Loaded(m)
  BY DEF LoadScript, Loaded
<1> DEFINE Grown == DOMAIN scripts \subseteq DOMAIN scripts'
           Alike == \A m : m # "business" => Loaded(m).requires = LoadScript(m).requires
<1>3. Grown /\ Alike /\ Installed(installed)'
  <2>1. CASE scripts' = scripts
    BY <1>1, <2>1 DEF Installed, Loaded, LoadScript
  <2>2. ASSUME job.at \in {"module", "fill"}, NEW s, s.requires = <<>>, scripts' = Written(job.app.slug, s)
        PROVE  Grown /\ Alike /\ Installed(installed)'
    <3>1. job.app.slug \notin DOMAIN installed /\ job.app.slug # "business"
      BY <1>0, <1>1, <2>2
    <3>2. LoadScript(job.app.slug).requires = <<>>
      BY <1>1, <3>1 DEF Installed
    <3>3. \A x : Loaded(x) = IF x = job.app.slug THEN s ELSE LoadScript(x)
      BY <2>2, WrittenIsLoaded
    <3>4. /\ DOMAIN scripts' = DOMAIN scripts \cup {job.app.slug}
          /\ \A x \in DOMAIN scripts : x # job.app.slug => scripts'[x] = scripts[x]
      BY <2>2 DEF Written
    <3>5. Installed(installed)'
      BY <1>1, <1>2, <2>2, <3>1, <3>3, <3>4 DEF Installed
    <3> QED  BY <2>2, <3>2, <3>3, <3>4, <3>5
  <2>3. ASSUME NEW s, scripts' = Written("business", s)
        PROVE  Grown /\ Alike /\ Installed(installed)'
    <3>1. \A x : Loaded(x) = IF x = "business" THEN s ELSE LoadScript(x)
      BY <2>3, WrittenIsLoaded
    <3>2. /\ DOMAIN scripts' = DOMAIN scripts \cup {"business"}
          /\ \A x \in DOMAIN scripts : x # "business" => scripts'[x] = scripts[x]
      BY <2>3 DEF Written
    <3>3. Installed(installed)'
      BY <1>1, <1>2, <3>1, <3>2 DEF Installed
    <3> QED  BY <3>1, <3>2, <3>3
  <2> QED  BY <2>1, <2>2, <2>3, WatchWrites
<1>4. \A m : "business" \notin Range(LoadScript(m).requires)
  BY DEF CoreInv
<1>5. "business" \notin Range(Loaded("business").requires)
  <2>1. Range(<<>>) = {} /\ EmptyScript.requires = <<>>
    BY DEF Range, EmptyScript
  <2>2. CASE scripts' = scripts
    BY <1>4, <2>2 DEF Loaded, LoadScript
  <2>3. ASSUME job.at \in {"module", "fill"}, NEW s, scripts' = Written(job.app.slug, s)
        PROVE  "business" \notin Range(Loaded("business").requires)
    BY <1>0, <1>1, <1>4, <2>3, WrittenIsLoaded
  <2>4. ASSUME NEW s, s = EmptyScript \/ (s = job.body /\ job.at = "append"), scripts' = Written("business", s)
        PROVE  "business" \notin Range(Loaded("business").requires)
    <3>1. Loaded("business") = s
      BY <2>4, WrittenIsLoaded
    <3> QED  BY <2>1, <2>4, <3>1 DEF CoreInv
  <2> QED  BY <2>2, <2>3, <2>4, WatchWrites
<1>6. \A m : "business" \notin Range(Loaded(m).requires)
  BY <1>3, <1>4, <1>5
<1>7. ASSUME job'.at \in {"rewrite", "append"} PROVE "business" \notin Range(job'.body.requires)
  <2>1. Idle.at = "idle"
    BY DEF Idle
  <2>2. CASE /\ job.at = "business" /\ "business" \in DOMAIN scripts /\ IsApp(job.app)
             /\ job' = [at |-> "rewrite", file |-> job.file, body |-> Appended(job.app.slug)]
    <3>1. IsScript(scripts["business"]) /\ LoadScript("business") = scripts["business"]
      BY <2>2 DEF TypeInv, ScriptTypes, LoadScript
    <3>2. job'.body.requires = Append(scripts["business"].requires, job.app.slug)
      BY <2>2, <3>1, ScriptsWritten DEF Appended
    <3>3. Range(job'.body.requires) = Range(scripts["business"].requires) \cup {job.app.slug}
      BY <3>1, <3>2, OneRequireMore DEF IsScript
    <3>4. job.app.slug # "business"
      BY <1>0, <1>1, <2>2
    <3> QED  BY <1>4, <3>1, <3>3, <3>4
  <2>3. CASE job' = job
    BY <1>7, <2>3 DEF CoreInv
  <2>4. CASE job.at = "rewrite" /\ job' = [at |-> "append", file |-> job.file, body |-> job.body]
    BY <2>4 DEF CoreInv
  <2> QED  BY <1>7, <2>1, <2>2, <2>3, <2>4, WatchSteps
<1>8. ASSUME job'.at \in {"fill", "business"} PROVE job'.app.slug \notin DOMAIN installed
  <2>1. Idle.at = "idle"
    BY DEF Idle
  <2>2. CASE job' = job
    BY <1>8, <2>2 DEF CoreInv
  <2>3. CASE job.at = "module" /\ job' = [at |-> "fill", file |-> job.file, app |-> job.app]
    BY <1>0, <2>3
  <2>4. CASE job.at = "fill" /\ job' = [at |-> "business", file |-> job.file, app |-> job.app]
    BY <1>0, <2>4
  <2> QED  BY <1>8, <2>1, <2>2, <2>3, <2>4, WatchSteps
<1>9. CoreInv'
  BY <1>1, <1>2, <1>3, <1>6, <1>7, <1>8 DEF CoreInv
<1> QED  BY <1>2, <1>3, <1>9

(* A module that is asked for by a frame above the first is not business.js. *)
LEMMA AskedAbove ==
    ASSUME StackInv, OneInv, Running, Len(stack) \in Nat, NEW k \in 2..Len(stack), stack[k].todo # <<>>
    PROVE  Head(stack[k].todo) \in Range(stack[k].todo) /\ Head(stack[k].todo) # "business"
<1>1. k \in 1..Len(stack)
  OBVIOUS
<1>2. Head(stack[k].todo) \in Range(stack[k].todo)
  BY <1>1, DoneFrame DEF StackInv
<1> QED  BY <1>2 DEF OneInv

(* Two frames of one module: it has come back along requires. *)
LEMMA TwiceOnStack ==
    ASSUME StackInv, CoreInv, OneInv, Running, Len(stack) \in Nat, NEW j \in 2..Len(stack),
           j < Len(stack), stack[j].name = stack[Len(stack)].name, stack[j].name # "business"
    PROVE  stack[j].name \in Cyclic(scripts)
<1> DEFINE n == Len(stack)
           name == [k \in 1..n |-> stack[k].name]
<1>0. n \in Nat /\ j \in Nat /\ n \in 1..n /\ j \in 1..n /\ j < n
  OBVIOUS
<1>1. /\ \A k \in 1..(n - 1) : stack[k].todo # <<>> /\ stack[k + 1].name = Head(stack[k].todo)
      /\ \A k \in 2..n : stack[k].name # "business" =>
            Range(stack[k].todo) \subseteq Range(LoadScript(stack[k].name).requires)
  BY DEF StackInv, OneInv
<1>2. ASSUME NEW k \in j..(n - 1)
      PROVE  name[k] \in DOMAIN scripts /\ name[k + 1] \in Range(scripts[name[k]].requires)
  <2>1. k \in 2..n /\ k \in 1..(n - 1) /\ k \in 1..n /\ k + 1 \in 1..n
    OBVIOUS
  <2>2. stack[k].todo # <<>> /\ name[k + 1] = Head(stack[k].todo) /\ name[k] = stack[k].name
    BY <1>1, <2>1
  <2>3. name[k + 1] \in Range(stack[k].todo)
    BY <2>1, <2>2, AskedAbove
  <2>4. stack[k].name # "business"
    <3>1. CASE k = j
      BY <3>1
    <3>2. CASE k # j
      <4>1. k - 1 \in 2..n /\ k - 1 \in 1..(n - 1) /\ (k - 1) + 1 = k
        BY <2>1, <3>2
      <4>2. stack[k - 1].todo # <<>> /\ stack[k].name = Head(stack[k - 1].todo)
        BY <1>1, <4>1
      <4> QED  BY <4>1, <4>2, AskedAbove
    <3> QED  BY <3>1, <3>2
  <2>5. name[k + 1] \in Range(LoadScript(name[k]).requires)
    BY <1>1, <2>1, <2>2, <2>3, <2>4
  <2>6. name[k] \in DOMAIN scripts
    <3>1. Range(EmptyScript.requires) = {}
      BY DEF EmptyScript, Range
    <3> QED  BY <2>5, <3>1 DEF LoadScript
  <2> QED  BY <2>5, <2>6 DEF LoadScript
<1>3. name[n] = name[j] /\ name[j] = stack[j].name
  BY <1>0
<1> HIDE DEF n, name
<1> QED  BY <1>0, <1>2, <1>3, PathIsCycle

LEMMA LoadOne ==
    ASSUME LoadedByMain, TypeInv, StackInv, CoreInv, OneInv, LoaderNext
    PROVE  OneInv'
<1> DEFINE n == Len(stack)
<1>1. /\ Running /\ n \in Nat \ {0} /\ scripts' = scripts
      /\ Top = stack[n] /\ Wants = Head(stack[n].todo)
      /\ Settles \/ Starts \/ Ends \/ Begins
  BY StackSteps
<1>2. (\A m : LoadScript(m)' = LoadScript(m)) /\ Cyclic(scripts)' = Cyclic(scripts)
  BY <1>1 DEF LoadScript
<1>3. /\ \A k \in 1..n : IsFrame(stack[k])
      /\ \A k \in 1..(n - 1) : stack[k].todo # <<>> /\ stack[k + 1].name = Head(stack[k].todo)
      /\ state = "booting" => stack[1].name = "main" /\ stack[1].todo \in MainTodo
      /\ state = "serving" => stack[1].todo \in {<<>>} \cup {<<name>> : name \in HandlerRequires}
  BY <1>1 DEF StackInv
<1>4. /\ \A m \in DOMAIN finished :
            /\ finished[m] \in Nat
            /\ m # "business" => m \in cache
            /\ finished[m] > 1 => m # "business" /\ m \in Cyclic(scripts)
      /\ "business" \in DOMAIN finished /\ state = "booting" => stack[1].todo = <<>>
      /\ \A k \in 2..n :
            /\ "business" \notin Range(stack[k].todo)
            /\ stack[k].name # "business" =>
                  /\ Range(stack[k].todo) \subseteq Range(LoadScript(stack[k].name).requires)
                  /\ stack[k].name \in cache => stack[k].name \in Cyclic(scripts)
  BY <1>1 DEF OneInv
<1>5. \A k \in 1..n : stack[k].todo # <<>> =>
         /\ Done(stack[k]).name = stack[k].name
         /\ Range(Done(stack[k]).todo) \subseteq Range(stack[k].todo)
  BY <1>3, DoneFrame
<1>6. state \in {"booting", "serving"}
  BY <1>1 DEF Running
(* Who asks for business.js is main(), and it is its last require *)
<1>7. ASSUME NEW k \in 1..n, stack[k].todo # <<>>, Head(stack[k].todo) = "business"
      PROVE  k = 1 /\ state = "booting" /\ stack[1].name = "main" /\ stack[1].todo = <<"business">>
  <2>1. k = 1
    <3>1. SUFFICES ASSUME k \in 2..n PROVE FALSE
      BY <1>1
    <3> QED  BY <1>1, <1>7, <3>1, AskedAbove
  <2>2. ASSUME state = "serving" PROVE FALSE
    <3>1. PICK name \in HandlerRequires : stack[1].todo = <<name>>
      BY <1>3, <1>7, <2>1, <2>2
    <3>2. name = "business"
      BY <1>7, <2>1, <3>1, MainTails
    <3> QED  BY <3>2 DEF LoadedByMain
  <2>3. state = "booting"
    BY <1>6, <2>2
  <2> QED  BY <1>3, <1>7, <2>1, <2>3, MainTails
(* While main() has something to do, business.js has not run *)
<1>8. ASSUME stack[n].todo # <<>> \/ n > 1 PROVE ~("business" \in DOMAIN finished /\ state = "booting")
  <2>1. stack[1].todo # <<>>
    <3>1. CASE n > 1
      <4>1. 1 \in 1..(n - 1)
        BY <1>1, <3>1
      <4> QED  BY <1>3, <4>1
    <3>2. CASE ~(n > 1)
      <4>1. n \in Nat \ {0} /\ ~(n > 1)
        BY <1>1, <3>2
      <4>2. stack[n].todo # <<>>
        BY <1>8, <3>2
      <4> HIDE DEF n
      <4>3. n = 1
        BY <4>1
      <4> QED  BY <4>2, <4>3
    <3> QED  BY <3>1, <3>2
  <2> QED  BY <1>4, <2>1
<1>9. CASE Settles
  <2>1. /\ stack[n].todo # <<>> /\ Len(stack') = n /\ state' \in {state, "exited"}
        /\ \A k \in 1..(n - 1) : stack'[k] = stack[k]
        /\ stack'[n] = Done(stack[n]) /\ UNCHANGED <<cache, finished>>
    BY <1>9 DEF Settles
  <2>2. ASSUME NEW k \in 1..n
        PROVE  stack'[k].name = stack[k].name /\ Range(stack'[k].todo) \subseteq Range(stack[k].todo)
    <3>1. CASE k = n
      BY <1>5, <2>1, <3>1
    <3>2. CASE k # n
      <4>1. k \in 1..(n - 1)
        BY <1>1, <3>2
      <4> QED  BY <2>1, <4>1
    <3> QED  BY <3>1, <3>2
  <2>3. ~("business" \in DOMAIN finished' /\ state' = "booting")
    BY <1>8, <2>1
  <2>4. \A k \in 2..n :
          /\ "business" \notin Range(stack'[k].todo)
          /\ stack'[k].name # "business" =>
                /\ Range(stack'[k].todo) \subseteq Range(LoadScript(stack'[k].name).requires)
                /\ stack'[k].name \in cache' => stack'[k].name \in Cyclic(scripts)
    <3>1. \A k \in 2..n : k \in 1..n
      BY <1>1
    <3> HIDE DEF n
    <3> QED  BY <1>4, <2>1, <2>2, <3>1
  <2> QED  BY <1>2, <1>4, <2>1, <2>3, <2>4 DEF OneInv
<1>10. CASE Starts
  <2>1. /\ stack[n].todo # <<>> /\ Len(stack') = n + 1 /\ state' = state
        /\ \A k \in 1..n : stack'[k] = stack[k]
        /\ stack'[n + 1] = Frame(Wants, LoadScript(Wants))
        /\ UNCHANGED <<cache, finished>> /\ (AsScript \/ Wants \notin cache)
    BY <1>10 DEF Starts, Enter
  <2>2. stack'[n + 1].name = Wants /\ stack'[n + 1].todo = LoadScript(Wants).requires
    BY <2>1, FrameIsFrame, LoadedIsScript
  <2>3. ~("business" \in DOMAIN finished' /\ state' = "booting")
    BY <1>8, <2>1
  <2>4. Wants # "business" => Wants \notin cache
    BY <2>1 DEF AsScript
  <2>5. ASSUME NEW k \in 2..(n + 1)
        PROVE  /\ "business" \notin Range(stack'[k].todo)
               /\ stack'[k].name # "business" =>
                     /\ Range(stack'[k].todo) \subseteq Range(LoadScript(stack'[k].name).requires)
                     /\ stack'[k].name \in cache' => stack'[k].name \in Cyclic(scripts)
    <3>1. CASE k = n + 1
      BY <2>1, <2>2, <2>4, <3>1 DEF CoreInv
    <3>2. CASE k # n + 1
      <4>1. k \in 2..n /\ k \in 1..n
        BY <1>1, <3>2
      <4> QED  BY <1>4, <2>1, <4>1
    <3> QED  BY <3>1, <3>2
  <2> QED  BY <1>2, <1>4, <2>1, <2>3, <2>5 DEF OneInv
<1>11. CASE Ends
  <2> DEFINE t == Top.name
  <2>1. /\ stack[n].todo = <<>> /\ n > 1 /\ Len(stack') = n - 1
        /\ \A k \in 1..(n - 2) : stack'[k] = stack[k]
        /\ stack'[n - 1] = Done(stack[n - 1]) /\ state' \in {state, "exited"}
    BY <1>11 DEF Ends
  <2>2. /\ n - 1 \in 1..n /\ stack[n - 1].todo # <<>> /\ t = Head(stack[n - 1].todo)
        /\ n \in 2..n /\ t = stack[n].name
    <3>1. n - 1 \in 1..(n - 1) /\ (n - 1) + 1 = n /\ n - 1 \in 1..n /\ n \in 2..n
      BY <1>1, <2>1
    <3> QED  BY <1>1, <1>3, <3>1
  <2>3. ASSUME NEW k \in 1..(n - 1)
        PROVE  stack'[k].name = stack[k].name /\ Range(stack'[k].todo) \subseteq Range(stack[k].todo)
    <3>1. CASE k = n - 1
      <4>1. stack'[n - 1] = Done(stack[n - 1]) /\ n - 1 \in 1..n /\ stack[n - 1].todo # <<>>
        BY <2>1, <2>2
      <4> HIDE DEF n
      <4> QED  BY <1>5, <3>1, <4>1
    <3>2. CASE k # n - 1
      <4>1. k \in 1..(n - 2)
        BY <1>1, <3>2
      <4> QED  BY <2>1, <4>1
    <3> QED  BY <3>1, <3>2
  <2>4. ~("business" \in DOMAIN finished /\ state = "booting")
    BY <1>8, <2>1
  <2>5. \A k \in 2..(n - 1) : k \in 2..n /\ k \in 1..(n - 1)
    BY <1>1, <2>1
  <2>6. CASE UNCHANGED <<cache, finished>>
    <3>1. \A k \in 2..(n - 1) :
            /\ "business" \notin Range(stack'[k].todo)
            /\ stack'[k].name # "business" =>
                  /\ Range(stack'[k].todo) \subseteq Range(LoadScript(stack'[k].name).requires)
                  /\ stack'[k].name \in cache' => stack'[k].name \in Cyclic(scripts)
      <4> HIDE DEF n
      <4> QED  BY <1>4, <2>3, <2>5, <2>6
    <3>2. \A m \in DOMAIN finished' :
            /\ finished'[m] \in Nat
            /\ m # "business" => m \in cache'
            /\ finished'[m] > 1 => m # "business" /\ m \in Cyclic(scripts)
      BY <1>4, <2>6
    <3>3. ~("business" \in DOMAIN finished' /\ state' = "booting")
      BY <2>1, <2>4, <2>6
    <3> QED  BY <1>2, <2>1, <3>1, <3>2, <3>3 DEF OneInv
  <2>7. CASE Leave
    <3>1. /\ cache' = cache \cup Kept(t, stack[n - 1]) /\ state' = state
          /\ finished' = [m \in DOMAIN finished \cup {t} |->
                             IF m \notin DOMAIN finished THEN 1
                             ELSE IF m = t THEN finished[m] + 1 ELSE finished[m]]
      BY <2>7 DEF Leave
    <3>2. CASE t = "business"
      <4>1. /\ n - 1 = 1 /\ state = "booting" /\ stack[1].name = "main"
            /\ stack[1].todo = <<"business">>
        BY <1>7, <2>2, <3>2
      <4>2. cache' = cache
        BY <3>1, <3>2, <4>1 DEF Kept
      <4>3. "business" \notin DOMAIN finished
        BY <2>4, <4>1
      <4>4. /\ DOMAIN finished' = DOMAIN finished \cup {"business"} /\ finished'["business"] = 1
            /\ \A m \in DOMAIN finished : finished'[m] = finished[m]
        BY <3>1, <3>2, <4>3
      <4>5. stack'[1].todo = <<>>
        <5>1. stack'[1] = Done(stack[1]) /\ 1 \in 1..n /\ stack[1].todo # <<>>
          <6>1. n - 1 = 1
            BY <4>1
          <6> HIDE DEF n
          <6>2. stack'[n - 1] = Done(stack[n - 1]) /\ n - 1 \in 1..n /\ stack[n - 1].todo # <<>>
            BY <2>1, <2>2
          <6> QED  BY <6>1, <6>2
        <5>2. stack'[1].todo = Tail(stack[1].todo)
          BY <1>3, <5>1, DoneFrame
        <5> QED  BY <4>1, <5>2, MainTails
      <4>6. 2..Len(stack') = {}
        <5>1. Len(stack') = 1
          BY <2>1, <4>1
        <5> QED  BY <5>1
      <4>7. \A m \in DOMAIN finished' :
              /\ finished'[m] \in Nat
              /\ m # "business" => m \in cache'
              /\ finished'[m] > 1 => m # "business" /\ m \in Cyclic(scripts)
        <5>1. finished'["business"] \in Nat /\ ~(finished'["business"] > 1)
          BY <4>4
        <5> QED  BY <1>4, <4>2, <4>4, <5>1
      <4> QED  BY <1>2, <4>5, <4>6, <4>7 DEF OneInv
    <3>3. CASE t # "business"
      <4>1. cache' = cache \cup {t}
        BY <3>1, <3>3 DEF Kept
      <4>2. t \in cache => t \in Cyclic(scripts)
        BY <1>4, <2>2, <3>3
      <4>3. \A m \in DOMAIN finished' :
              /\ finished'[m] \in Nat
              /\ m # "business" => m \in cache'
              /\ finished'[m] > 1 => m # "business" /\ m \in Cyclic(scripts)
        <5>1. ASSUME NEW m \in DOMAIN finished', m # t
              PROVE  m \in DOMAIN finished /\ finished'[m] = finished[m]
          BY <3>1, <5>1
        <5>2. CASE t \in DOMAIN finished
          <6>1. finished'[t] = finished[t] + 1 /\ finished[t] \in Nat /\ t \in cache
            BY <1>4, <3>1, <3>3, <5>2
          <6> QED  BY <1>4, <3>3, <4>1, <4>2, <5>1, <6>1
        <5>3. CASE t \notin DOMAIN finished
          <6>1. finished'[t] = 1
            BY <3>1, <5>3
          <6>2. finished'[t] \in Nat /\ ~(finished'[t] > 1)
            BY <6>1
          <6> QED  BY <1>4, <3>3, <4>1, <5>1, <6>2
        <5> QED  BY <5>2, <5>3
      <4>4. ASSUME NEW k \in 2..(n - 1)
            PROVE  /\ "business" \notin Range(stack'[k].todo)
                   /\ stack'[k].name # "business" =>
                         /\ Range(stack'[k].todo) \subseteq Range(LoadScript(stack'[k].name).requires)
                         /\ stack'[k].name \in cache' => stack'[k].name \in Cyclic(scripts)
        <5>1. k \in 2..n /\ k \in 1..(n - 1) /\ k < n
          BY <1>1, <2>1
        <5>2. stack'[k].name = t => t \in Cyclic(scripts)
          BY <1>1, <2>2, <2>3, <3>3, <5>1, TwiceOnStack
        <5> HIDE DEF n, t
        <5> QED  BY <1>4, <2>3, <4>1, <5>1, <5>2
      <4>5. ~("business" \in DOMAIN finished' /\ state' = "booting")
        BY <2>4, <3>1, <3>3
      <4> QED  BY <1>2, <2>1, <4>3, <4>4, <4>5 DEF OneInv
    <3> QED  BY <3>2, <3>3
  <2> QED  BY <1>11, <2>6, <2>7 DEF Ends
<1>12. CASE Begins
  <2>1. state' = "serving" /\ Len(stack') = 1 /\ UNCHANGED <<cache, finished>>
    BY <1>1, <1>12 DEF Begins
  <2>2. 2..Len(stack') = {}
    BY <2>1
  <2> QED  BY <1>2, <1>4, <2>1, <2>2 DEF OneInv
<1> QED  BY <1>1, <1>9, <1>10, <1>11, <1>12

LEMMA InitOne == LoadedByMain /\ Init => CoreInv /\ OneInv
<1> SUFFICES ASSUME LoadedByMain, Init
             PROVE  CoreInv /\ OneInv
  OBVIOUS
<1>1. /\ scripts \in CoreScripts /\ installed = scripts /\ state = "down" /\ job.at = "idle"
      /\ DOMAIN finished = {}
  BY DEF Init, LoaderInit, WatcherInit, Idle
<1>2. EmptyScript.requires = <<>> /\ Range(<<>>) = {}
  BY DEF EmptyScript, Range
<1>3. \A m : "business" \notin Range(LoadScript(m).requires)
  BY <1>1, <1>2 DEF LoadScript, LoadedByMain
<1>4. Installed(scripts)
  BY <1>2 DEF Installed, LoadScript
<1>5. CoreInv
  BY <1>1, <1>3, <1>4 DEF CoreInv
<1> QED  BY <1>1, <1>5 DEF OneInv, Running

(* Steps of others than the loader *)
LEMMA OthersKeepOne ==
    ASSUME CoreInv, OneInv, UNCHANGED <<state, stack, cache, finished>>,
           DOMAIN scripts \subseteq DOMAIN scripts',
           \A m : m # "business" => LoadScript(m).requires' = LoadScript(m).requires
    PROVE  OneInv'
<1>1. \A m \in DOMAIN scripts \ {"business"} : scripts'[m].requires = scripts[m].requires
  <2> SUFFICES ASSUME NEW m \in DOMAIN scripts \ {"business"}
               PROVE  scripts'[m].requires = scripts[m].requires
    OBVIOUS
  <2>1. LoadScript(m).requires' = LoadScript(m).requires
    OBVIOUS
  <2> QED  BY <2>1 DEF LoadScript
<1>2. \A m \in DOMAIN scripts : "business" \notin Range(scripts[m].requires)
  BY DEF CoreInv, LoadScript
<1>3. \A m \in Cyclic(scripts) : m # "business" => m \in Cyclic(scripts')
  BY <1>1, <1>2, CyclesStay
<1> QED  BY <1>3 DEF OneInv, Running

LEMMA StepOne ==
    ASSUME LoadedByMain, TypeInv, StackInv, CoreInv, OneInv, [Next]_vars, replaced' = {}
    PROVE  CoreInv' /\ OneInv'
<1>1. ASSUME UNCHANGED <<scripts, installed>>, job' = job \/ job' = Idle
      PROVE  CoreInv'
  <2>1. Idle.at = "idle"
    BY DEF Idle
  <2> QED  BY <1>1, <2>1 DEF CoreInv, Installed, LoadScript
<1>2. ASSUME scripts' = scripts, UNCHANGED <<state, stack, cache, finished>>
      PROVE  OneInv'
  BY <1>2, OthersKeepOne DEF LoadScript
<1>3. CASE Start
  <2>1. /\ state' = "booting" /\ Len(stack') = 1 /\ UNCHANGED <<scripts, installed>>
        /\ finished' = [m \in {} |-> 0]
    BY <1>3, StartStack DEF Start, history
  <2>2. job' = job
    BY <1>3 DEF Start, Scaffold
  <2>3. 2..Len(stack') = {} /\ DOMAIN finished' = {}
    BY <2>1
  <2> QED  BY <1>1, <2>1, <2>2, <2>3 DEF OneInv
<1>4. CASE Load
  <2>1. UNCHANGED <<scripts, installed>>
    BY <1>4, StackSteps DEF Load, history
  <2>2. job' = job \/ job' = Idle
    BY <1>4 DEF Load, WatcherDies, watcherVars
  <2> QED  BY <1>1, <1>4, <2>1, <2>2, LoadOne DEF Load
<1>5. CASE Watch
  <2>1. UNCHANGED <<state, stack, cache, finished>>
    BY <1>5 DEF Watch, loaderVars
  <2> QED  BY <1>5, <2>1, WatchCore, OthersKeepOne
<1>6. CASE Write
  <2>1. UNCHANGED <<state, stack, cache, finished, scripts, installed, job>>
    BY <1>6 DEF Write, EditorNext, Open, MoveIn, WriteLine, Close, Delete, loaderVars, history
  <2> QED  BY <1>1, <1>2, <2>1
<1>7. CASE DiskFails
  <2>1. UNCHANGED <<state, stack, cache, finished, scripts, installed>> /\ job' = Idle
    BY <1>7 DEF DiskFails, OpenFails, loaderVars, history
  <2> QED  BY <1>1, <1>2, <2>1
<1>8. CASE Crash
  <2>1. /\ UNCHANGED <<scripts, installed>> /\ job' = Idle /\ state' = "down"
        /\ finished' = [m \in {} |-> 0]
    BY <1>8 DEF Crash, Down, WatcherDies, history
  <2>2. DOMAIN finished' = {}
    BY <2>1
  <2> QED  BY <1>1, <2>1, <2>2 DEF OneInv, Running
<1>9. CASE UNCHANGED vars
  <2>1. UNCHANGED <<state, stack, cache, finished, scripts, installed, job>>
    BY <1>9 DEF vars, loaderVars, watcherVars, history
  <2> QED  BY <1>1, <1>2, <2>1
<1> QED  BY <1>3, <1>4, <1>5, <1>6, <1>7, <1>8, <1>9 DEF Next

(* What has been written over stays so. *)
LEMMA ReplacedStays ==
    ASSUME TypeInv, [Next]_vars
    PROVE  replaced \subseteq replaced'
<1>1. CASE Watch
  BY <1>1, WatchReplaces
<1>2. CASE ~Watch
  BY <1>2 DEF Next, Start, Load, Write, DiskFails, Crash, vars, history
<1> QED  BY <1>1, <1>2

(* Where only main() runs business.js, as in the folder that is shipped, a  *)
(* module that is in no cycle of requires runs to its end at most once in a *)
(* process, whoever requires it, whatever fails and whatever the watcher    *)
(* writes meanwhile, as long as that is over no installed script.           *)
THEOREM ModulesRunOnce == LoadedByMain => (Spec => []OneInstanceOfInstalled)
<1> SUFFICES ASSUME LoadedByMain
             PROVE  Spec => []OneInstanceOfInstalled
  OBVIOUS
<1> DEFINE Inv == replaced = {} => CoreInv /\ OneInv
<1>1. Inv => OneInstanceOfInstalled
  BY DEF OneInv, OneInstance, OneInstanceOfInstalled
<1>2. Init => TypeInv /\ StackInv /\ BootInv /\ Inv
  BY InitTypes, InitBoot, InitOne
<1>3. TypeInv /\ StackInv /\ BootInv /\ [Next]_vars => (TypeInv /\ StackInv /\ BootInv)'
  BY StepTypes, StepBoot
<1>4. TypeInv /\ StackInv /\ Inv /\ [Next]_vars => Inv'
  BY StepOne, ReplacedStays
<1> HIDE DEF Inv
<1> QED  BY <1>1, <1>2, <1>3, <1>4, PTL DEF Spec
=============================================================================
