---------------------------- MODULE ScriptFiles ----------------------------
(***************************************************************************)
(* The folder scripts/, which the module loader reads and the requirements *)
(* watcher writes.  A script is known by what its execution does: the      *)
(* modules it requires, in order, the entries it adds to the global api,   *)
(* and whether it runs to its end ("ok"), throws there ("throws") or does  *)
(* not compile ("broken").                                                 *)
(***************************************************************************)
EXTENDS Integers, Sequences, FiniteSets, SequencesExt

VARIABLE scripts  \* from the names of the files that exist to scripts

IsScript(s) ==
    /\ s = [kind |-> s.kind, requires |-> s.requires, api |-> s.api]
    /\ s.kind \in {"ok", "throws", "broken"} /\ s.requires \in Seq(Range(s.requires))

EmptyScript == [kind |-> "ok", requires |-> <<>>, api |-> {}]

(* A file that is missing reads as an empty one *)
LoadScript(name) == IF name \in DOMAIN scripts THEN scripts[name] ELSE EmptyScript

Written(name, script) ==
    [n \in DOMAIN scripts \cup {name} |-> IF n = name THEN script ELSE scripts[n]]
=============================================================================
