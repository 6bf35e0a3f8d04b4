------------------------------ MODULE MCStartup ------------------------------
(* Instances of Startup for TLC: the folder as it is shipped, and with      *)
(* scripts that fail or require each other in a circle; files with slugs of *)
(* their own, and one whose slug is business.  (business.js requires auth   *)
(* itself only where main() has got undefined for it.)                      *)
EXTENDS Startup, TLC

Script(kind, requires, entries) == [kind |-> kind, requires |-> requires, api |-> entries]
Lib(requires) == Script("ok", requires, {})

Shipped == ("auth" :> Lib(<<>>)) @@ ("sanitize" :> Lib(<<>>))
           @@ ("ledger" :> Lib(<<>>))
           @@ ("bcapi" :> Script("ok", <<"sanitize", "auth", "ledger">>, {<<"bc">>}))
           @@ ("business" :> Script("ok", <<"ledger", "bcapi">>, {<<"business">>}))

MCCoreScripts == {
    Shipped,
    [Shipped EXCEPT !["auth"].kind = "broken", !["bcapi"].kind = "throws",
                    !["ledger"].requires = <<"bcapi">>,
                    !["business"].requires = <<"auth", "ledger">>],
    [Shipped EXCEPT !["business"].kind = "throws"] }

Heading(slug)       == [part |-> "heading", slug |-> slug, api |-> {}]
Slug(slug)          == [part |-> "slug", slug |-> slug, api |-> {}]
Json(slug, entries) == [part |-> "json", slug |-> slug, api |-> entries]

MCTemplate  == <<Slug("sample"), Json("sample", {<<"sample", "list">>})>>
MCDocuments == ("agent" :> {MCTemplate}) @@ ("notes" :> {<<Heading("business"), Slug("my-notes")>>})
MCNotNames  == {"generated-app", "my-notes"}
=============================================================================
