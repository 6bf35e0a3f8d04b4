---------------------------- MODULE MCApiServer -----------------------------
(* Instances of ApiServer for TLC *)
EXTENDS ApiServer, TLC

MCLower == ("Ann" :> "ann") @@ ("ann" :> "ann") @@ ("ann'x" :> "ann'x") @@ ("" :> "")

\* what the lookup asks for: a plain name is read whole
MCSought == ("ann" :> "ann") @@ ("ann'x" :> "ann") @@ ("" :> "none")

Signup(n, name) ==
    [id |-> n, route |-> "signup", header |-> "none", body |-> "bad", name |-> name]

Protected(n, header, body) ==
    [id |-> n, route |-> "protected", header |-> header, body |-> body, name |-> "ann"]

Open(n, route) ==
    [id |-> n, route |-> route, header |-> "none", body |-> "bad", name |-> "ann"]

\* one name in two spellings, a name that the lookup reads as that one and
\* the one it does not read, every pair of tokens that matters, and a
\* request that keeps its worker busy
MCRequests ==
    { Signup(1, "Ann"), Signup(2, "ann"), Signup(8, "ann'x"), Signup(9, ""),
      Protected(3, "good", "good"), Protected(4, "good", "bad"),
      Protected(5, "bad", "good"), Protected(6, "none", "good"),
      Open(7, "ask") }
=============================================================================
