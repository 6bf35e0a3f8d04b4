-------------------------- MODULE ImmutableLedger ---------------------------
(***************************************************************************)
(* What the blockchain journal promises ("an immutable, double-entry       *)
(* blockchain"): transactions are appended one at a time under consecutive *)
(* numbers, none is ever changed or removed, and what a caller was told is *)
(* in the journal is there.                                                *)
(***************************************************************************)
EXTENDS Naturals, Sequences

CONSTANT Payloads

VARIABLES entries, acknowledged

Init == entries = <<>> /\ acknowledged = {}

Entry(n, p) ==
    [transactionId |-> n, source |-> p.source, dest |-> p.dest, amount |-> p.amount]

AppendEntry ==
    /\ \E p \in Payloads : entries' = Append(entries, Entry(Len(entries) + 1, p))
    /\ UNCHANGED acknowledged

Acknowledge ==
    /\ \E k \in DOMAIN entries : acknowledged' = acknowledged \cup {entries[k]}
    /\ UNCHANGED entries

Next == AppendEntry \/ Acknowledge

Spec == Init /\ [][Next]_<<entries, acknowledged>>
=============================================================================
