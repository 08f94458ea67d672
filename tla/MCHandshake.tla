---- MODULE MCHandshake ----
(* Instances of Handshake for TLC. *)
EXTENDS Handshake

CONSTANT First   \* the party that issues the first invite

\* The parties are interchangeable, so one of them may go first; a SYMMETRY
\* set would not be sound with Decided.
FirstIssues == invites' = <<>> \/ invites'[1].signKey = First

\* A snapshot exported after the last restart is never imported.
NoIdleExport == restarts = MaxRestarts => snap' = snap

\* Handshakes for two invites cross, or a party restarts with one invite.
CrossOrRestart ==
    Len(invites') > 1 => restarts' = 0 /\ snap' = [p \in Parties |-> {}]

MCNext == Next /\ FirstIssues /\ NoIdleExport /\ CrossOrRestart

\* No fairness condition speaks of invites, snapshots and restarts.
MCSpec == Init /\ [][MCNext]_vars /\ Fairness
====
