---------------------------- MODULE MCOnionRelay ----------------------------
(* Instance for TLC: two relays, one with a key and its successor. *)
EXTENDS OnionRelay, TLC

CONSTANTS a, b, a1, a2, b1

Windows ==
    a1 :> [owner |-> a, createdAt |-> 0, notBefore |-> 0, notAfter |-> 1]
    @@ a2 :> [owner |-> a, createdAt |-> 1, notBefore |-> 0, notAfter |-> 2]
    @@ b1 :> [owner |-> b, createdAt |-> 0, notBefore |-> 0, notAfter |-> 2]
FirstKeys == a1 :> "active" @@ a2 :> "absent" @@ b1 :> "active"
RelayLists == {<<a>>, <<a, a, b>>}
=============================================================================
