-------------------------- MODULE MCSecureChannel --------------------------
(* Finite instances of SecureChannel for TLC.                              *)
EXTENDS SecureChannel

\* Bounds on the messages of the initiator and of the responder.
Sends_3_1 == [p \in Party |-> IF p = "I" THEN 3 ELSE 1]
Sends_2_2 == [p \in Party |-> 2]

\* The initiator's key below, between and above the responder's keys.
AllRanks ==
    { [k \in DhKey |-> CASE k = "spk" -> 9 [] k = "a0" -> a
                         [] k = "b0" -> 2 [] k = "b1" -> 4] : a \in {1, 3, 5} }
OneRank == { r \in AllRanks : r["a0"] = 3 }
=============================================================================
