----------------------------- MODULE MCMailbox -----------------------------
(* Finite instances of Mailbox for TLC.                                    *)
EXTENDS Mailbox

SmallSizes == {1, 2}
OneSize == {1}

----------------------------------------------------------------------------
(* The serial instance leaves out some steps of the environment; no         *)
(* fairness condition speaks of these.                                     *)

\* The last deposit is there for the caps: it finds the client waiting and every
\* record announced or silent, and meets no callback and no further failure.
LastMeetsCaps ==
    deposits' = MaxDeposits =>
        /\ deposits < MaxDeposits => reader.pc = "waiting" /\ untold \subseteq silent
        /\ ~onDeposit' /\ crashes' = crashes /\ rejects' = rejects

\* A crash and a rejection both happen only around the first record.
FewFailures == crashes' + rejects' <= 1 \/ deposits' = 1

MCNext == Next /\ LastMeetsCaps /\ FewFailures

MCSpec == Init /\ [][MCNext]_vars /\ Fairness
=============================================================================
