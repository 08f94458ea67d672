--------------------------- MODULE VersionedStore ---------------------------
(***************************************************************************)
(* What a store of versioned records promises its callers: every write of a *)
(* record is one step that creates it, replaces it and raises its version   *)
(* by one, or deletes it.  No write is lost: a write that leaves the version *)
(* where another write has put it is not a step of this specification.      *)
(* Nothing is promised for a contested record.                             *)
(***************************************************************************)
EXTENDS Integers

CONSTANT Keys   \* the keys of the records

VARIABLES
    recs,       \* the stored records, a function on the keys in use
    contested   \* keys for which the promise is suspended

vars == <<recs, contested>>

Init ==
    /\ recs = [k \in {} |-> 0]
    /\ contested = {}

\* Only the record of key k may differ after the step.
OnlyAt(k) ==
    /\ DOMAIN recs' \ {k} = DOMAIN recs \ {k}
    /\ \A j \in DOMAIN recs \ {k} : recs'[j] = recs[j]

Create(k) ==
    /\ k \notin DOMAIN recs
    /\ k \in DOMAIN recs' /\ recs'[k].version >= 1
    /\ OnlyAt(k) /\ UNCHANGED contested

Replace(k) ==
    /\ k \in DOMAIN recs \cap DOMAIN recs'
    /\ recs'[k].version = recs[k].version + 1
    /\ OnlyAt(k) /\ UNCHANGED contested

Delete(k) ==
    /\ k \in DOMAIN recs \ DOMAIN recs'
    /\ OnlyAt(k) /\ UNCHANGED contested

Contest ==
    /\ contested \subseteq contested' /\ contested' \subseteq Keys
    /\ UNCHANGED recs

Overwrite(k) ==
    /\ k \in contested
    /\ OnlyAt(k) /\ UNCHANGED contested

Next ==
    \/ \E k \in Keys : Create(k) \/ Replace(k) \/ Delete(k) \/ Overwrite(k)
    \/ Contest

Spec == Init /\ [][Next]_vars
=============================================================================
