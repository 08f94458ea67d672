----------------------------- MODULE DataStore -----------------------------
(***************************************************************************)
(* What an RDataStore promises its callers, as MemoryDataStore does it: a   *)
(* put or a remove takes effect in one step between its call and its        *)
(* return, a put that fails has no effect, a clear only takes keys away,    *)
(* and a crash leaves the map as it is.                                     *)
(***************************************************************************)
CONSTANTS
    Slots,   \* callers
    Keys,    \* keys of the store
    Values   \* what is stored

VARIABLES
    map,     \* the stored values, a function on the keys in use
    op       \* op[s]: what caller s is waiting for

vars == <<map, op>>

Idle == [op |-> "none"]
Done == [op |-> "done"]

Init ==
    /\ map = [k \in {} |-> {}]
    /\ op = [s \in Slots |-> Idle]

Ends(s, how) == op' = [op EXCEPT ![s] = how]

Without(ks) == [j \in DOMAIN map \ ks |-> map[j]]

Call(s) ==
    /\ op[s] = Idle
    /\ \/ \E k \in Keys, v \in Values : Ends(s, [op |-> "put", key |-> k, value |-> v])
       \/ Ends(s, [op |-> "clear"])
    /\ UNCHANGED map

Put(s) ==
    /\ op[s].op = "put"
    /\ map' = [j \in DOMAIN map \cup {op[s].key} |->
                  IF j = op[s].key THEN op[s].value ELSE map[j]]
    /\ Ends(s, Idle)

PutFails(s) == op[s].op = "put" /\ Ends(s, Idle) /\ UNCHANGED map

\* A remove takes effect when it is called, and returns later.
Remove(s) ==
    /\ op[s] = Idle
    /\ \E k \in DOMAIN map : map' = Without({k})
    /\ Ends(s, Done)

ClearSome(s) ==
    /\ op[s].op = "clear"
    /\ \E ks \in SUBSET DOMAIN map : map' = Without(ks)
    /\ UNCHANGED op

Return(s) == op[s].op \in {"done", "clear"} /\ Ends(s, Idle) /\ UNCHANGED map

Crash == op' = [s \in Slots |-> Idle] /\ UNCHANGED map

Next ==
    \/ \E s \in Slots :
          \/ Call(s) \/ Put(s) \/ PutFails(s) \/ Remove(s)
          \/ ClearSome(s) \/ Return(s)
    \/ Crash

Spec == Init /\ [][Next]_vars
=============================================================================
