------------------------------ MODULE MCStores ------------------------------
(***************************************************************************)
(* Finite instances of PeerLinkStore for TLC.  The stores share no key, so   *)
(* each behaviour keeps to the calls of one of them, chosen at the start.    *)
(***************************************************************************)
EXTENDS PeerLinkStore

CONSTANT MaxAttemptCalls   \* bound: calls started on the attempts

VARIABLE store   \* the store whose calls this behaviour makes

MCInit ==
    /\ Init
    /\ store \in {"links", "sessions", "attempts", "events", "keys"}
    /\ reader.index[2] = CHOOSE o \in Owners : TRUE

OneOwner == CHOOSE o \in Owners : TRUE

\* To bound the instance links are created without a version, and a missing
\* version of a session or an attempt goes with the status ended.
Bounded(r) ==
    /\ r.op = "createLink" => r.version = 0
    /\ r.op \in {"putSession", "createAttempt"} => (r.version = 0) = (r.status = "ended")

Calls ==
    CASE store = "links"    -> {r \in LinkRequests : r.owner = OneOwner /\ Bounded(r)}
      [] store = "sessions" ->
            {r \in SessionRequests : r.owner = OneOwner /\ Bounded(r)}
      [] store = "attempts" ->
            {r \in AttemptRequests : calls < MaxAttemptCalls /\ Bounded(r)}
      [] store = "events"   -> {r \in EventRequests : r.owner = OneOwner}
      [] OTHER              -> {}

Lists ==
    CASE store = "sessions" ->
            {r \in ListRequests : r.of = "recoverable" /\ r.owner = OneOwner}
      [] store = "attempts" ->
            {r \in ListRequests : r.of # "recoverable" /\ calls < MaxAttemptCalls}
      [] OTHER              -> {}

MCNext ==
    /\ \/ \E r \in Calls : Start(r)
       \/ \E r \in Lists : StartList(r)
       \/ Turn
       \/ store = "events" /\ Page
       \/ store = "keys" /\ \E o \in Owners : KeyCall(o)
    /\ UNCHANGED store

Symmetry ==
    Permutations(Links) \cup Permutations(Peers) \cup Permutations(Sessions)
        \cup Permutations(Events)

MCSpec == MCInit /\ [][MCNext]_<<vars, store>>
=============================================================================
