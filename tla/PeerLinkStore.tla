--------------------------- MODULE PeerLinkStore ---------------------------
(***************************************************************************)
(* The peer-link storage of MemoryStorageProvider: peer links and the index *)
(* of their account pairs, secure sessions and the index of their links,    *)
(* handshake attempts, the event log of a link, and key material, all kept  *)
(* under their own key prefixes of one MemoryKeyValueStore.                 *)
(*                                                                         *)
(* The key-value store is synchronous, so every await in these methods      *)
(* suspends the call for one turn of the microtask queue: suspended calls   *)
(* are resumed in the order in which they suspended.  queue is that queue.  *)
(* A call may be started between any two turns; what it reads first it      *)
(* reads at once.                                                          *)
(*                                                                         *)
(* Two calls started in the same turn on one key read the same state and    *)
(* the later write wins.  raced collects the keys for which that happened:  *)
(* the properties say what holds of all the others.                         *)
(***************************************************************************)
EXTENDS Integers, Sequences, FiniteSets, SequencesExt

CONSTANTS
    Owners,      \* owner account ids
    Peers,       \* peer account ids
    Links,       \* peer-link ids
    Sessions,    \* session ids
    Attempts,    \* handshake-attempt ids
    Events,      \* event ids
    Invites,     \* invite ids
    Versions,    \* versions of the records callers pass (0 is a missing one)
    Expected,    \* expected versions callers pass
    Statuses,    \* statuses of sessions and attempts
    Limits,      \* page limits callers pass (0 is no valid limit)
    MaxCalls     \* bound: calls started

ASSUME VersionsAssumption == Versions \subseteq Nat /\ Expected \subseteq Nat
ASSUME LimitsAssumption == Limits \subseteq Nat
ASSUME CallsAssumption == MaxCalls \in Nat

VARIABLES
    kv,       \* the key-value store, a function on the keys in use
    queue,    \* the suspended calls, the next to be resumed first
    calls,    \* number of calls started
    raced,    \* keys on which two calls were started in the same turn
    latest,   \* latest[i]: the session last put for the link of index key i
    moved,    \* sessions put for a second link while indexed for the first
    acked,    \* appends that have returned
    reader    \* a client paging through the event log of one link

ghosts == <<raced, latest, moved, acked>>
vars == <<kv, queue, calls, ghosts, reader>>

----------------------------------------------------------------------------
(* Keys and values.                                                        *)

Link(o, l)         == <<"records", o, l>>
Pair(o, p)         == <<"pairs", o, p>>
Session(o, s)      == <<"sessions", o, s>>
SessionIndex(o, l) == <<"sessions:by-peer-link", o, l>>
Attempt(o, a)      == <<"handshakes", o, a>>
Event(o, e)        == <<"events", o, e>>
EventIndex(o, l)   == <<"events:index", o, l>>
Identity(o)        == <<"keys:identity", o>>
InvitePreKey(o, i) == <<"keys:invite", o, i>>

RecordKeys ==
    {Link(o, l) : o \in Owners, l \in Links}
        \cup {Session(o, s) : o \in Owners, s \in Sessions}
        \cup {Attempt(o, a) : o \in Owners, a \in Attempts}

\* get: the value as a sequence of one, or none.
Get(k) == IF k \in DOMAIN kv THEN <<kv[k]>> ELSE <<>>

Set(k, v) == kv' = [j \in DOMAIN kv \cup {k} |-> IF j = k THEN v ELSE kv[j]]

Delete(k) == kv' = [j \in DOMAIN kv \ {k} |-> kv[j]]

NormalizeVersion(v) == IF v > 0 THEN v ELSE 1

----------------------------------------------------------------------------
(* Calls.                                                                  *)

LinkRequests ==
    [op : {"createLink"}, owner : Owners, link : Links, peer : Peers, version : Versions]
        \cup
    [op : {"updateLink"}, owner : Owners, link : Links, peer : Peers, expected : Expected]

SessionRequests ==
    [op : {"putSession"}, owner : Owners, session : Sessions, link : Links,
     version : Versions, status : Statuses]
        \cup
    [op : {"deleteSession"}, owner : Owners, session : Sessions]

AttemptRequests ==
    [op : {"createAttempt"}, owner : Owners, attempt : Attempts, link : Links,
     status : Statuses, version : Versions]
        \cup
    [op : {"updateAttempt"}, owner : Owners, attempt : Attempts, link : Links,
     status : Statuses, expected : Expected]

EventRequests == [op : {"append"}, owner : Owners, event : Events, link : Links]

Requests == LinkRequests \cup SessionRequests \cup AttemptRequests \cup EventRequests

\* listRecoverable of the sessions, listPending and listByPeerLinkId of the
\* attempts.
ListRequests ==
    [op : {"list"}, of : {"recoverable", "pending"}, owner : Owners]
        \cup
    [op : {"list"}, of : {"link"}, owner : Owners, link : Links]

\* The key every call reads first.
FirstKey(r) ==
    CASE r.op \in {"createLink", "updateLink"}       -> Link(r.owner, r.link)
      [] r.op \in {"putSession", "deleteSession"}    -> Session(r.owner, r.session)
      [] r.op \in {"createAttempt", "updateAttempt"} -> Attempt(r.owner, r.attempt)
      [] r.op = "append"                             -> Event(r.owner, r.event)

\* The keys a call that first read seen will write from what it read.
Touched(r, seen) ==
    {FirstKey(r)} \cup
    CASE r.op = "createLink" -> {Pair(r.owner, r.peer)}
      [] r.op = "putSession" -> {SessionIndex(r.owner, r.link)}
      [] r.op = "deleteSession" /\ seen # <<>> ->
            {SessionIndex(r.owner, seen[1].link)}
      [] r.op = "append"     -> {EventIndex(r.owner, r.link)}
      [] OTHER               -> {}

\* A call that has read but has written nothing yet.
Undecided(c) == c.pc \in {"read", "pair"}

Init ==
    /\ kv = [k \in {} |-> 0]
    /\ queue = <<>> /\ calls = 0
    /\ raced = {} /\ moved = {} /\ acked = {}
    /\ latest = [k \in {} |-> 0]
    /\ \E o \in Owners, l \in Links :
          reader = [index |-> EventIndex(o, l), pc |-> "idle", cursor |-> <<>>,
                    limit |-> 0, ids |-> <<>>, got |-> <<>>]

Start(r) ==
    LET seen    == Get(FirstKey(r))
        waiting == {queue[i] : i \in {j \in DOMAIN queue : Undecided(queue[j])}}
    IN
    /\ calls < MaxCalls
    /\ calls' = calls + 1
    /\ queue' = Append(queue, [req |-> r, by |-> calls + 1, pc |-> "read", seen |-> seen])
    /\ raced' = raced \cup UNION {Touched(r, seen) \cap Touched(c.req, c.seen) : c \in waiting}
    /\ UNCHANGED <<kv, latest, moved, acked, reader>>

cur == Head(queue)
req == cur.req

\* The call at the head of the queue, of operation op, resumes from await pc.
Resume(op, pc) == queue # <<>> /\ req.op = op /\ cur.pc = pc

\* The call awaits again, or ends.
Await(pc, seen) ==
    /\ queue' = Append(Tail(queue), [cur EXCEPT !.pc = pc, !.seen = seen])
    /\ UNCHANGED calls

Return == queue' = Tail(queue) /\ UNCHANGED calls

\* A call that throws, or finds nothing to do, has written nothing.
End(op, pc) == Resume(op, pc) /\ Return /\ UNCHANGED <<kv, ghosts, reader>>

----------------------------------------------------------------------------
(* Peer links.                                                             *)

LinkRecord(version) ==
    [peer |-> req.peer, version |-> version, by |-> cur.by]

CreateLinkRead ==
    /\ Resume("createLink", "read") /\ cur.seen = <<>>
    /\ Await("pair", Get(Pair(req.owner, req.peer)))
    /\ UNCHANGED <<kv, ghosts, reader>>

\* Mutant: create does not look at the pair index.
PairFreeAlways == TRUE

PairFree == cur.seen \in {<<>>, <<req.link>>}

CreateLinkWrite ==
    /\ Resume("createLink", "pair") /\ PairFree
    /\ Set(Link(req.owner, req.link), LinkRecord(NormalizeVersion(req.version)))
    /\ Await("index", <<>>)
    /\ UNCHANGED <<ghosts, reader>>

\* update's checks of the expected version, for links and attempts.
MatchesVersion(seen) ==
    /\ seen # <<>>
    /\ req.expected >= 1
    /\ seen[1].version = req.expected

SamePair == cur.seen[1].peer = req.peer

UpdateLinkWrite ==
    /\ Resume("updateLink", "read") /\ MatchesVersion(cur.seen) /\ SamePair
    /\ Set(Link(req.owner, req.link), LinkRecord(cur.seen[1].version + 1))
    /\ Await("index", <<>>)
    /\ UNCHANGED <<ghosts, reader>>

LinkIndexWrite ==
    /\ \E op \in {"createLink", "updateLink"} : Resume(op, "index")
    /\ Set(Pair(req.owner, req.peer), req.link)
    /\ Return
    /\ UNCHANGED <<ghosts, reader>>

LinkRejected ==
    \/ End("createLink", "read") /\ cur.seen # <<>>
    \/ End("createLink", "pair") /\ ~PairFree
    \/ End("updateLink", "read") /\ ~(MatchesVersion(cur.seen) /\ SamePair)

GetByPair(o, p) ==
    IF Pair(o, p) \in DOMAIN kv THEN Get(Link(o, kv[Pair(o, p)])) ELSE <<>>

ListByOwner(o) == {l \in Links : Link(o, l) \in DOMAIN kv}

----------------------------------------------------------------------------
(* Secure sessions.                                                        *)

\* Mutant: a put over a session keeps its version.
SessionVersionKept ==
    IF cur.seen # <<>> THEN cur.seen[1].version ELSE NormalizeVersion(req.version)

SessionVersion ==
    IF cur.seen # <<>> THEN cur.seen[1].version + 1 ELSE NormalizeVersion(req.version)

PutSessionWrite ==
    /\ Resume("putSession", "read")
    /\ Set(Session(req.owner, req.session),
           [link |-> req.link, status |-> req.status,
            version |-> SessionVersion, by |-> cur.by])
    /\ Await("index", <<>>)
    /\ UNCHANGED <<ghosts, reader>>

\* The indexes, other than i, that name the session.
IndexedElsewhere(o, s, i) ==
    \E l \in Links : SessionIndex(o, l) # i /\ Get(SessionIndex(o, l)) = <<s>>

\* The owner's indexes for which another session was put last.
LatestOthers == {j \in DOMAIN latest : ~(j[2] = req.owner /\ latest[j] = req.session)}

PutSessionIndex ==
    LET i == SessionIndex(req.owner, req.link) IN
    /\ Resume("putSession", "index")
    /\ Set(i, req.session)
    /\ latest' = [j \in LatestOthers \cup {i} |-> IF j = i THEN req.session ELSE latest[j]]
    /\ moved' = IF IndexedElsewhere(req.owner, req.session, i)
                THEN moved \cup {Session(req.owner, req.session)} ELSE moved
    /\ Return
    /\ UNCHANGED <<raced, acked, reader>>

DeleteSessionRecord ==
    LET k == Session(req.owner, req.session) IN
    /\ Resume("deleteSession", "read") /\ k \in DOMAIN kv
    /\ Delete(k)
    /\ latest' = [j \in LatestOthers |-> latest[j]]
    /\ IF cur.seen # <<>> THEN Await("deleted", cur.seen) ELSE Return
    /\ UNCHANGED <<raced, moved, acked, reader>>

DeleteSessionReadIndex ==
    /\ Resume("deleteSession", "deleted")
    /\ Await("index", <<cur.seen[1].link>> \o
                      Get(SessionIndex(req.owner, cur.seen[1].link)))
    /\ UNCHANGED <<kv, ghosts, reader>>

\* Mutant: the index entry goes whatever session it names.
IndexNamesAny == Len(cur.seen) = 2

\* The index entry goes only if it still named this session.
IndexNamesSession == Len(cur.seen) = 2 /\ cur.seen[2] = req.session

DeleteSessionIndex ==
    /\ Resume("deleteSession", "index") /\ IndexNamesSession
    /\ Delete(SessionIndex(req.owner, cur.seen[1]))
    /\ Return
    /\ UNCHANGED <<ghosts, reader>>

SessionEnded ==
    \/ /\ End("deleteSession", "read")
       /\ Session(req.owner, req.session) \notin DOMAIN kv
    \/ End("deleteSession", "index") /\ ~IndexNamesSession

GetByPeerLinkId(o, l) ==
    IF SessionIndex(o, l) \in DOMAIN kv
    THEN Get(Session(o, kv[SessionIndex(o, l)])) ELSE <<>>

----------------------------------------------------------------------------
(* Handshake attempts.                                                     *)

AttemptWrite(version) ==
    /\ Set(Attempt(req.owner, req.attempt),
           [link |-> req.link, status |-> req.status,
            version |-> version, by |-> cur.by])
    /\ Return
    /\ UNCHANGED <<ghosts, reader>>

CreateAttempt ==
    /\ Resume("createAttempt", "read") /\ cur.seen = <<>>
    /\ AttemptWrite(NormalizeVersion(req.version))

UpdateAttempt ==
    /\ Resume("updateAttempt", "read") /\ MatchesVersion(cur.seen)
    /\ AttemptWrite(cur.seen[1].version + 1)

AttemptRejected ==
    \/ End("createAttempt", "read") /\ cur.seen # <<>>
    \/ End("updateAttempt", "read") /\ ~MatchesVersion(cur.seen)

----------------------------------------------------------------------------
(* Listings: the keys of a prefix, then the record of each key, a turn each. *)

IsRecoverableStatus(status) == status # "ended"

IsPendingStatus(status) == status # "ended"

\* keys(prefix), over all owners.  The sessions' prefix is also a prefix of
\* the keys of their index.
Prefixed(r) ==
    LET kinds == IF r.of = "recoverable"
                 THEN {"sessions", "sessions:by-peer-link"} ELSE {"handshakes"}
    IN {k \in DOMAIN kv : k[1] \in kinds}

\* The value of an index key is a string, not a record.
IsRecord(k) == k \in DOMAIN kv /\ k \in RecordKeys

Recoverable(r, k) == k[2] = r.owner /\ IsRecoverableStatus(kv[k].status)

Pending(r, k) == k[2] = r.owner /\ IsPendingStatus(kv[k].status)

OfLink(r, k) == k[2] = r.owner /\ kv[k].link = r.link

Listed(r, k) ==
    /\ IsRecord(k)
    /\ CASE r.of = "recoverable" -> Recoverable(r, k)
         [] r.of = "pending"     -> Pending(r, k)
         [] r.of = "link"        -> OfLink(r, k)

\* The records that belong in the answer to r as the store stands.
Answer(r) == {<<k, kv[k]>> : k \in {j \in Prefixed(r) : Listed(r, j)}}

StartList(r) ==
    /\ calls < MaxCalls
    /\ calls' = calls + 1
    /\ queue' = Append(queue, [req |-> r, by |-> calls + 1, pc |-> "list",
                               seen |-> [todo |-> Prefixed(r), out |-> {},
                                         began |-> Answer(r)]])
    /\ UNCHANGED <<kv, ghosts, reader>>

\* Mutant: the listing stops at a key that holds no record of the owner.
ListedAfterBreak(k) ==
    [cur.seen EXCEPT !.todo = IF IsRecord(k) THEN @ \ {k} ELSE {},
                     !.out = @ \cup (IF Listed(req, k) THEN {<<k, kv[k]>>} ELSE {})]

ListedAfter(k) ==
    [cur.seen EXCEPT !.todo = @ \ {k},
                     !.out = @ \cup (IF Listed(req, k) THEN {<<k, kv[k]>>} ELSE {})]

ListRecord ==
    /\ Resume("list", "list")
    /\ \E k \in cur.seen.todo : Await("list", ListedAfter(k))
    /\ UNCHANGED <<kv, ghosts, reader>>

ListReturn == End("list", "list") /\ cur.seen.todo = {}

----------------------------------------------------------------------------
(* The event log of a link.                                                *)

AppendWrite ==
    /\ Resume("append", "read") /\ cur.seen = <<>>
    /\ Set(Event(req.owner, req.event), [link |-> req.link])
    /\ Await("written", <<>>)
    /\ UNCHANGED <<ghosts, reader>>

AppendReadIndex ==
    /\ Resume("append", "written")
    /\ Await("index", Get(EventIndex(req.owner, req.link)))
    /\ UNCHANGED <<kv, ghosts, reader>>

Acked == acked' = acked \cup {<<EventIndex(req.owner, req.link), req.event>>}

Push(ids, e) == Append(ids, e)

AppendIndex ==
    LET ids == IF cur.seen = <<>> THEN <<>> ELSE cur.seen[1] IN
    /\ Resume("append", "index")
    /\ Set(EventIndex(req.owner, req.link), Push(ids, req.event))
    /\ Acked
    /\ Return
    /\ UNCHANGED <<raced, latest, moved, reader>>

\* Mutant: an event of another link counts as a repeat.
IsRepeatOfAny == cur.seen # <<>>

\* The event is stored already, for the same link.
IsRepeat == cur.seen # <<>> /\ cur.seen[1].link = req.link

AppendRepeated ==
    /\ Resume("append", "read") /\ IsRepeat
    /\ Acked /\ Return
    /\ UNCHANGED <<kv, raced, latest, moved, reader>>

AppendRejected == End("append", "read") /\ cur.seen # <<>> /\ ~IsRepeat

EventIds(i) == IF i \in DOMAIN kv THEN kv[i] ELSE <<>>

\* Mutant: the cursor's own event is listed again.
PageStartInclusive(ids, cursor) ==
    IF cursor = <<>> \/ ~Contains(ids, cursor[1]) THEN 0
    ELSE SelectInSeq(ids, LAMBDA e : e = cursor[1]) - 1

\* Events listed before the page: all up to the cursor, none if it is unknown.
PageStart(ids, cursor) ==
    IF cursor = <<>> \/ ~Contains(ids, cursor[1]) THEN 0
    ELSE SelectInSeq(ids, LAMBDA e : e = cursor[1])

\* listByPeerLinkId: the index is read ...
PageBegin(limit) ==
    /\ reader.pc = "idle"
    /\ reader' = [reader EXCEPT !.pc = "page", !.limit = limit,
                                !.ids = EventIds(reader.index)]
    /\ UNCHANGED <<kv, queue, calls, ghosts>>

\* ... then the records of its window.  Event records are never deleted, so
\* it does not matter when each of them is read.
PageEnd ==
    LET start  == PageStart(reader.ids, reader.cursor)
        more   == reader.limit > 0 /\ start + reader.limit < Len(reader.ids)
        window == SubSeq(reader.ids, start + 1,
                         IF more THEN start + reader.limit ELSE Len(reader.ids))
    IN
    /\ reader.pc = "page"
    /\ reader' = [reader EXCEPT !.got = @ \o window,
                                !.ids = <<>>, !.limit = 0,
                                !.cursor = IF more THEN <<Last(window)>> ELSE <<>>,
                                !.pc = IF more THEN "idle" ELSE "done"]
    /\ UNCHANGED <<kv, queue, calls, ghosts>>

----------------------------------------------------------------------------
(* Key material: one store operation per call.                             *)

PutKey(k) ==
    /\ calls < MaxCalls /\ calls' = calls + 1
    /\ Set(k, calls + 1)
    /\ UNCHANGED <<queue, ghosts, reader>>

PutAccountIdentity(o) == PutKey(Identity(o))

PutInvitePreKey(o, i) == PutKey(InvitePreKey(o, i))

DeleteInvitePreKey(o, i) ==
    /\ InvitePreKey(o, i) \in DOMAIN kv
    /\ Delete(InvitePreKey(o, i))
    /\ UNCHANGED <<queue, calls, ghosts, reader>>

----------------------------------------------------------------------------

LinkTurn == CreateLinkRead \/ CreateLinkWrite \/ UpdateLinkWrite \/ LinkIndexWrite \/ LinkRejected

SessionTurn ==
    \/ PutSessionWrite \/ PutSessionIndex
    \/ DeleteSessionRecord \/ DeleteSessionReadIndex \/ DeleteSessionIndex \/ SessionEnded

AttemptTurn == CreateAttempt \/ UpdateAttempt \/ AttemptRejected

EventTurn == AppendWrite \/ AppendReadIndex \/ AppendIndex \/ AppendRepeated \/ AppendRejected

Turn ==
    /\ queue # <<>>
    /\ \/ LinkTurn \/ SessionTurn \/ AttemptTurn \/ EventTurn
       \/ ListRecord \/ ListReturn

Page == PageEnd \/ \E limit \in Limits : PageBegin(limit)

KeyCall(o) ==
    \/ PutAccountIdentity(o)
    \/ \E i \in Invites : PutInvitePreKey(o, i) \/ DeleteInvitePreKey(o, i)

Next ==
    \/ \E r \in Requests : Start(r)
    \/ \E r \in ListRequests : StartList(r)
    \/ Turn
    \/ Page
    \/ \E o \in Owners : KeyCall(o)

Spec == Init /\ [][Next]_vars

----------------------------------------------------------------------------
(* Properties.                                                             *)

\* Every key holds a value of its store, every suspended call waits at one of
\* the awaits of its method.
TypeOK ==
    /\ DOMAIN kv \subseteq RecordKeys
          \cup {Pair(o, p) : o \in Owners, p \in Peers}
          \cup {SessionIndex(o, l) : o \in Owners, l \in Links}
          \cup {Event(o, e) : o \in Owners, e \in Events}
          \cup {EventIndex(o, l) : o \in Owners, l \in Links}
          \cup {Identity(o) : o \in Owners}
          \cup {InvitePreKey(o, i) : o \in Owners, i \in Invites}
    /\ \A k \in DOMAIN kv \cap RecordKeys :
          kv[k].version \in Nat \ {0} /\ kv[k].by \in 1..MaxCalls
    /\ calls \in 0..MaxCalls /\ Len(queue) <= calls
    /\ \A i \in DOMAIN queue :
          \/ /\ queue[i].req \in Requests
             /\ queue[i].pc \in {"read", "pair", "index", "deleted", "written"}
          \/ queue[i].req \in ListRequests /\ queue[i].pc = "list"

\* No call is suspended.
AtRest == queue = <<>>

\* getByPair finds every peer link an owner has, so no two of them are for one
\* pair (KeyValuePeerLinkStore.create, update), unless two creates for the
\* pair were started before either had written.
LinksFound ==
    AtRest => \A o \in Owners : \A l \in ListByOwner(o) :
        LET r == kv[Link(o, l)] IN
        Pair(o, r.peer) \notin raced => GetByPair(o, r.peer) = <<r>>

\* getByPeerLinkId answers with the session last put for the link and not
\* deleted since, and with nothing if there is none, whatever puts and deletes
\* of other sessions of the link overlapped (KeyValueSecureSessionStore.put,
\* delete).  Not so if two calls on the link were started in one turn, or if
\* the link has none and its index names a session that was put for two links.
SessionsFound ==
    AtRest => \A o \in Owners, l \in Links :
        LET i == SessionIndex(o, l) IN
        (/\ i \notin raced
         /\ i \in DOMAIN kv \ DOMAIN latest => Session(o, kv[i]) \notin moved)
            => GetByPeerLinkId(o, l) =
                  IF i \in DOMAIN latest THEN Get(Session(o, latest[i])) ELSE <<>>

\* Every id in an event index names a stored event of that link, at every
\* moment and however appends overlap (KeyValuePeerLinkEventStore.append
\* stores the event before the index); of some link, if appends of the same
\* id were started in one turn.
IndexBacked ==
    \A o \in Owners, l \in Links : \A n \in DOMAIN EventIds(EventIndex(o, l)) :
        LET e == EventIds(EventIndex(o, l))[n] IN
        /\ Event(o, e) \in DOMAIN kv
        /\ kv[Event(o, e)].link = l \/ Event(o, e) \in raced

\* An event whose append returned is in the index exactly once, repeated and
\* overlapping appends included, unless two appends to the link were started
\* in one turn.
AckedListed ==
    AtRest => \A a \in acked :
        a[1] \notin raced =>
            Cardinality({n \in DOMAIN EventIds(a[1]) : EventIds(a[1])[n] = a[2]}) = 1

\* The log and its index agree: the index names stored events only, and every
\* event that was acknowledged.
LogSound == TypeOK /\ IndexBacked /\ AckedListed

\* What a client has read page by page is the start of the index: nothing
\* skipped and nothing twice while appends go on
\* (KeyValuePeerLinkEventStore.listByPeerLinkId).
PagesExact ==
    reader.index \notin raced => IsPrefix(reader.got, EventIds(reader.index))

\* A listing about to return holds every record that belonged in its answer
\* when it began and has not been written since, whatever was put, deleted and
\* closed between its turns; what it holds and is still stored as it was read
\* belongs in the answer now (listRecoverable, listPending, listByPeerLinkId).
ListsSteady ==
    \A i \in DOMAIN queue :
        (queue[i].pc = "list" /\ queue[i].seen.todo = {}) =>
            LET c      == queue[i]
                stored == {<<k, kv[k]>> : k \in DOMAIN kv}
            IN /\ c.seen.began \cap stored \subseteq c.seen.out
               /\ c.seen.out \cap stored \subseteq Answer(c.req)

\* The records of links, sessions and attempts are those of an atomic versioned
\* store: no write that was started in a turn of its own is lost.
Versioned == INSTANCE VersionedStore WITH
    Keys <- RecordKeys,
    recs <- [k \in DOMAIN kv \cap RecordKeys |-> kv[k]],
    contested <- raced \cap RecordKeys

ImplementsVersionedStore == Versioned!Spec
=============================================================================
