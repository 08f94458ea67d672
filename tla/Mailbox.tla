------------------------------ MODULE Mailbox ------------------------------
(***************************************************************************)
(* One mailbox of RMailbox with both caps configured: deposit, list, fetch, *)
(* ack and waitForDeposit over a persistent data store, with the in-memory  *)
(* item count, the byte total and its persisted copy, and an onDeposit      *)
(* callback.                                                               *)
(*                                                                         *)
(* Every store operation is awaited.  A call is a sequence of steps between *)
(* awaits: what it read may be out of date when it goes on, a crash may     *)
(* fall between any two steps, and a store operation may reject, which ends *)
(* the call where it is.  Slots bounds the deposit and ack calls in         *)
(* progress at a time; a single slot is a caller that waits for each call.  *)
(*                                                                         *)
(* Event ids are the order of their assignment: the clock and the counter   *)
(* in them only grow, and a restart takes longer than a clock tick.         *)
(***************************************************************************)
EXTENDS Integers, Sequences, FiniteSets, FiniteSetsExt

CONSTANTS
    Slots,        \* deposit and ack calls in progress at a time
    Sizes,        \* sizes of the records deposited
    MaxItems,     \* maxItems option
    MaxBytes,     \* maxBytes option
    PageLimit,    \* limit of one list call (200 when the count is seeded)
    MaxDeposits,  \* bound: deposits begun
    MaxCrashes,   \* bound: crashes
    MaxRejects    \* bound: store operations that reject

ASSUME SlotsAssumption == Slots # {} /\ IsFiniteSet(Slots)
ASSUME SizesAssumption == Sizes \subseteq Nat \ {0}
ASSUME CapsAssumption == MaxItems \in Nat \ {0} /\ MaxBytes \in Nat \ {0}
ASSUME PageAssumption == PageLimit \in Nat \ {0}
ASSUME BoundsAssumption ==
    MaxDeposits \in Nat /\ MaxCrashes \in Nat /\ MaxRejects \in Nat

VARIABLES
    events,   \* store: the records under mbox/<id>/evt/
    bytesz,   \* store: the record mbox/<id>/bytesz, 0 if there is none
    count,    \* memory: #countByMailbox, or Unset
    bytes,    \* memory: #bytesByMailbox, or Unset
    call,     \* call[s]: the deposit or ack in progress in slot s
    lastId,   \* the last event id assigned
    reader,   \* a client that pages through list and waits when it is at the end
    onDeposit, \* whether a callback is set
    timers,   \* ids of the onDeposit callbacks that are due
    untold,   \* ghost: ids stored by this process and not announced yet
    silent,   \* ghost: ids whose deposit ended without scheduling a callback
    uncounted, \* ghost: records gone that the count in memory still has
    deposits, \* number of deposits begun
    crashes,  \* number of crashes
    rejects   \* number of store operations that rejected

store == <<events, bytesz>>
memory == <<count, bytes>>
live == <<onDeposit, timers, untold, silent, uncounted>>
bounds == <<deposits, crashes, rejects>>
vars == <<store, memory, call, lastId, reader, live, bounds>>

Unset == -1

Event == [id : Nat \ {0}, size : Sizes]

Idle == [pc |-> "idle"]

\* 0 stands for the absent cursor: no event has that id.
NoCursor == 0

Init ==
    /\ events = {} /\ bytesz = 0
    /\ count = Unset /\ bytes = Unset
    /\ call = [s \in Slots |-> Idle]
    /\ lastId = 0
    /\ reader = [pc |-> "list", cursor |-> NoCursor, seen |-> {}]
    /\ onDeposit = FALSE /\ timers = {}
    /\ untold = {} /\ silent = {} /\ uncounted = 0
    /\ deposits = 0 /\ crashes = 0 /\ rejects = 0

----------------------------------------------------------------------------
(* The data store's list: a cursor that names no key is ignored.           *)

Ids(evts) == {e.id : e \in evts}

From(evts, cursor) ==
    IF cursor \in Ids(evts) THEN {e \in evts : e.id > cursor} ELSE evts

Earlier(evts, e) == {d \in evts : d.id < e.id}

\* The first PageLimit keys after the cursor, and the cursor of the next page.
List(evts, cursor) ==
    LET rest  == From(evts, cursor)
        items == {e \in rest : Cardinality(Earlier(rest, e)) < PageLimit}
    IN [items |-> items,
        nextCursor |-> IF items = rest THEN NoCursor ELSE Max(Ids(items))]

Size(evts) == MapThenSumSet(LAMBDA e : e.size, evts)

----------------------------------------------------------------------------
(* The record registry: wire types are hydrated from network bytes, app     *)
(* types are constructed in code.  A type is a content type here.          *)

OuterPacketRecord == "rez.outer"
AppDepositRecord == "rez.app.deposit"

\* A type that is registered already is refused.
register(reg, type) ==
    IF type \in reg.all THEN reg
    ELSE [probeOrder |-> Append(reg.probeOrder, type), all |-> reg.all \cup {type}]

registerAppType(reg, type) ==
    IF type \in reg.all THEN reg ELSE [reg EXCEPT !.all = @ \cup {type}]

createDefaultRegistry ==
    registerAppType(register([probeOrder |-> <<>>, all |-> {}], OuterPacketRecord),
                    AppDepositRecord)

isAllowedContentType(type) == type \in createDefaultRegistry.all

\* The packet version of OuterPacket.
Version == 2

probe(type, packet) == type = OuterPacketRecord /\ packet.version = Version

\* The record of the first type that recognises the bytes, if there is one.
hydrateFromWire(packet) ==
    LET order   == createDefaultRegistry.probeOrder
        matches == {i \in DOMAIN order : probe(order[i], packet)}
    IN {[contentType |-> order[i], size |-> packet.size] :
           i \in {i \in matches : \A j \in matches : i <= j}}

\* What callers hand to deposit and to depositFromWire.
Records == [contentType : {OuterPacketRecord, AppDepositRecord, "other"}, size : Sizes]
WireBytes == [version : {1, Version}, size : Sizes]

----------------------------------------------------------------------------
(* deposit.                                                                *)

\* The record is checked; then the count is read, or a scan that seeds it
\* begins.
DepositBegin(s, record) ==
    LET size == record.size IN
    /\ call[s] = Idle /\ deposits < MaxDeposits
    /\ isAllowedContentType(record.contentType)
    /\ deposits' = deposits + 1
    /\ call' = [call EXCEPT ![s] =
                   IF count # Unset
                   THEN [pc |-> "items", size |-> size, seen |-> count]
                   ELSE [pc |-> "scan", size |-> size, cursor |-> NoCursor, acc |-> 0]]
    /\ UNCHANGED <<store, memory, lastId, reader, crashes, rejects, live>>

DepositFromWire(s, packet) ==
    \E record \in hydrateFromWire(packet) : DepositBegin(s, record)

\* One page of the scan.
SeedPage(s) ==
    LET c    == call[s]
        page == List(events, c.cursor)
        acc  == c.acc + Cardinality(page.items)
    IN
    /\ c.pc = "scan"
    /\ call' = [call EXCEPT ![s] =
                   IF page.nextCursor # NoCursor
                   THEN [pc |-> "scan", size |-> c.size,
                         cursor |-> page.nextCursor, acc |-> acc]
                   ELSE [pc |-> "scanned", size |-> c.size, acc |-> acc]]
    /\ UNCHANGED <<store, memory, lastId, reader, bounds, live>>

SeedCount(s) ==
    LET c == call[s] IN
    /\ c.pc = "scanned"
    /\ count' = c.acc
    /\ call' = [call EXCEPT ![s] = [pc |-> "items", size |-> c.size, seen |-> c.acc]]
    /\ UNCHANGED <<store, bytes, lastId, reader, bounds, live>>

ItemsFull(seen) == seen >= MaxItems

BytesFull(used, size) == used + size > MaxBytes

\* The item cap is checked with the count that was read; then the byte total
\* is read, or its seeding begins.
CheckItems(s) ==
    LET c == call[s] IN
    /\ c.pc = "items"
    /\ \/ /\ ItemsFull(c.seen)
          /\ call' = [call EXCEPT ![s] = Idle]
       \/ /\ ~ItemsFull(c.seen) /\ bytes # Unset
          /\ call' = [call EXCEPT ![s] =
                         [pc |-> "bytes", size |-> c.size, used |-> bytes]]
       \/ /\ ~ItemsFull(c.seen) /\ bytes = Unset
          /\ call' = [call EXCEPT ![s] =
                         [pc |-> "read", size |-> c.size, then |-> "bytes"]]
    /\ UNCHANGED <<store, memory, lastId, reader, bounds, live>>

\* ensureBytes reads the persisted total ...
ReadBytes(s) ==
    LET c == call[s] IN
    /\ c.pc = "read"
    /\ call' = [call EXCEPT ![s] =
                   [pc |-> "seed", size |-> c.size, then |-> c.then, total |-> bytesz]]
    /\ UNCHANGED <<store, memory, lastId, reader, bounds, live>>

\* ... and sets the total in memory.
SeedBytes(s) ==
    LET c == call[s] IN
    /\ c.pc = "seed"
    /\ bytes' = c.total
    /\ call' = [call EXCEPT ![s] = [pc |-> c.then, size |-> c.size, used |-> c.total]]
    /\ UNCHANGED <<store, count, lastId, reader, bounds, live>>

NextEventId == lastId + 1

\* The byte cap is checked with the total that was read; the event gets its id.
CheckBytes(s) ==
    LET c == call[s] IN
    /\ c.pc = "bytes"
    /\ \/ /\ BytesFull(c.used, c.size)
          /\ call' = [call EXCEPT ![s] = Idle]
          /\ UNCHANGED lastId
       \/ /\ ~BytesFull(c.used, c.size)
          /\ lastId' = NextEventId
          /\ call' = [call EXCEPT ![s] =
                         [pc |-> "put", size |-> c.size, id |-> NextEventId]]
    /\ UNCHANGED <<store, memory, reader, bounds, live>>

Put(s) ==
    LET c == call[s] IN
    /\ c.pc = "put"
    /\ events' = events \cup {[id |-> c.id, size |-> c.size]}
    /\ call' = [call EXCEPT ![s].pc = "stored"]
    /\ untold' = untold \cup {c.id}
    /\ UNCHANGED <<bytesz, memory, lastId, reader, onDeposit, timers, silent,
                   uncounted, bounds>>

OrZero(n) == IF n = Unset THEN 0 ELSE n

\* Mutant: the count is not maintained on deposit.
CountDepositNot(s) ==
    LET c == call[s] IN
    /\ c.pc = "stored"
    /\ bytes' = OrZero(bytes) + c.size
    /\ call' = [call EXCEPT ![s] = [pc |-> "persist", total |-> OrZero(bytes) + c.size,
                                    id |-> c.id]]
    /\ UNCHANGED <<store, count, lastId, reader, bounds, live>>

CountDeposit(s) ==
    LET c == call[s] IN
    /\ c.pc = "stored"
    /\ count' = OrZero(count) + 1
    /\ bytes' = OrZero(bytes) + c.size
    /\ call' = [call EXCEPT ![s] = [pc |-> "persist", total |-> OrZero(bytes) + c.size,
                                    id |-> c.id]]
    /\ UNCHANGED <<store, lastId, reader, bounds, live>>

\* #notifyWaiters: a client that waits for an event after its cursor resumes.
Notified(id) ==
    IF reader.pc = "waiting" /\ id > reader.cursor
    THEN [reader EXCEPT !.pc = "list"] ELSE reader

\* Mutant: the callback is left out when a waiter took the event.
ScheduledUnlessWaiting(id) ==
    IF id # 0 /\ onDeposit /\ reader.pc # "waiting" THEN timers \cup {id} ELSE timers

\* The onDeposit callback, if one is set, is deferred to a later macrotask.
Scheduled(id) == IF id # 0 /\ onDeposit THEN timers \cup {id} ELSE timers

\* persistBytes; a deposit then notifies the waiters, defers the callback and
\* returns, an ack (id 0) only returns.
Persist(s) ==
    LET c == call[s] IN
    /\ c.pc = "persist"
    /\ bytesz' = c.total
    /\ reader' = Notified(c.id)
    /\ timers' = Scheduled(c.id)
    /\ silent' = IF onDeposit THEN silent ELSE silent \cup {c.id}
    /\ call' = [call EXCEPT ![s] = Idle]
    /\ UNCHANGED <<events, memory, lastId, onDeposit, untold, uncounted, bounds>>

----------------------------------------------------------------------------
(* ack.                                                                    *)

AckBegin(s, e) ==
    /\ call[s] = Idle
    /\ call' = [call EXCEPT ![s] = [pc |-> "remove", size |-> e.size, id |-> e.id]]
    /\ UNCHANGED <<store, memory, lastId, reader, bounds, live>>

\* Removal of an event that is gone returns at once.
AckRemove(s) ==
    LET c == call[s]
        e == [id |-> c.id, size |-> c.size]
    IN
    /\ c.pc = "remove"
    /\ \/ /\ e \in events
          /\ events' = events \ {e}
          /\ call' = [call EXCEPT ![s] = [pc |-> "removed", size |-> c.size]]
       \/ /\ e \notin events
          /\ call' = [call EXCEPT ![s] = Idle]
          /\ UNCHANGED events
    /\ UNCHANGED <<bytesz, memory, lastId, reader, bounds, live>>

CountAck(s) ==
    LET c == call[s] IN
    /\ c.pc = "removed"
    /\ count' = IF count = Unset THEN Unset ELSE Max({count - 1, 0})
    /\ call' = [call EXCEPT ![s] =
                   IF bytes # Unset
                   THEN [pc |-> "release", size |-> c.size, used |-> bytes]
                   ELSE [pc |-> "read", size |-> c.size, then |-> "release"]]
    /\ UNCHANGED <<store, bytes, lastId, reader, bounds, live>>

\* The total in memory is set to what the ack computed from the value it read.
Release(s, total) ==
    LET c == call[s] IN
    /\ c.pc = "release"
    /\ bytes' = total
    /\ call' = [call EXCEPT ![s] = [pc |-> "persist", total |-> total, id |-> 0]]
    /\ UNCHANGED <<store, count, lastId, reader, bounds, live>>

\* Mutant: an ack frees no bytes.
ReleaseNothing(s) == Release(s, call[s].used)

ReleaseBytes(s) == Release(s, Max({call[s].used - call[s].size, 0}))

----------------------------------------------------------------------------
(* Store operations that reject.                                           *)

\* The awaited operation rejects without effect and the call throws from
\* there: what it had done stays done, and what follows is not run.  A deposit
\* whose persistBytes rejects leaves its record stored and notifies nobody.
StoreRejects(s) ==
    LET c == call[s] IN
    /\ rejects < MaxRejects
    /\ c.pc \in {"scan", "read", "put", "remove", "persist"}
    /\ rejects' = rejects + 1
    /\ silent' = IF c.pc = "persist" THEN silent \cup {c.id} ELSE silent
    /\ call' = [call EXCEPT ![s] = Idle]
    /\ UNCHANGED <<store, memory, lastId, reader, onDeposit, timers, untold,
                   uncounted, deposits, crashes>>

\* The removal rejects after the record is gone (the store's pruning failed):
\* neither the count nor the byte total is lowered.
RemoveRejects(s) ==
    LET c == call[s]
        e == [id |-> c.id, size |-> c.size]
    IN
    /\ rejects < MaxRejects
    /\ c.pc = "remove" /\ e \in events
    /\ rejects' = rejects + 1
    /\ events' = events \ {e}
    /\ uncounted' = IF count = Unset THEN 0 ELSE uncounted + 1
    /\ call' = [call EXCEPT ![s] = Idle]
    /\ UNCHANGED <<bytesz, memory, lastId, reader, onDeposit, timers, untold,
                   silent, deposits, crashes>>

----------------------------------------------------------------------------
(* Clients and crashes.                                                    *)

\* A client reads the page after its cursor and remembers the last id of it.
ReadPage ==
    LET page == List(events, reader.cursor) IN
    /\ reader.pc = "list" /\ page.items # {}
    /\ reader' = [pc |-> "list", cursor |-> Max(Ids(page.items)),
                  seen |-> reader.seen \cup Ids(page.items)]
    /\ UNCHANGED <<store, memory, call, lastId, bounds, live>>

ReadEmpty ==
    /\ reader.pc = "list" /\ List(events, reader.cursor).items = {}
    /\ reader' = [reader EXCEPT !.pc = "empty"]
    /\ UNCHANGED <<store, memory, call, lastId, bounds, live>>

\* The page was empty; a deposit may have come in between.
WaitForDeposit ==
    /\ reader.pc = "empty"
    /\ reader' = [reader EXCEPT !.pc = "waiting"]
    /\ UNCHANGED <<store, memory, call, lastId, bounds, live>>

\* Mutant: the timer fires and leaves the client waiting.
WaitTimeoutLost == reader.pc = "waiting" /\ UNCHANGED vars

WaitTimeout ==
    /\ reader.pc = "waiting"
    /\ reader' = [reader EXCEPT !.pc = "list"]
    /\ UNCHANGED <<store, memory, call, lastId, bounds, live>>

\* The deferred callback: a throw is logged and changes nothing here.
OnDeposit(id) ==
    /\ id \in timers
    /\ timers' = timers \ {id}
    /\ untold' = untold \ {id}
    /\ UNCHANGED <<store, memory, call, lastId, reader, onDeposit, silent,
                   uncounted, bounds>>

SetOnDeposit(fn) ==
    /\ onDeposit' = fn
    /\ UNCHANGED <<store, memory, call, lastId, reader, timers, untold, silent,
                   uncounted, bounds>>

\* The waiters are promises of the process: their clients list again.
Crash ==
    /\ crashes < MaxCrashes
    /\ crashes' = crashes + 1
    /\ count' = Unset /\ bytes' = Unset
    /\ call' = [s \in Slots |-> Idle]
    /\ reader' = [reader EXCEPT !.pc = "list"]
    /\ onDeposit' = FALSE /\ timers' = {} /\ untold' = {} /\ uncounted' = 0
    /\ UNCHANGED <<store, lastId, silent, deposits, rejects>>

CallStep(s) ==
    \/ SeedPage(s) \/ SeedCount(s) \/ CheckItems(s)
    \/ ReadBytes(s) \/ SeedBytes(s) \/ CheckBytes(s)
    \/ Put(s) \/ CountDeposit(s) \/ Persist(s)
    \/ AckRemove(s) \/ CountAck(s) \/ ReleaseBytes(s)

Next ==
    \/ \E s \in Slots :
          \/ \E record \in Records : DepositBegin(s, record)
          \/ \E packet \in WireBytes : DepositFromWire(s, packet)
          \/ \E e \in events : AckBegin(s, e)
          \/ CallStep(s)
          \/ StoreRejects(s) \/ RemoveRejects(s)
    \/ \E fn \in BOOLEAN : SetOnDeposit(fn)
    \/ ReadPage \/ ReadEmpty \/ WaitForDeposit \/ WaitTimeout
    \/ \E id \in timers : OnDeposit(id)
    \/ Crash

Spec == Init /\ [][Next]_vars

----------------------------------------------------------------------------
(* Properties.                                                             *)

Call ==
    {Idle}
    \cup [pc : {"items"}, size : Sizes, seen : Nat]
    \cup [pc : {"scan"}, size : Sizes, cursor : Nat, acc : Nat]
    \cup [pc : {"scanned"}, size : Sizes, acc : Nat]
    \cup [pc : {"read"}, size : Sizes, then : {"bytes", "release"}]
    \cup [pc : {"seed"}, size : Sizes, then : {"bytes", "release"}, total : Nat]
    \cup [pc : {"bytes", "release"}, size : Sizes, used : Nat]
    \cup [pc : {"put", "stored", "remove"}, size : Sizes, id : Nat \ {0}]
    \cup [pc : {"removed"}, size : Sizes]
    \cup [pc : {"persist"}, total : Nat, id : Nat]

\* Every variable stays within its type; in particular the counters never go
\* below zero.
TypeOK ==
    /\ events \subseteq Event /\ bytesz \in Nat
    /\ count \in Nat \cup {Unset} /\ bytes \in Nat \cup {Unset}
    /\ call \in [Slots -> Call]
    /\ lastId \in Nat
    /\ reader \in [pc : {"list", "empty", "waiting"}, cursor : Nat, seen : SUBSET Nat]
    /\ onDeposit \in BOOLEAN /\ timers \subseteq Nat \ {0}
    /\ untold \subseteq Nat \ {0} /\ silent \subseteq Nat /\ uncounted \in Nat
    /\ deposits \in Nat /\ crashes \in Nat /\ rejects \in Nat

Quiet == \A s \in Slots : call[s] = Idle

\* With calls that do not overlap, the mailbox never holds more than maxItems
\* records, whatever crashes, restarts and rejected operations happen.
ItemCap == Cardinality(events) <= MaxItems

\* With calls that do not overlap, the count in memory is the number of records
\* whenever no call is in progress: the scan after a restart and the increments
\* agree with the store, but for the removals since the scan that rejected
\* after the record was gone.
CountExact == Quiet /\ count # Unset => count = Cardinality(events) + uncounted

\* With calls that do not overlap, the mailbox is within its item cap and knows
\* how many records it has.
Counted == TypeOK /\ ItemCap /\ CountExact

MaxSize == Max(Sizes)

Total == IF bytes # Unset THEN bytes ELSE bytesz

\* With calls that do not overlap, the byte total differs from the bytes stored
\* by at most one record per crash (the crash fell between the put or remove
\* and persistBytes) and per rejected operation.
ByteDrift ==
    Quiet => /\ Total <= Size(events) + (crashes + rejects) * MaxSize
             /\ Size(events) <= Total + (crashes + rejects) * MaxSize

\* "a count that survived a restart is not undercounted" (#ensureCount).
NotUndercounted == Quiet /\ count # Unset => count >= Cardinality(events)

----------------------------------------------------------------------------
(* Liveness: a call that has begun goes on, a client keeps reading, and the *)
(* timers fire.                                                            *)

Fairness ==
    /\ \A s \in Slots : WF_vars(CallStep(s))
    /\ WF_vars(ReadPage) /\ WF_vars(ReadEmpty)
    /\ WF_vars(WaitForDeposit) /\ WF_vars(WaitTimeout)
    /\ WF_vars(\E id \in timers : OnDeposit(id))

FairSpec == Spec /\ Fairness

\* Every record is eventually seen by the client unless it was acknowledged
\* before, although the deposit may fall between the client's empty page and
\* its waitForDeposit, where nobody is notified.
EventuallySeen ==
    \A i \in 1 .. MaxDeposits :
        i \in Ids(events) ~> (i \in reader.seen \/ i \notin Ids(events))

\* Every record a process stores it also announces to the onDeposit callback,
\* unless it crashes first, no callback is set when the deposit is done, or the
\* deposit throws because persistBytes rejects: then only listing finds the
\* record.
EventuallyTold ==
    \A i \in 1 .. MaxDeposits : i \in untold ~> (i \notin untold \/ i \in silent)
=============================================================================
