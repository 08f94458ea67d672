--------------------------- MODULE MailboxProofs ---------------------------
(***************************************************************************)
(* A mailbox whose calls do not overlap, for any caps, sizes, page limit,   *)
(* deposits, acknowledgements, crashes and rejected store operations: it    *)
(* never exceeds its item cap, and whenever no call is in progress its      *)
(* count is exact but for the removals that rejected late, and its byte     *)
(* total is off by at most one record per crash and rejection.              *)
(***************************************************************************)
EXTENDS Mailbox, FiniteSetTheorems, WellFoundedInduction, TLAPS

Serial == \E s : Slots = {s}

UpTo(n) == {e \in events : e.id <= n}

EventsInv ==
    /\ IsFiniteSet(events)
    /\ Cardinality(events) <= MaxItems
    /\ \A e \in events : e.id <= lastId
    /\ \A e, d \in events : e.id = d.id => e = d

(* What the call c in progress knows of the store, at each of its steps. *)
CallSound(c) ==
    LET n == Cardinality(events)
        k == Cardinality(events) + uncounted
    IN
    /\ c.pc = "scan" => /\ count = Unset /\ c.cursor \in Ids(events) \cup {NoCursor}
                        /\ c.acc = Cardinality(UpTo(c.cursor))
    /\ c.pc = "scanned" => count = Unset /\ c.acc = n
    /\ c.pc = "items" => count = k /\ c.seen = k
    /\ c.pc \in {"read", "seed"} => \/ c.then = "bytes" /\ count = k /\ n < MaxItems
                                    \/ c.then = "release" /\ count \in {Unset, k}
    /\ c.pc = "bytes" => count = k /\ n < MaxItems
    /\ c.pc = "put" => /\ count = k /\ n < MaxItems
                       /\ c.id \notin Ids(events) /\ c.id <= lastId
    /\ c.pc = "stored" => count # Unset /\ count + 1 = k
    /\ c.pc = "removed" => count \in {Unset, k + 1}
    /\ c.pc \in {"idle", "persist", "remove", "release"} => count \in {Unset, k}

(* A count that is to be seeded owes nothing to the removals before. *)
SeedsClean == count = Unset => uncounted = 0

MailboxInv == TypeOK /\ EventsInv /\ SeedsClean /\ \A s \in Slots : CallSound(call[s])

-----------------------------------------------------------------------------
(* Numbers, sets and pages.                                                *)

Less == {x \in Nat \X Nat : x[1] < x[2]}

LEMMA Least ==
    ASSUME NEW S \in SUBSET Nat, S # {}
    PROVE  \E m \in S : \A x \in S : m <= x
  <1>1. OpToRel(<, Nat) = Less
    BY Zenon DEF OpToRel, Less
  <1>2. IsWellFoundedOn(Less, Nat)
    BY <1>1, NatLessThanWellFounded, Zenon
  <1>3. \E m \in S : \A y \in S : ~(<<y, m>> \in Less)
    BY <1>2, WFMin, Zenon
  <1>4. PICK m \in S : \A y \in S : ~(<<y, m>> \in Less)
    BY <1>3
  <1>5. \A x, y \in Nat : x < y => <<x, y>> \in Less
    BY DEF Less
  <1>6. ASSUME NEW x \in S PROVE m <= x
    <2>1. x \in Nat /\ m \in Nat
      OBVIOUS
    <2>2. ~(x < m)
      BY <1>4, <1>5, <2>1, Zenon
    <2> QED BY <2>1, <2>2
  <1> QED BY <1>6

(* A bounded set has its maximum: the least of its bounds is in it. *)
LEMMA MaxFacts ==
    ASSUME NEW S \in SUBSET (Nat \ {0}), S # {}, NEW n \in Nat, \A x \in S : x <= n
    PROVE  Max(S) \in S /\ \A y \in S : y <= Max(S)
  <1>1. PICK B : B = {b \in Nat : \A x \in S : x <= b}
    OBVIOUS
  <1>2. B \in SUBSET Nat /\ B # {}
    BY <1>1
  <1>3. PICK m \in B : \A b \in B : m <= b
    BY <1>2, Least
  <1>4. m \in S
    <2> SUFFICES ASSUME m \notin S PROVE FALSE
      OBVIOUS
    <2>1. m \in Nat /\ \A x \in S : x <= m /\ x \in Nat /\ x # 0
      BY <1>1
    <2>2. m # 0
      <3>1. PICK x \in S : TRUE
        OBVIOUS
      <3>2. x \in Nat /\ x # 0 /\ x <= m
        BY <2>1, <3>1
      <3> QED BY <2>1, <3>2
    <2>3. m - 1 \in B
      BY <1>1, <2>1, <2>2
    <2> QED BY <1>3, <2>1, <2>3
  <1>5. \A y \in S : m >= y
    BY <1>1, <1>4
  <1>6. Max(S) \in S /\ \A y \in S : Max(S) >= y
    BY <1>4, <1>5 DEF Max
  <1> QED BY <1>6

LEMMA EventFacts ==
    ASSUME TypeOK
    PROVE  \A e \in events : e.id \in Nat \ {0} /\ e.size \in Sizes
  BY DEF TypeOK, Event

LEMMA IdsFacts ==
    ASSUME TypeOK, EventsInv, NEW S \in SUBSET events, S # {}
    PROVE  Max(Ids(S)) \in Ids(S) /\ \A e \in S : e.id <= Max(Ids(S))
  <1>1. Ids(S) \in SUBSET (Nat \ {0}) /\ Ids(S) # {}
    BY EventFacts DEF Ids
  <1>2. lastId \in Nat /\ \A x \in Ids(S) : x <= lastId
    BY DEF Ids, EventsInv, TypeOK
  <1>3. Max(Ids(S)) \in Ids(S) /\ \A x \in Ids(S) : x <= Max(Ids(S))
    BY <1>1, <1>2, MaxFacts
  <1> QED BY <1>3 DEF Ids

LEMMA CountsFacts ==
    ASSUME EventsInv, NEW S \in SUBSET events
    PROVE  IsFiniteSet(S) /\ Cardinality(S) \in Nat
  BY FS_Subset, FS_CardinalityType DEF EventsInv

LEMMA DisjointCount ==
    ASSUME NEW S, NEW T, IsFiniteSet(S), IsFiniteSet(T), S \cap T = {}
    PROVE  Cardinality(S \cup T) = Cardinality(S) + Cardinality(T)
  <1>1. Cardinality(S \cup T) = Cardinality(S) + Cardinality(T) - Cardinality(S \cap T)
    BY FS_Union
  <1>2. Cardinality(S \cap T) = 0
    BY FS_EmptySet
  <1>3. Cardinality(S) \in Nat /\ Cardinality(T) \in Nat
    BY FS_CardinalityType
  <1> QED BY <1>1, <1>2, <1>3

(* The cursor is the last event counted: what list goes on with is the rest. *)
LEMMA RestFacts ==
    ASSUME TypeOK, NEW cursor \in Ids(events) \cup {NoCursor}
    PROVE  /\ cursor \in Nat
           /\ From(events, cursor) = {e \in events : e.id > cursor}
           /\ events = UpTo(cursor) \cup From(events, cursor)
           /\ UpTo(cursor) \cap From(events, cursor) = {}
  <1>1. cursor \in Nat
    BY EventFacts DEF Ids, NoCursor
  <1>2. From(events, cursor) = {e \in events : e.id > cursor}
    <2>1. CASE cursor \in Ids(events)
      BY <2>1 DEF From
    <2>2. CASE cursor = 0 /\ cursor \notin Ids(events)
      BY <2>2, EventFacts DEF From
    <2> QED BY <2>1, <2>2 DEF NoCursor
  <1> QED BY <1>1, <1>2, EventFacts DEF UpTo

(* A page of the scan adds exactly the events up to its last one. *)
LEMMA PageFacts ==
    ASSUME TypeOK, EventsInv, NEW cursor \in Ids(events) \cup {NoCursor},
           NEW page, page = List(events, cursor)
    PROVE  /\ page.items \subseteq events
           /\ page.nextCursor = NoCursor =>
                 Cardinality(UpTo(cursor)) + Cardinality(page.items) = Cardinality(events)
           /\ page.nextCursor # NoCursor =>
                 /\ page.nextCursor \in Ids(events)
                 /\ Cardinality(UpTo(cursor)) + Cardinality(page.items) =
                        Cardinality(UpTo(page.nextCursor))
  <1>1. PICK rest, items : /\ rest = From(events, cursor)
                           /\ items = {e \in rest : Cardinality(Earlier(rest, e)) < PageLimit}
    OBVIOUS
  <1>2. /\ page.items = items
        /\ page.nextCursor = IF items = rest THEN NoCursor ELSE Max(Ids(items))
    BY <1>1 DEF List
  <1>3. /\ cursor \in Nat /\ rest = {e \in events : e.id > cursor}
        /\ events = UpTo(cursor) \cup rest /\ UpTo(cursor) \cap rest = {}
    BY <1>1, RestFacts
  <1>4. items \subseteq events /\ items \subseteq rest /\ rest \subseteq events /\ UpTo(cursor) \subseteq events
    BY <1>1, <1>3 DEF UpTo
  <1>5. CASE items = rest
    <2>1. Cardinality(events) = Cardinality(UpTo(cursor)) + Cardinality(rest)
      BY <1>3, <1>4, CountsFacts, DisjointCount
    <2> QED BY <1>2, <1>4, <1>5, <2>1
  <1>6. CASE items # rest
    <2>1. items # {}
      <3>1. rest # {}
        BY <1>4, <1>6
      <3>2. Ids(rest) \in SUBSET Nat /\ Ids(rest) # {}
        BY <1>4, <3>1, EventFacts DEF Ids
      <3>3. PICK m \in Ids(rest) : \A x \in Ids(rest) : m <= x
        BY <3>2, Least
      <3>4. PICK e \in rest : e.id = m
        BY <3>3 DEF Ids
      <3>5. \A d \in rest : d.id \in Nat /\ e.id <= d.id /\ e.id \in Nat
        BY <1>4, <3>3, <3>4, EventFacts DEF Ids
      <3>6. Earlier(rest, e) = {}
        BY <3>5 DEF Earlier
      <3>7. Cardinality(Earlier(rest, e)) = 0
        BY <3>6, FS_EmptySet
      <3> QED BY <1>1, <3>7, PageAssumption
    <2>2. PICK m : m = Max(Ids(items))
      OBVIOUS
    <2>3. m \in Ids(items) /\ \A e \in items : e.id <= m
      BY <1>4, <2>1, <2>2, IdsFacts
    <2>4. PICK z \in items : z.id = m
      BY <2>3 DEF Ids
    <2>5. m \in Ids(events) /\ m \in Nat /\ m # NoCursor
      BY <1>4, <2>4, EventFacts DEF Ids, NoCursor
    <2>6. UpTo(m) = UpTo(cursor) \cup items
      <3>1. ASSUME NEW e \in events, e.id <= m, e \in rest
            PROVE  e \in items
        <4>1. e.id <= z.id /\ e.id \in Nat /\ z.id \in Nat /\ \A d \in rest : d.id \in Nat
          BY <1>4, <2>4, <3>1, EventFacts
        <4>2. Earlier(rest, e) \subseteq Earlier(rest, z)
          BY <4>1 DEF Earlier
        <4>3. /\ IsFiniteSet(Earlier(rest, z)) /\ Cardinality(Earlier(rest, z)) \in Nat
              /\ IsFiniteSet(Earlier(rest, e)) /\ Cardinality(Earlier(rest, e)) \in Nat
          BY <1>4, CountsFacts DEF Earlier
        <4>4. Cardinality(Earlier(rest, e)) <= Cardinality(Earlier(rest, z))
          BY <4>2, <4>3, FS_Subset
        <4>5. Cardinality(Earlier(rest, z)) < PageLimit
          BY <1>1
        <4>6. Cardinality(Earlier(rest, e)) < PageLimit
          BY <4>3, <4>4, <4>5, PageAssumption
        <4> QED BY <1>1, <3>1, <4>6
      <3>2. \A e \in items : e \in UpTo(m)
        BY <1>4, <2>3 DEF UpTo
      <3>3. \A e \in UpTo(cursor) : e \in UpTo(m)
        <4>1. cursor < m
          BY <1>3, <1>4, <2>4
        <4> QED BY <1>3, <2>5, <4>1, EventFacts DEF UpTo
      <3> QED BY <1>3, <3>1, <3>2, <3>3 DEF UpTo
    <2>7. Cardinality(UpTo(m)) = Cardinality(UpTo(cursor)) + Cardinality(items)
      BY <1>3, <1>4, <2>6, CountsFacts, DisjointCount
    <2> QED BY <1>2, <1>4, <1>6, <2>2, <2>5, <2>7
  <1> QED BY <1>5, <1>6

-----------------------------------------------------------------------------
(* Calls.                                                                  *)

LEMMA CallFacts ==
    ASSUME NEW c \in Call
    PROVE  /\ c.pc = "items" => c.size \in Sizes /\ c.seen \in Nat
           /\ c.pc = "scan" => c.size \in Sizes /\ c.cursor \in Nat /\ c.acc \in Nat
           /\ c.pc = "scanned" => c.size \in Sizes /\ c.acc \in Nat
           /\ c.pc = "read" => c.size \in Sizes /\ c.then \in {"bytes", "release"}
           /\ c.pc = "seed" => c.size \in Sizes /\ c.then \in {"bytes", "release"} /\ c.total \in Nat
           /\ c.pc \in {"bytes", "release"} => c.size \in Sizes /\ c.used \in Nat
           /\ c.pc \in {"put", "stored", "remove"} =>
                 /\ c.size \in Sizes /\ c.id \in Nat \ {0}
                 /\ c = [pc |-> c.pc, size |-> c.size, id |-> c.id]
           /\ c.pc = "removed" => c.size \in Sizes
           /\ c.pc = "persist" => c.total \in Nat /\ c.id \in Nat
  BY DEF Call, Idle

(* TypeOK but for the call. *)
RestTyped ==
    /\ events \subseteq Event /\ bytesz \in Nat
    /\ count \in Nat \cup {Unset} /\ bytes \in Nat \cup {Unset}
    /\ lastId \in Nat
    /\ reader \in [pc : {"list", "empty", "waiting"}, cursor : Nat, seen : SUBSET Nat]
    /\ onDeposit \in BOOLEAN /\ timers \subseteq Nat \ {0}
    /\ untold \subseteq Nat \ {0} /\ silent \subseteq Nat /\ uncounted \in Nat
    /\ deposits \in Nat /\ crashes \in Nat /\ rejects \in Nat

(* With one slot, the call's own step is all that happens to a call. *)
LEMMA CallSet ==
    ASSUME NEW s, Slots = {s}, MailboxInv, NEW c \in Call, call' = [call EXCEPT ![s] = c],
           RestTyped', EventsInv', SeedsClean', CallSound(c)'
    PROVE  MailboxInv'
  <1>1. call \in [Slots -> Call]
    BY DEF MailboxInv, TypeOK
  <1>2. call' \in [Slots -> Call] /\ call'[s] = c
    BY <1>1
  <1>3. TypeOK'
    BY <1>2 DEF TypeOK, RestTyped
  <1>4. CallSound(call[s])'
    BY <1>2 DEF CallSound, UpTo
  <1> QED BY <1>3, <1>4 DEF MailboxInv

LEMMA SerialFacts ==
    ASSUME NEW s, Slots = {s}, MailboxInv
    PROVE  /\ call[s] \in Call /\ CallSound(call[s]) /\ RestTyped
           /\ Cardinality(events) \in Nat /\ IsFiniteSet(events) /\ uncounted \in Nat
           /\ SeedsClean
  BY FS_CardinalityType DEF MailboxInv, TypeOK, RestTyped, EventsInv

(* A step that leaves the store, the count and lastId alone. *)
LEMMA SameEvents ==
    ASSUME EventsInv, UNCHANGED <<events, lastId>>
    PROVE  EventsInv' /\ Cardinality(events') = Cardinality(events) /\ Ids(events') = Ids(events)
  BY DEF EventsInv

LEMMA DepositStep ==
    ASSUME NEW s, Slots = {s}, MailboxInv, NEW record, record.size \in Sizes, DepositBegin(s, record)
    PROVE  MailboxInv'
  <1>1. /\ deposits' = deposits + 1 /\ call[s] = Idle
        /\ UNCHANGED <<store, memory, lastId, reader, crashes, rejects, live>>
    BY DEF DepositBegin
  <1>2. PICK c : c = IF count # Unset
                     THEN [pc |-> "items", size |-> record.size, seen |-> count]
                     ELSE [pc |-> "scan", size |-> record.size, cursor |-> NoCursor, acc |-> 0]
    OBVIOUS
  <1>3. call' = [call EXCEPT ![s] = c]
    BY <1>2 DEF DepositBegin
  <1>4. RestTyped' /\ EventsInv' /\ SeedsClean'
    BY <1>1, SerialFacts, SameEvents DEF SeedsClean, RestTyped, MailboxInv, store, memory, live
  <1>5. CallSound(call[s]) /\ count \in Nat \cup {Unset}
    BY SerialFacts DEF RestTyped
  <1>6. CASE count # Unset
    <2>1. c \in Call
      BY <1>2, <1>5, <1>6 DEF Call
    <2>2. count = Cardinality(events) + uncounted
      BY <1>1, <1>5, <1>6 DEF CallSound, Idle
    <2>3. CallSound(c)'
      BY <1>1, <1>2, <1>6, <2>2 DEF CallSound, store, memory, live
    <2> QED BY <1>3, <1>4, <2>1, <2>3, CallSet
  <1>7. CASE count = Unset
    <2>1. c \in Call
      BY <1>2, <1>7 DEF Call, NoCursor
    <2>2. UpTo(NoCursor) = {}
      BY EventFacts DEF MailboxInv, UpTo, NoCursor
    <2>3. UpTo(NoCursor)' = {}
      BY <1>1, <2>2 DEF UpTo, store
    <2>4. Cardinality(UpTo(NoCursor)') = 0
      BY <2>3, FS_EmptySet
    <2>5. CallSound(c)'
      BY <1>1, <1>2, <1>7, <2>4 DEF CallSound, store, memory
    <2> QED BY <1>3, <1>4, <2>1, <2>5, CallSet
  <1> QED BY <1>6, <1>7

LEMMA SeedPageStep ==
    ASSUME NEW s, Slots = {s}, MailboxInv, SeedPage(s)
    PROVE  MailboxInv'
  <1>1. PICK c, page, acc : /\ c = call[s] /\ page = List(events, c.cursor)
                            /\ acc = c.acc + Cardinality(page.items)
    OBVIOUS
  <1>2. PICK d : d = IF page.nextCursor # NoCursor
                     THEN [pc |-> "scan", size |-> c.size, cursor |-> page.nextCursor, acc |-> acc]
                     ELSE [pc |-> "scanned", size |-> c.size, acc |-> acc]
    OBVIOUS
  <1>3. /\ c.pc = "scan" /\ call' = [call EXCEPT ![s] = d]
        /\ UNCHANGED <<store, memory, lastId, reader, bounds, live>>
    BY <1>1, <1>2 DEF SeedPage
  <1>4. RestTyped' /\ EventsInv' /\ SeedsClean'
    BY <1>3, SerialFacts, SameEvents DEF SeedsClean, RestTyped, MailboxInv, store, memory, live, bounds
  <1>5. /\ c.size \in Sizes /\ c.acc \in Nat /\ count = Unset
        /\ c.cursor \in Ids(events) \cup {NoCursor} /\ c.acc = Cardinality(UpTo(c.cursor))
    BY <1>1, <1>3, SerialFacts, CallFacts DEF CallSound
  <1>6. /\ page.items \subseteq events
        /\ page.nextCursor = NoCursor => acc = Cardinality(events)
        /\ page.nextCursor # NoCursor =>
              page.nextCursor \in Ids(events) /\ acc = Cardinality(UpTo(page.nextCursor))
    BY <1>1, <1>5, PageFacts DEF MailboxInv
  <1>7. acc \in Nat
    BY <1>1, <1>5, <1>6, CountsFacts DEF MailboxInv
  <1>8. d \in Call
    <2>1. page.nextCursor # NoCursor => page.nextCursor \in Nat
      BY <1>6, EventFacts DEF MailboxInv, Ids
    <2> QED BY <1>2, <1>5, <1>7, <2>1 DEF Call
  <1>9. UNCHANGED <<events, count, uncounted>>
    BY <1>3 DEF store, memory, live
  <1>10. CallSound(d)'
    BY <1>2, <1>5, <1>6, <1>9 DEF CallSound, UpTo
  <1> QED BY <1>3, <1>4, <1>8, <1>10, CallSet

LEMMA SeedCountStep ==
    ASSUME NEW s, Slots = {s}, MailboxInv, SeedCount(s)
    PROVE  MailboxInv'
  <1>1. PICK c, d : /\ c = call[s] /\ d = [pc |-> "items", size |-> c.size, seen |-> c.acc]
    OBVIOUS
  <1>2. /\ c.pc = "scanned" /\ count' = c.acc /\ call' = [call EXCEPT ![s] = d]
        /\ UNCHANGED <<store, bytes, lastId, reader, bounds, live>>
    BY <1>1 DEF SeedCount
  <1>3. /\ c.size \in Sizes /\ c.acc \in Nat /\ c.acc = Cardinality(events)
        /\ uncounted = 0 /\ c.acc = Cardinality(events) + uncounted
    BY <1>1, <1>2, SerialFacts, CallFacts DEF CallSound, SeedsClean
  <1>4. RestTyped' /\ EventsInv' /\ SeedsClean'
    BY <1>2, <1>3, SerialFacts, SameEvents DEF SeedsClean, RestTyped, MailboxInv, store, live, bounds
  <1>5. d \in Call
    BY <1>1, <1>3 DEF Call
  <1>6. CallSound(d)'
    BY <1>1, <1>2, <1>3 DEF CallSound, store, live
  <1> QED BY <1>2, <1>4, <1>5, <1>6, CallSet

LEMMA CheckItemsStep ==
    ASSUME NEW s, Slots = {s}, MailboxInv, CheckItems(s)
    PROVE  MailboxInv'
  <1>1. PICK c : c = call[s]
    OBVIOUS
  <1>2. c.pc = "items" /\ UNCHANGED <<store, memory, lastId, reader, bounds, live>>
    BY <1>1 DEF CheckItems
  <1>3. /\ c.size \in Sizes /\ c.seen = Cardinality(events) + uncounted
        /\ count = Cardinality(events) + uncounted
        /\ Cardinality(events) \in Nat /\ uncounted \in Nat /\ bytes \in Nat \cup {Unset}
    BY <1>1, <1>2, SerialFacts, CallFacts DEF CallSound, RestTyped
  <1>4. RestTyped' /\ EventsInv' /\ SeedsClean'
    BY <1>2, SerialFacts, SameEvents DEF SeedsClean, RestTyped, MailboxInv, store, memory, live, bounds
  <1>5. UNCHANGED <<events, count, uncounted>>
    BY <1>2 DEF store, memory, live
  <1>6. CASE ItemsFull(c.seen)
    <2>1. call' = [call EXCEPT ![s] = Idle]
      BY <1>1, <1>6 DEF CheckItems
    <2>2. Idle \in Call /\ CallSound(Idle)'
      BY <1>3, <1>5 DEF Call, Idle, CallSound
    <2> QED BY <1>4, <2>1, <2>2, CallSet
  <1>7. CASE ~ItemsFull(c.seen)
    <2>1. Cardinality(events) < MaxItems
      BY <1>3, <1>7, CapsAssumption DEF ItemsFull
    <2>2. PICK d : d = IF bytes # Unset THEN [pc |-> "bytes", size |-> c.size, used |-> bytes]
                       ELSE [pc |-> "read", size |-> c.size, then |-> "bytes"]
      OBVIOUS
    <2>3. call' = [call EXCEPT ![s] = d]
      BY <1>1, <1>7, <2>2 DEF CheckItems
    <2>4. d \in Call
      BY <1>3, <2>2 DEF Call
    <2>5. CallSound(d)'
      BY <1>3, <1>5, <2>1, <2>2 DEF CallSound
    <2> QED BY <1>4, <2>3, <2>4, <2>5, CallSet
  <1> QED BY <1>6, <1>7

LEMMA ReadBytesStep ==
    ASSUME NEW s, Slots = {s}, MailboxInv, ReadBytes(s)
    PROVE  MailboxInv'
  <1>1. PICK c, d : /\ c = call[s]
                    /\ d = [pc |-> "seed", size |-> c.size, then |-> c.then, total |-> bytesz]
    OBVIOUS
  <1>2. /\ c.pc = "read" /\ call' = [call EXCEPT ![s] = d]
        /\ UNCHANGED <<store, memory, lastId, reader, bounds, live>>
    BY <1>1 DEF ReadBytes
  <1>3. /\ c.size \in Sizes /\ c.then \in {"bytes", "release"} /\ bytesz \in Nat /\ CallSound(c)
    BY <1>1, <1>2, SerialFacts, CallFacts DEF RestTyped
  <1>4. RestTyped' /\ EventsInv' /\ SeedsClean'
    BY <1>2, SerialFacts, SameEvents DEF SeedsClean, RestTyped, MailboxInv, store, memory, live, bounds
  <1>5. d \in Call
    BY <1>1, <1>3 DEF Call
  <1>6. UNCHANGED <<events, count, uncounted>>
    BY <1>2 DEF store, memory, live
  <1>7. CallSound(d)'
    BY <1>1, <1>2, <1>3, <1>6 DEF CallSound
  <1> QED BY <1>2, <1>4, <1>5, <1>7, CallSet

LEMMA SeedBytesStep ==
    ASSUME NEW s, Slots = {s}, MailboxInv, SeedBytes(s)
    PROVE  MailboxInv'
  <1>1. PICK c, d : /\ c = call[s]
                    /\ d = [pc |-> c.then, size |-> c.size, used |-> c.total]
    OBVIOUS
  <1>2. /\ c.pc = "seed" /\ bytes' = c.total /\ call' = [call EXCEPT ![s] = d]
        /\ UNCHANGED <<store, count, lastId, reader, bounds, live>>
    BY <1>1 DEF SeedBytes
  <1>3. /\ c.size \in Sizes /\ c.then \in {"bytes", "release"} /\ c.total \in Nat /\ CallSound(c)
    BY <1>1, <1>2, SerialFacts, CallFacts
  <1>4. RestTyped' /\ EventsInv' /\ SeedsClean'
    BY <1>2, <1>3, SerialFacts, SameEvents DEF SeedsClean, RestTyped, MailboxInv, store, live, bounds
  <1>5. d \in Call
    BY <1>1, <1>3 DEF Call
  <1>6. UNCHANGED <<events, count, uncounted>>
    BY <1>2 DEF store, live
  <1>7. CallSound(d)'
    BY <1>1, <1>2, <1>3, <1>6 DEF CallSound
  <1> QED BY <1>2, <1>4, <1>5, <1>7, CallSet

LEMMA CheckBytesStep ==
    ASSUME NEW s, Slots = {s}, MailboxInv, CheckBytes(s)
    PROVE  MailboxInv'
  <1>1. PICK c : c = call[s]
    OBVIOUS
  <1>2. c.pc = "bytes" /\ UNCHANGED <<store, memory, reader, bounds, live>>
    BY <1>1 DEF CheckBytes
  <1>3. /\ c.size \in Sizes /\ count = Cardinality(events) + uncounted
        /\ Cardinality(events) < MaxItems /\ Cardinality(events) \in Nat /\ lastId \in Nat
    BY <1>1, <1>2, SerialFacts, CallFacts DEF CallSound, RestTyped
  <1>4. UNCHANGED <<events, count, uncounted>>
    BY <1>2 DEF store, memory, live
  <1>5. CASE BytesFull(c.used, c.size)
    <2>1. call' = [call EXCEPT ![s] = Idle] /\ lastId' = lastId
      BY <1>1, <1>5 DEF CheckBytes
    <2>2. Idle \in Call /\ CallSound(Idle)'
      BY <1>3, <1>4 DEF Call, Idle, CallSound
    <2>3. RestTyped' /\ EventsInv' /\ SeedsClean'
      BY <1>2, <2>1, SerialFacts, SameEvents DEF SeedsClean, RestTyped, MailboxInv, store, memory, live, bounds
    <2> QED BY <2>1, <2>2, <2>3, CallSet
  <1>6. CASE ~BytesFull(c.used, c.size)
    <2>1. PICK d : d = [pc |-> "put", size |-> c.size, id |-> lastId + 1]
      OBVIOUS
    <2>2. call' = [call EXCEPT ![s] = d] /\ lastId' = lastId + 1
      BY <1>1, <1>6, <2>1 DEF CheckBytes, NextEventId
    <2>3. d \in Call
      BY <1>3, <2>1 DEF Call
    <2>4. \A e \in events : e.id \in Nat /\ e.id <= lastId
      BY EventFacts DEF MailboxInv, EventsInv
    <2>5. RestTyped' /\ EventsInv' /\ SeedsClean'
      BY <1>2, <1>3, <1>4, <2>2, <2>4, SerialFacts
         DEF SeedsClean, RestTyped, MailboxInv, EventsInv, store, memory, live, bounds
    <2>6. CallSound(d)'
      <3>1. lastId + 1 \notin Ids(events)
        BY <1>3, <2>4 DEF Ids
      <3> QED BY <1>3, <1>4, <2>1, <2>2, <3>1 DEF CallSound, Ids
    <2> QED BY <2>2, <2>3, <2>5, <2>6, CallSet
  <1> QED BY <1>5, <1>6

LEMMA PutStep ==
    ASSUME NEW s, Slots = {s}, MailboxInv, Put(s)
    PROVE  MailboxInv'
  <1>1. PICK c, d, e : /\ c = call[s] /\ d = [pc |-> "stored", size |-> c.size, id |-> c.id]
                       /\ e = [id |-> c.id, size |-> c.size]
    OBVIOUS
  <1>2. /\ c.pc = "put" /\ events' = events \cup {e} /\ untold' = untold \cup {c.id}
        /\ UNCHANGED <<bytesz, memory, lastId, reader, onDeposit, timers, silent,
                       uncounted, bounds>>
    BY <1>1 DEF Put
  <1>3. /\ c.size \in Sizes /\ c.id \in Nat \ {0} /\ c = [pc |-> c.pc, size |-> c.size, id |-> c.id]
        /\ count = Cardinality(events) + uncounted /\ Cardinality(events) < MaxItems
        /\ uncounted \in Nat /\ SeedsClean
        /\ c.id \notin Ids(events) /\ c.id <= lastId /\ Cardinality(events) \in Nat
        /\ IsFiniteSet(events) /\ call \in [Slots -> Call]
    BY <1>1, <1>2, SerialFacts, CallFacts DEF CallSound, MailboxInv, TypeOK
  <1>4. call' = [call EXCEPT ![s] = d]
    <2>1. [c EXCEPT !.pc = "stored"] = d
      BY <1>1, <1>3
    <2> QED BY <1>1, <1>3, <2>1 DEF Put
  <1>5. d \in Call /\ e \in Event
    BY <1>1, <1>3 DEF Call, Event
  <1>6. IsFiniteSet(events') /\ Cardinality(events') = Cardinality(events) + 1
    <2>1. e \notin events
      BY <1>1, <1>3 DEF Ids
    <2> QED BY <1>2, <1>3, <2>1, FS_AddElement
  <1>7. EventsInv'
    <2>1. \A x \in events' : x.id <= lastId'
      BY <1>1, <1>2, <1>3 DEF MailboxInv, EventsInv
    <2>2. \A x, y \in events' : x.id = y.id => x = y
      BY <1>1, <1>2, <1>3 DEF MailboxInv, EventsInv, Ids
    <2> QED BY <1>3, <1>6, <2>1, <2>2, CapsAssumption DEF EventsInv
  <1>8. RestTyped'
    BY <1>2, <1>3, <1>5, SerialFacts DEF RestTyped, memory, bounds
  <1>9. SeedsClean'
    BY <1>2, <1>3 DEF SeedsClean, memory
  <1>10. CallSound(d)'
    BY <1>1, <1>2, <1>3, <1>6 DEF CallSound, memory, Unset
  <1> QED BY <1>4, <1>5, <1>7, <1>8, <1>9, <1>10, CallSet

LEMMA CountDepositStep ==
    ASSUME NEW s, Slots = {s}, MailboxInv, CountDeposit(s)
    PROVE  MailboxInv'
  <1>1. PICK c, d : /\ c = call[s]
                    /\ d = [pc |-> "persist", total |-> OrZero(bytes) + c.size, id |-> c.id]
    OBVIOUS
  <1>2. /\ c.pc = "stored" /\ count' = OrZero(count) + 1 /\ bytes' = OrZero(bytes) + c.size
        /\ call' = [call EXCEPT ![s] = d]
        /\ UNCHANGED <<store, lastId, reader, bounds, live>>
    BY <1>1 DEF CountDeposit
  <1>3. /\ c.size \in Sizes /\ c.id \in Nat /\ count # Unset
        /\ count + 1 = Cardinality(events) + uncounted /\ RestTyped
    BY <1>1, <1>2, SerialFacts, CallFacts DEF CallSound
  <1>4. /\ OrZero(bytes) + c.size \in Nat
        /\ OrZero(count) + 1 = Cardinality(events) + uncounted
        /\ OrZero(count) + 1 \in Nat /\ OrZero(count) + 1 # Unset
    <2>1. c.size \in Nat
      BY <1>3, SizesAssumption
    <2>2. OrZero(bytes) \in Nat
      BY <1>3 DEF OrZero, RestTyped, Unset
    <2>3. OrZero(count) = count /\ count \in Nat
      BY <1>3 DEF OrZero, RestTyped, Unset
    <2>4. OrZero(bytes) + c.size \in Nat
      BY ONLY <2>1, <2>2
    <2> QED BY <1>3, <2>3, <2>4 DEF Unset
  <1>5. RestTyped' /\ EventsInv' /\ SeedsClean'
    BY <1>2, <1>3, <1>4, SameEvents DEF SeedsClean, RestTyped, MailboxInv, store, live, bounds
  <1>6. d \in Call
    BY <1>1, <1>3, <1>4 DEF Call
  <1>7. CallSound(d)'
    BY <1>1, <1>2, <1>4 DEF CallSound, store, live
  <1> QED BY <1>2, <1>5, <1>6, <1>7, CallSet

LEMMA IdleSound ==
    ASSUME count \in {Unset, Cardinality(events) + uncounted}, UNCHANGED <<events, count, uncounted>>
    PROVE  Idle \in Call /\ CallSound(Idle)'
  BY DEF Idle, Call, CallSound

LEMMA PersistStep ==
    ASSUME NEW s, Slots = {s}, MailboxInv, Persist(s)
    PROVE  MailboxInv'
  <1>1. PICK c : c = call[s]
    OBVIOUS
  <1>2. /\ c.pc = "persist" /\ bytesz' = c.total /\ reader' = Notified(c.id)
        /\ timers' = Scheduled(c.id) /\ call' = [call EXCEPT ![s] = Idle]
        /\ silent' = IF onDeposit THEN silent ELSE silent \cup {c.id}
        /\ UNCHANGED <<events, memory, lastId, onDeposit, untold, uncounted, bounds>>
    BY <1>1 DEF Persist
  <1>3. /\ c.total \in Nat /\ c.id \in Nat /\ count \in {Unset, Cardinality(events) + uncounted} /\ RestTyped
    BY <1>1, <1>2, SerialFacts, CallFacts DEF CallSound
  <1>4. /\ reader' \in [pc : {"list", "empty", "waiting"}, cursor : Nat, seen : SUBSET Nat]
        /\ timers' \subseteq Nat \ {0} /\ silent' \subseteq Nat
    BY <1>2, <1>3 DEF Notified, Scheduled, RestTyped
  <1>5. RestTyped' /\ EventsInv' /\ SeedsClean'
    BY <1>2, <1>3, <1>4, SameEvents DEF SeedsClean, RestTyped, MailboxInv, memory, bounds
  <1>6. Idle \in Call /\ CallSound(Idle)'
    BY <1>2, <1>3, IdleSound DEF memory
  <1> QED BY <1>2, <1>5, <1>6, CallSet

LEMMA AckBeginStep ==
    ASSUME NEW s, Slots = {s}, MailboxInv, NEW e \in events, AckBegin(s, e)
    PROVE  MailboxInv'
  <1>1. PICK d : d = [pc |-> "remove", size |-> e.size, id |-> e.id]
    OBVIOUS
  <1>2. /\ call[s] = Idle /\ call' = [call EXCEPT ![s] = d]
        /\ UNCHANGED <<store, memory, lastId, reader, bounds, live>>
    BY <1>1 DEF AckBegin
  <1>3. count \in {Unset, Cardinality(events) + uncounted}
    BY <1>2, SerialFacts DEF CallSound, Idle
  <1>4. d \in Call
    BY <1>1, EventFacts DEF Call, MailboxInv
  <1>5. RestTyped' /\ EventsInv' /\ SeedsClean'
    BY <1>2, SerialFacts, SameEvents DEF SeedsClean, RestTyped, MailboxInv, store, memory, live, bounds
  <1>6. CallSound(d)'
    BY <1>1, <1>2, <1>3 DEF CallSound, store, memory, live
  <1> QED BY <1>2, <1>4, <1>5, <1>6, CallSet

LEMMA AckRemoveStep ==
    ASSUME NEW s, Slots = {s}, MailboxInv, AckRemove(s)
    PROVE  MailboxInv'
  <1>1. PICK c, e, d : /\ c = call[s] /\ e = [id |-> c.id, size |-> c.size]
                       /\ d = [pc |-> "removed", size |-> c.size]
    OBVIOUS
  <1>2. c.pc = "remove" /\ UNCHANGED <<bytesz, memory, lastId, reader, bounds, live>>
    BY <1>1 DEF AckRemove
  <1>3. /\ c.size \in Sizes /\ count \in {Unset, Cardinality(events) + uncounted} /\ RestTyped
        /\ IsFiniteSet(events) /\ Cardinality(events) \in Nat /\ uncounted \in Nat /\ SeedsClean
    BY <1>1, <1>2, SerialFacts, CallFacts DEF CallSound
  <1>4. CASE e \in events
    <2>1. events' = events \ {e} /\ call' = [call EXCEPT ![s] = d]
      BY <1>1, <1>4 DEF AckRemove
    <2>2. IsFiniteSet(events') /\ Cardinality(events') = Cardinality(events) - 1
      BY <1>3, <1>4, <2>1, FS_RemoveElement
    <2>3. Cardinality(events') \in Nat
      BY <2>2, FS_CardinalityType
    <2>4. EventsInv'
      <3>1. Cardinality(events') <= MaxItems
        BY <1>3, <2>2, CapsAssumption DEF MailboxInv, EventsInv
      <3> QED BY <1>2, <2>1, <2>2, <3>1 DEF MailboxInv, EventsInv
    <2>5. RestTyped' /\ SeedsClean'
      BY <1>2, <1>3, <2>1 DEF RestTyped, SeedsClean, memory, live, bounds
    <2>6. d \in Call
      BY <1>1, <1>3 DEF Call
    <2>7. CallSound(d)'
      BY <1>1, <1>2, <1>3, <2>2, <2>3 DEF CallSound, memory, live
    <2> QED BY <2>1, <2>4, <2>5, <2>6, <2>7, CallSet
  <1>5. CASE e \notin events
    <2>1. events' = events /\ call' = [call EXCEPT ![s] = Idle]
      BY <1>1, <1>5 DEF AckRemove
    <2>2. RestTyped' /\ EventsInv' /\ SeedsClean'
      BY <1>2, <1>3, <2>1, SameEvents DEF SeedsClean, RestTyped, MailboxInv, memory, live, bounds
    <2>3. Idle \in Call /\ CallSound(Idle)'
      BY <1>2, <1>3, <2>1, IdleSound DEF memory, live
    <2> QED BY <2>1, <2>2, <2>3, CallSet
  <1> QED BY <1>4, <1>5

LEMMA MaxOfTwo ==
    ASSUME NEW a \in Int
    PROVE  Max({a, 0}) = IF a >= 0 THEN a ELSE 0
  BY DEF Max

LEMMA CountAckStep ==
    ASSUME NEW s, Slots = {s}, MailboxInv, CountAck(s)
    PROVE  MailboxInv'
  <1>1. PICK c, d : /\ c = call[s]
                    /\ d = IF bytes # Unset THEN [pc |-> "release", size |-> c.size, used |-> bytes]
                           ELSE [pc |-> "read", size |-> c.size, then |-> "release"]
    OBVIOUS
  <1>2. /\ c.pc = "removed" /\ call' = [call EXCEPT ![s] = d]
        /\ count' = IF count = Unset THEN Unset ELSE Max({count - 1, 0})
        /\ UNCHANGED <<store, bytes, lastId, reader, bounds, live>>
    BY <1>1 DEF CountAck
  <1>3. /\ c.size \in Sizes /\ count \in {Unset, Cardinality(events) + uncounted + 1} /\ RestTyped
        /\ Cardinality(events) \in Nat /\ uncounted \in Nat /\ SeedsClean
    BY <1>1, <1>2, SerialFacts, CallFacts DEF CallSound
  <1>4. /\ count' \in {Unset, Cardinality(events) + uncounted}
        /\ (count' = Unset => count = Unset)
    <2>1. CASE count = Unset
      BY <1>2, <2>1
    <2>2. CASE count # Unset
      <3>1. count - 1 \in Int /\ count - 1 >= 0
            /\ count - 1 = Cardinality(events) + uncounted /\ count - 1 # Unset
        BY <1>3, <2>2 DEF Unset
      <3>2. Max({count - 1, 0}) = count - 1
        BY <3>1, MaxOfTwo
      <3> QED BY <1>2, <2>2, <3>1, <3>2
    <2> QED BY <2>1, <2>2
  <1>5. RestTyped' /\ EventsInv' /\ SeedsClean'
    <2>1. RestTyped'
      BY <1>2, <1>3, <1>4 DEF RestTyped, store, live, bounds
    <2>2. EventsInv'
      BY <1>2, SameEvents DEF MailboxInv, store
    <2>3. SeedsClean'
      BY <1>2, <1>3, <1>4 DEF SeedsClean, live
    <2> QED BY <2>1, <2>2, <2>3
  <1>6. d \in Call
    BY <1>1, <1>3 DEF Call, RestTyped
  <1>7. CallSound(d)'
    BY <1>1, <1>2, <1>4 DEF CallSound, store, live
  <1> QED BY <1>2, <1>5, <1>6, <1>7, CallSet

LEMMA ReleaseStep ==
    ASSUME NEW s, Slots = {s}, MailboxInv, ReleaseBytes(s)
    PROVE  MailboxInv'
  <1>1. PICK c, t, d : /\ c = call[s] /\ t = Max({c.used - c.size, 0})
                       /\ d = [pc |-> "persist", total |-> t, id |-> 0]
    OBVIOUS
  <1>2. /\ c.pc = "release" /\ bytes' = t /\ call' = [call EXCEPT ![s] = d]
        /\ UNCHANGED <<store, count, lastId, reader, bounds, live>>
    BY <1>1 DEF ReleaseBytes, Release
  <1>3. /\ c.size \in Sizes /\ c.used \in Nat /\ count \in {Unset, Cardinality(events) + uncounted} /\ RestTyped
    BY <1>1, <1>2, SerialFacts, CallFacts DEF CallSound
  <1>4. t \in Nat
    <2>1. c.size \in Nat /\ c.used \in Nat
      BY <1>3, SizesAssumption
    <2>2. c.used - c.size \in Int
      BY ONLY <2>1
    <2> QED BY <1>1, <2>2, MaxOfTwo
  <1>5. RestTyped' /\ EventsInv' /\ SeedsClean'
    BY <1>2, <1>3, <1>4, SameEvents DEF SeedsClean, RestTyped, MailboxInv, store, live, bounds
  <1>6. d \in Call
    BY <1>1, <1>4 DEF Call
  <1>7. CallSound(d)'
    BY <1>1, <1>2, <1>3 DEF CallSound, store, live
  <1> QED BY <1>2, <1>5, <1>6, <1>7, CallSet

(* Steps of the client, of the callback's timer, and no step at all. *)
LEMMA ReaderStep ==
    ASSUME MailboxInv, UNCHANGED <<store, memory, call, lastId, uncounted>>, RestTyped'
    PROVE  MailboxInv'
  <1>1. UNCHANGED <<events, count, call, lastId, uncounted>>
    BY DEF store, memory
  <1>2. EventsInv'
    BY <1>1, SameEvents DEF MailboxInv
  <1>3. TypeOK'
    BY <1>1 DEF MailboxInv, TypeOK, RestTyped
  <1>4. \A s \in Slots : CallSound(call[s])'
    BY <1>1 DEF MailboxInv, CallSound, UpTo
  <1>5. SeedsClean'
    BY <1>1 DEF MailboxInv, SeedsClean
  <1> QED BY <1>2, <1>3, <1>4, <1>5 DEF MailboxInv

LEMMA ClientStep ==
    ASSUME MailboxInv, ReadPage \/ ReadEmpty \/ WaitForDeposit \/ WaitTimeout
    PROVE  MailboxInv'
  <1>1. UNCHANGED <<store, memory, call, lastId, bounds, live>> /\ RestTyped
    BY DEF ReadPage, ReadEmpty, WaitForDeposit, WaitTimeout, MailboxInv, TypeOK, RestTyped
  <1>2. reader' \in [pc : {"list", "empty", "waiting"}, cursor : Nat, seen : SUBSET Nat]
    <2>1. CASE ReadPage
      <3>1. PICK items : items = List(events, reader.cursor).items
        OBVIOUS
      <3>2. /\ items # {}
            /\ reader' = [pc |-> "list", cursor |-> Max(Ids(items)), seen |-> reader.seen \cup Ids(items)]
        BY <2>1, <3>1 DEF ReadPage
      <3>3. items \subseteq events
        BY <3>1 DEF List, From
      <3>4. Max(Ids(items)) \in Ids(items)
        BY <3>2, <3>3, IdsFacts DEF MailboxInv
      <3>5. Ids(items) \subseteq Nat
        BY <3>3, EventFacts DEF Ids, MailboxInv
      <3> QED BY <1>1, <3>2, <3>4, <3>5 DEF RestTyped
    <2>2. CASE ReadEmpty \/ WaitForDeposit \/ WaitTimeout
      BY <1>1, <2>2 DEF ReadEmpty, WaitForDeposit, WaitTimeout, RestTyped
    <2> QED BY <2>1, <2>2
  <1>3. RestTyped'
    BY <1>1, <1>2 DEF RestTyped, store, memory, bounds, live
  <1> QED BY <1>1, <1>3, ReaderStep DEF live

LEMMA CallbackStep ==
    ASSUME MailboxInv,
           \/ UNCHANGED vars \/ \E id \in timers : OnDeposit(id)
           \/ \E fn \in BOOLEAN : SetOnDeposit(fn)
    PROVE  MailboxInv'
  <1>1. UNCHANGED <<store, memory, call, lastId, reader, silent, uncounted, bounds>> /\ RestTyped
    BY DEF OnDeposit, SetOnDeposit, vars, live, MailboxInv, TypeOK, RestTyped
  <1>2. timers' \subseteq timers /\ untold' \subseteq untold
    BY DEF OnDeposit, SetOnDeposit, vars, live
  <1>3. onDeposit' \in BOOLEAN
    BY <1>1, Zenon DEF OnDeposit, SetOnDeposit, vars, live, RestTyped
  <1>4. RestTyped'
    BY <1>1, <1>2, <1>3 DEF RestTyped, store, memory, bounds
  <1> QED BY <1>1, <1>4, ReaderStep

(* A store operation that rejects ends its call. *)
LEMMA RejectStep ==
    ASSUME NEW s, Slots = {s}, MailboxInv, StoreRejects(s)
    PROVE  MailboxInv'
  <1>1. PICK c : c = call[s]
    OBVIOUS
  <1>2. /\ c.pc \in {"scan", "read", "put", "remove", "persist"}
        /\ rejects' = rejects + 1 /\ call' = [call EXCEPT ![s] = Idle]
        /\ silent' = IF c.pc = "persist" THEN silent \cup {c.id} ELSE silent
        /\ UNCHANGED <<store, memory, lastId, reader, onDeposit, timers, untold,
                       uncounted, deposits, crashes>>
    BY <1>1 DEF StoreRejects
  <1>3. /\ count \in {Unset, Cardinality(events) + uncounted} /\ RestTyped
        /\ c.pc = "persist" => c.id \in Nat
    BY <1>1, <1>2, SerialFacts, CallFacts DEF CallSound
  <1>4. silent' \subseteq Nat /\ rejects' \in Nat
    <2>1. silent \subseteq Nat /\ rejects \in Nat
      BY <1>3 DEF RestTyped
    <2>2. silent' \subseteq Nat
      BY <1>2, <1>3, <2>1
    <2> QED BY <1>2, <2>1, <2>2
  <1>5. RestTyped' /\ EventsInv' /\ SeedsClean'
    BY <1>2, <1>3, <1>4, SameEvents DEF SeedsClean, RestTyped, MailboxInv, store, memory
  <1>6. Idle \in Call /\ CallSound(Idle)'
    BY <1>2, <1>3, IdleSound DEF store, memory
  <1> QED BY <1>2, <1>5, <1>6, CallSet

(* A removal that rejects late takes the record and leaves the count. *)
LEMMA LateStep ==
    ASSUME NEW s, Slots = {s}, MailboxInv, RemoveRejects(s)
    PROVE  MailboxInv'
  <1>1. PICK c, e : c = call[s] /\ e = [id |-> c.id, size |-> c.size]
    OBVIOUS
  <1>2. /\ c.pc = "remove" /\ e \in events /\ events' = events \ {e}
        /\ rejects' = rejects + 1 /\ call' = [call EXCEPT ![s] = Idle]
        /\ uncounted' = IF count = Unset THEN 0 ELSE uncounted + 1
        /\ UNCHANGED <<bytesz, memory, lastId, reader, onDeposit, timers, untold,
                       silent, deposits, crashes>>
    BY <1>1 DEF RemoveRejects
  <1>3. /\ count \in {Unset, Cardinality(events) + uncounted} /\ RestTyped
        /\ IsFiniteSet(events) /\ Cardinality(events) \in Nat /\ uncounted \in Nat
    BY <1>1, <1>2, SerialFacts DEF CallSound
  <1>4. IsFiniteSet(events') /\ Cardinality(events') = Cardinality(events) - 1
    BY <1>2, <1>3, FS_RemoveElement
  <1>5. uncounted' \in Nat /\ rejects' \in Nat /\ events' \subseteq Event
    BY <1>2, <1>3 DEF RestTyped
  <1>6. RestTyped' /\ SeedsClean'
    BY <1>2, <1>3, <1>5 DEF RestTyped, SeedsClean, memory
  <1>7. EventsInv'
    <2>1. Cardinality(events') <= MaxItems
      BY <1>3, <1>4, CapsAssumption DEF MailboxInv, EventsInv
    <2> QED BY <1>2, <1>4, <2>1 DEF MailboxInv, EventsInv
  <1>8. count' \in {Unset, Cardinality(events') + uncounted'}
    BY <1>2, <1>3, <1>4 DEF memory
  <1>9. Idle \in Call /\ CallSound(Idle)'
    BY <1>8 DEF Idle, Call, CallSound
  <1> QED BY <1>2, <1>6, <1>7, <1>9, CallSet

LEMMA CrashStep ==
    ASSUME MailboxInv, Crash
    PROVE  MailboxInv'
  <1>1. /\ count' = Unset /\ call' = [s \in Slots |-> Idle] /\ events' = events /\ lastId' = lastId
    BY DEF Crash, store
  <1>2. TypeOK'
    <2>1. call' \in [Slots -> Call]
      BY <1>1 DEF Call
    <2>2. crashes' \in Nat
      <3>1. crashes \in Nat /\ crashes' = crashes + 1
        BY DEF Crash, MailboxInv, TypeOK
      <3> QED BY <3>1
    <2>3. reader' \in [pc : {"list", "empty", "waiting"}, cursor : Nat, seen : SUBSET Nat]
      BY DEF Crash, MailboxInv, TypeOK
    <2> QED BY <2>1, <2>2, <2>3 DEF Crash, MailboxInv, TypeOK, store
  <1>3. EventsInv'
    BY <1>1, SameEvents DEF MailboxInv
  <1>4. \A s \in Slots : CallSound(call[s])'
    BY <1>1 DEF CallSound, Idle
  <1>5. SeedsClean'
    BY DEF SeedsClean, Crash
  <1> QED BY <1>2, <1>3, <1>4, <1>5 DEF MailboxInv

-----------------------------------------------------------------------------

LEMMA MailboxInit == Init => MailboxInv
  <1> SUFFICES ASSUME Init PROVE MailboxInv
    OBVIOUS
  <1> USE DEF Init
  <1>1. TypeOK
    BY DEF TypeOK, Call, NoCursor
  <1>2. EventsInv
    BY FS_EmptySet, CapsAssumption DEF EventsInv
  <1>3. SeedsClean /\ \A s \in Slots : CallSound(call[s])
    BY DEF CallSound, Idle, SeedsClean
  <1> QED BY <1>1, <1>2, <1>3 DEF MailboxInv

LEMMA MailboxStep ==
    ASSUME Serial, MailboxInv, [Next]_vars
    PROVE  MailboxInv'
  <1>1. ASSUME NEW s \in Slots,
               \/ \E record \in Records : DepositBegin(s, record)
               \/ \E packet \in WireBytes : DepositFromWire(s, packet)
               \/ \E e \in events : AckBegin(s, e)
               \/ CallStep(s)
               \/ StoreRejects(s) \/ RemoveRejects(s)
        PROVE  MailboxInv'
    <2>1. Slots = {s}
      BY DEF Serial
    <2>2. CASE \E record \in Records : DepositBegin(s, record)
      BY <2>1, <2>2, DepositStep DEF Records
    <2>3. CASE \E packet \in WireBytes : DepositFromWire(s, packet)
      <3>1. PICK packet \in WireBytes : DepositFromWire(s, packet)
        BY <2>3
      <3>2. PICK record \in hydrateFromWire(packet) : DepositBegin(s, record)
        BY <3>1 DEF DepositFromWire
      <3>3. record.size \in Sizes
        BY <3>2 DEF hydrateFromWire, WireBytes
      <3> QED BY <2>1, <3>2, <3>3, DepositStep
    <2>4. CASE \E e \in events : AckBegin(s, e)
      BY <2>1, <2>4, AckBeginStep
    <2>5. CASE CallStep(s)
      BY <2>1, <2>5, SeedPageStep, SeedCountStep, CheckItemsStep, ReadBytesStep, SeedBytesStep,
         CheckBytesStep, PutStep, CountDepositStep, PersistStep, AckRemoveStep, CountAckStep,
         ReleaseStep DEF CallStep
    <2>6. CASE StoreRejects(s) \/ RemoveRejects(s)
      BY <2>1, <2>6, RejectStep, LateStep
    <2> QED BY <1>1, <2>2, <2>3, <2>4, <2>5, <2>6
  <1>2. CASE ReadPage \/ ReadEmpty \/ WaitForDeposit \/ WaitTimeout
    BY <1>2, ClientStep
  <1>3. CASE \/ UNCHANGED vars \/ \E id \in timers : OnDeposit(id)
             \/ \E fn \in BOOLEAN : SetOnDeposit(fn)
    BY <1>3, CallbackStep
  <1>4. CASE Crash
    BY <1>4, CrashStep
  <1> QED BY <1>1, <1>2, <1>3, <1>4 DEF Next

(* With calls that do not overlap, whatever the caps, the sizes and the page *)
(* limit of the scan, and wherever a crash falls or a store operation        *)
(* rejects: the mailbox never holds more than maxItems records, and the      *)
(* count in memory is the number of records, and of those whose removal      *)
(* rejected late, whenever no call is in progress (deposit, #ensureCount,    *)
(* ack).                                                                     *)
THEOREM CapHolds ==
    ASSUME Serial
    PROVE  Spec => []Counted
  <1>1. Init => MailboxInv
    BY MailboxInit
  <1>2. MailboxInv /\ [Next]_vars => MailboxInv'
    BY MailboxStep
  <1>3. MailboxInv => Counted
    <2> SUFFICES ASSUME MailboxInv PROVE Counted
      OBVIOUS
    <2>1. ItemCap
      BY DEF MailboxInv, EventsInv, ItemCap
    <2>2. CountExact
      <3> SUFFICES ASSUME Quiet, count # Unset PROVE count = Cardinality(events) + uncounted
        BY DEF CountExact
      <3>1. PICK s \in Slots : call[s] = Idle /\ CallSound(call[s])
        BY SlotsAssumption DEF Quiet, MailboxInv
      <3> QED BY <3>1 DEF CallSound, Idle
    <2> QED BY <2>1, <2>2 DEF Counted, MailboxInv
  <1> QED BY <1>1, <1>2, <1>3, PTL DEF Spec

-----------------------------------------------------------------------------
(* The bytes of a set of records.                                          *)

LEMMA Smallest ==
    ASSUME NEW C, C # {}, \A S \in C : IsFiniteSet(S)
    PROVE  \E S \in C : \A T \in C : Cardinality(S) <= Cardinality(T)
  <1>1. PICK N : N = {Cardinality(S) : S \in C}
    OBVIOUS
  <1>2. N \in SUBSET Nat /\ N # {}
    BY <1>1, FS_CardinalityType
  <1>3. PICK m \in N : \A x \in N : m <= x
    BY <1>2, Least
  <1> QED BY <1>1, <1>3

(* A set less one of its elements. *)
LEMMA OneLess ==
    ASSUME NEW S, IsFiniteSet(S), NEW x \in S
    PROVE  /\ IsFiniteSet(S \ {x}) /\ ~(Cardinality(S) <= Cardinality(S \ {x}))
           /\ Cardinality(S) \in Nat /\ Cardinality(S) = Cardinality(S \ {x}) + 1
  <1>1. IsFiniteSet(S \ {x}) /\ Cardinality(S \ {x}) = Cardinality(S) - 1
    BY FS_RemoveElement
  <1>2. Cardinality(S) \in Nat
    BY FS_CardinalityType
  <1> QED BY <1>1, <1>2

Pick(s) == CHOOSE x \in s : TRUE

(* f gives the bytes of every subset of S, one chosen record at a time. *)
Sums(f, S) == f = [s \in SUBSET S |-> IF s = {} THEN 0 ELSE Pick(s).size + f[s \ {Pick(s)}]]

LEMMA SizeSums == ASSUME NEW S PROVE Size(S) = (CHOOSE f : Sums(f, S))[S]
  BY DEF Size, MapThenSumSet, MapThenFoldSet, Sums, Pick

(* The same for the subsets of at most n records. *)
Few(S, n) == {s \in SUBSET S : Cardinality(s) <= n}
SumsTo(f, S, n) ==
    f = [s \in Few(S, n) |-> IF s = {} THEN 0 ELSE Pick(s).size + f[s \ {Pick(s)}]]

LEMMA SumsExist ==
    ASSUME NEW S, IsFiniteSet(S)
    PROVE  \E f : Sums(f, S)
  <1>0. \A s \in SUBSET S : IsFiniteSet(s) /\ Cardinality(s) \in Nat /\ Cardinality(s) <= Cardinality(S)
    BY FS_Subset, FS_CardinalityType
  <1>1. ASSUME NEW n \in Nat, NEW f, SumsTo(f, S, n) PROVE \E g : SumsTo(g, S, n + 1)
    <2>1. PICK g : g = [s \in Few(S, n + 1) |-> IF s = {} THEN 0 ELSE Pick(s).size + f[s \ {Pick(s)}]]
      OBVIOUS
    <2>2. Few(S, n) \subseteq Few(S, n + 1)
      BY <1>0 DEF Few
    <2>3. \A s \in Few(S, n) : g[s] = f[s]
      BY <1>1, <2>1, <2>2 DEF SumsTo
    <2>4. ASSUME NEW s \in Few(S, n + 1), s # {} PROVE s \ {Pick(s)} \in Few(S, n)
      <3>1. Pick(s) \in s
        BY <2>4 DEF Pick
      <3>2. /\ Cardinality(s) \in Nat /\ Cardinality(s) = Cardinality(s \ {Pick(s)}) + 1
            /\ Cardinality(s) <= n + 1 /\ s \in SUBSET S
        BY <1>0, <3>1, OneLess DEF Few
      <3>3. Cardinality(s \ {Pick(s)}) \in Nat
        BY <1>0, <3>2
      <3> QED BY <3>2, <3>3 DEF Few
    <2>5. g = [s \in Few(S, n + 1) |-> IF s = {} THEN 0 ELSE Pick(s).size + g[s \ {Pick(s)}]]
      BY <2>1, <2>3, <2>4
    <2> QED BY <2>5 DEF SumsTo
  <1>2. \E f : SumsTo(f, S, 0)
    <2>1. PICK f : f = [s \in Few(S, 0) |-> 0]
      OBVIOUS
    <2>2. \A s \in Few(S, 0) : s = {}
      BY <1>0, FS_EmptySet DEF Few
    <2> QED BY <2>1, <2>2 DEF SumsTo
  <1>3. \A n \in Nat : \E f : SumsTo(f, S, n)
    <2> SUFFICES ASSUME NEW k \in Nat, ~\E f : SumsTo(f, S, k) PROVE FALSE
      OBVIOUS
    <2>1. PICK N : N = {n \in Nat : ~\E f : SumsTo(f, S, n)}
      OBVIOUS
    <2>2. N \in SUBSET Nat /\ N # {}
      BY <2>1
    <2>3. PICK m \in N : \A x \in N : m <= x
      BY <2>2, Least
    <2>4. m \in Nat /\ m # 0
      BY <1>2, <2>1, <2>3
    <2>5. m - 1 \in Nat /\ (m - 1) + 1 = m /\ ~(m <= m - 1)
      BY <2>4
    <2>6. \E f : SumsTo(f, S, m - 1)
      BY <2>1, <2>3, <2>5
    <2>7. \E f : SumsTo(f, S, (m - 1) + 1)
      BY <1>1, <2>5, <2>6
    <2> QED BY <2>1, <2>3, <2>5, <2>7
  <1>4. PICK f : SumsTo(f, S, Cardinality(S))
    BY <1>0, <1>3
  <1>5. Few(S, Cardinality(S)) = SUBSET S
    BY <1>0 DEF Few
  <1> QED BY <1>4, <1>5 DEF Sums, SumsTo

LEMMA SumsAgree ==
    ASSUME NEW S, IsFiniteSet(S), NEW T \in SUBSET S, NEW f, Sums(f, S), NEW g, Sums(g, T)
    PROVE  \A s \in SUBSET T : f[s] = g[s]
  <1> SUFFICES ASSUME NEW t \in SUBSET T, f[t] # g[t] PROVE FALSE
    OBVIOUS
  <1>1. PICK C : C = {s \in SUBSET T : f[s] # g[s]}
    OBVIOUS
  <1>2. C # {} /\ \A s \in C : IsFiniteSet(s)
    BY <1>1, FS_Subset
  <1>3. PICK s \in C : \A r \in C : Cardinality(s) <= Cardinality(r)
    BY <1>2, Smallest
  <1>4. s \in SUBSET T /\ s \in SUBSET S /\ IsFiniteSet(s)
    BY <1>1, <1>2
  <1>5. /\ f[s] = IF s = {} THEN 0 ELSE Pick(s).size + f[s \ {Pick(s)}]
        /\ g[s] = IF s = {} THEN 0 ELSE Pick(s).size + g[s \ {Pick(s)}]
    BY <1>4 DEF Sums
  <1>6. s # {}
    BY <1>1, <1>3, <1>5
  <1>7. Pick(s) \in s
    BY <1>6 DEF Pick
  <1>8. s \ {Pick(s)} \notin C
    BY <1>3, <1>4, <1>7, OneLess
  <1>9. f[s \ {Pick(s)}] = g[s \ {Pick(s)}]
    BY <1>1, <1>4, <1>8
  <1> QED BY <1>1, <1>3, <1>5, <1>9

LEMMA SizeOfChosen ==
    ASSUME NEW S, IsFiniteSet(S)
    PROVE  Size(S) = IF S = {} THEN 0 ELSE Pick(S).size + Size(S \ {Pick(S)})
  <1>1. PICK f : f = CHOOSE g : Sums(g, S)
    OBVIOUS
  <1>2. Sums(f, S) /\ Size(S) = f[S]
    BY <1>1, SumsExist, SizeSums
  <1>3. Size(S) = IF S = {} THEN 0 ELSE Pick(S).size + f[S \ {Pick(S)}]
    BY <1>2 DEF Sums
  <1>4. CASE S = {}
    BY <1>3, <1>4
  <1>5. CASE S # {}
    <2>1. PICK T : T = S \ {Pick(S)}
      OBVIOUS
    <2>2. T \in SUBSET S /\ IsFiniteSet(T)
      BY <2>1, FS_Subset
    <2>3. PICK g : g = CHOOSE h : Sums(h, T)
      OBVIOUS
    <2>4. Sums(g, T) /\ Size(T) = g[T]
      BY <2>2, <2>3, SumsExist, SizeSums
    <2>5. f[T] = g[T]
      BY <1>2, <2>2, <2>4, SumsAgree
    <2> QED BY <1>3, <1>5, <2>1, <2>4, <2>5
  <1> QED BY <1>4, <1>5

LEMMA SizeNat ==
    ASSUME NEW S, IsFiniteSet(S), \A e \in S : e.size \in Nat
    PROVE  Size(S) \in Nat
  <1> SUFFICES ASSUME Size(S) \notin Nat PROVE FALSE
    OBVIOUS
  <1>1. PICK C : C = {s \in SUBSET S : Size(s) \notin Nat}
    OBVIOUS
  <1>2. C # {} /\ \A s \in C : IsFiniteSet(s)
    BY <1>1, FS_Subset
  <1>3. PICK s \in C : \A r \in C : Cardinality(s) <= Cardinality(r)
    BY <1>2, Smallest
  <1>4. s \in SUBSET S /\ IsFiniteSet(s) /\ Size(s) \notin Nat
    BY <1>1, <1>2
  <1>5. Size(s) = IF s = {} THEN 0 ELSE Pick(s).size + Size(s \ {Pick(s)})
    BY <1>4, SizeOfChosen
  <1>6. s # {}
    BY <1>4, <1>5
  <1>7. Pick(s) \in s
    BY <1>6 DEF Pick
  <1>8. s \ {Pick(s)} \notin C
    BY <1>3, <1>4, <1>7, OneLess
  <1>9. Size(s \ {Pick(s)}) \in Nat /\ Pick(s).size \in Nat
    BY <1>1, <1>4, <1>7, <1>8
  <1> QED BY <1>4, <1>5, <1>6, <1>9

(* The bytes of a set are those of any one record and of the others. *)
LEMMA SizeLess ==
    ASSUME NEW S, IsFiniteSet(S), \A e \in S : e.size \in Nat, NEW e \in S
    PROVE  Size(S) = e.size + Size(S \ {e})
  <1> SUFFICES ASSUME Size(S) # e.size + Size(S \ {e}) PROVE FALSE
    OBVIOUS
  <1>1. PICK C : C = {s \in SUBSET S : \E x \in s : Size(s) # x.size + Size(s \ {x})}
    OBVIOUS
  <1>2. C # {} /\ \A s \in C : IsFiniteSet(s)
    <2>1. S \in C
      BY <1>1
    <2> QED BY <1>1, <2>1, FS_Subset
  <1>3. PICK s \in C : \A r \in C : Cardinality(s) <= Cardinality(r)
    BY <1>2, Smallest
  <1>4. PICK x \in s : s \in SUBSET S /\ IsFiniteSet(s) /\ Size(s) # x.size + Size(s \ {x})
    BY <1>1, <1>2
  <1>5. PICK y : y = Pick(s)
    OBVIOUS
  <1>6. y \in s
    BY <1>4, <1>5 DEF Pick
  <1>7. Size(s) = y.size + Size(s \ {y})
    BY <1>4, <1>5, SizeOfChosen
  <1>8. x # y
    BY <1>4, <1>7
  <1>9. s \ {y} \notin C /\ s \ {x} \notin C
    BY <1>3, <1>4, <1>6, OneLess
  <1>10. Size(s \ {y}) = x.size + Size((s \ {y}) \ {x})
    BY <1>1, <1>4, <1>8, <1>9
  <1>11. Size(s \ {x}) = y.size + Size((s \ {x}) \ {y})
    BY <1>1, <1>4, <1>6, <1>8, <1>9
  <1>12. PICK r : r = (s \ {x}) \ {y}
    OBVIOUS
  <1>13. (s \ {y}) \ {x} = r /\ IsFiniteSet(r) /\ \A d \in r : d.size \in Nat
    BY <1>4, <1>12, FS_Subset
  <1>14. Size(r) \in Nat /\ x.size \in Nat /\ y.size \in Nat
    BY <1>4, <1>6, <1>13, SizeNat
  <1>15. PICK a \in Nat, b \in Nat, n \in Nat : a = x.size /\ b = y.size /\ n = Size(r)
    BY <1>14
  <1>16. Size(s) = b + (a + n) /\ Size(s \ {x}) = b + n
    BY <1>7, <1>10, <1>11, <1>12, <1>13, <1>15
  <1>17. b + (a + n) = a + (b + n)
    BY ONLY <1>15
  <1> QED BY <1>4, <1>15, <1>16, <1>17

LEMMA SizeMore ==
    ASSUME NEW S, IsFiniteSet(S), \A e \in S : e.size \in Nat, NEW e, e \notin S, e.size \in Nat
    PROVE  Size(S \cup {e}) = e.size + Size(S)
  <1>1. PICK T : T = S \cup {e}
    OBVIOUS
  <1>2. IsFiniteSet(T) /\ e \in T /\ T \ {e} = S /\ \A d \in T : d.size \in Nat
    BY <1>1, FS_AddElement
  <1> QED BY <1>1, <1>2, SizeLess

-----------------------------------------------------------------------------
(* The byte total.                                                         *)

(* There is a largest record. *)
Largest == \E m \in Sizes : \A n \in Sizes : n <= m

(* One record for every crash and every rejected operation. *)
Slack == (crashes + rejects) * MaxSize

Near(a, b, d) == a <= b + d /\ b <= a + d

(* The ack c has removed a record whose bytes it still has to release. *)
Owing(c) ==
    \/ c.pc \in {"removed", "release"}
    \/ c.pc \in {"read", "seed"} /\ c.then = "release"

(* How the totals b in memory and z in the store compare with the n bytes of *)
(* the records, at each step of the call c: they differ by d at most, but    *)
(* for the record the call has put or removed and not yet accounted for.     *)
Drift(c, b, z, n, d) ==
    /\ c.pc \notin {"stored", "persist"} /\ ~Owing(c) =>
          Near(z, n, d) /\ (b # Unset => Near(b, n, d))
    /\ c.pc = "seed" => c.total = z
    /\ c.pc \in {"bytes", "release"} => b # Unset /\ c.used = b
    /\ c.pc \in {"put", "stored"} => b # Unset
    /\ c.pc = "stored" => Near(z + c.size, n, d) /\ Near(b + c.size, n, d)
    /\ Owing(c) => Near(z, n + c.size, d) /\ (b # Unset => Near(b, n + c.size, d))
    /\ c.pc = "persist" => b = c.total /\ Near(c.total, n, d) /\ Near(z, n, d + MaxSize)

DriftInv ==
    MailboxInv /\ \A s \in Slots : Drift(call[s], bytes, bytesz, Size(events), Slack)

LEMMA MaxSizeFacts ==
    ASSUME Largest
    PROVE  MaxSize \in Nat /\ MaxSize \in Sizes /\ \A n \in Sizes : n \in Nat /\ n <= MaxSize
  <1>1. PICK m \in Sizes : \A n \in Sizes : n <= m
    BY DEF Largest
  <1>2. MaxSize \in Sizes /\ \A n \in Sizes : n <= MaxSize
    BY <1>1 DEF MaxSize, Max
  <1> QED BY <1>2, SizesAssumption

LEMMA DriftTypes ==
    ASSUME Largest, MailboxInv
    PROVE  /\ bytesz \in Nat /\ bytes \in Nat \cup {Unset} /\ Slack \in Nat
           /\ Size(events) \in Nat /\ IsFiniteSet(events) /\ \A e \in events : e.size \in Nat
  <1>1. \A e \in events : e.size \in Nat
    BY SizesAssumption DEF MailboxInv, TypeOK, Event
  <1>2. IsFiniteSet(events) /\ crashes \in Nat /\ rejects \in Nat
    BY DEF MailboxInv, EventsInv, TypeOK
  <1>3. Slack \in Nat
    <2>1. crashes + rejects \in Nat /\ MaxSize \in Nat
      BY <1>2, MaxSizeFacts
    <2> QED BY <2>1 DEF Slack
  <1> QED BY <1>1, <1>2, <1>3, SizeNat DEF MailboxInv, TypeOK

(* A step of the call that leaves the store and the totals alone. *)
LEMMA CallMoves ==
    ASSUME NEW s, Slots = {s}, DriftInv, MailboxInv', NEW c, call' = [call EXCEPT ![s] = c],
           UNCHANGED <<store, bytes, crashes, rejects>>, Drift(c, bytes, bytesz, Size(events), Slack)
    PROVE  DriftInv'
  <1>1. call'[s] = c
    BY DEF DriftInv, MailboxInv, TypeOK
  <1>2. UNCHANGED <<events, bytesz, bytes, Slack>>
    BY DEF store, Slack
  <1>3. Size(events') = Size(events)
    BY <1>2
  <1> QED BY <1>1, <1>2, <1>3 DEF DriftInv

LEMMA DriftKept ==
    ASSUME DriftInv, MailboxInv', UNCHANGED <<store, bytes, crashes, rejects, call>>
    PROVE  DriftInv'
  <1>1. UNCHANGED <<events, bytesz, bytes, Slack>>
    BY DEF store, Slack
  <1>2. Size(events') = Size(events)
    BY <1>1
  <1> QED BY <1>1, <1>2 DEF DriftInv

LEMMA DriftBegins ==
    ASSUME NEW s, Slots = {s}, DriftInv, MailboxInv',
           (\E record : DepositBegin(s, record)) \/ (\E e : AckBegin(s, e))
    PROVE  DriftInv'
  <1>1. PICK c : call' = [call EXCEPT ![s] = c] /\ c.pc \in {"items", "scan", "remove"}
    <2>1. ASSUME NEW record, DepositBegin(s, record)
          PROVE  \E c : call' = [call EXCEPT ![s] = c] /\ c.pc \in {"items", "scan", "remove"}
      <3>1. PICK c : c = IF count # Unset
                         THEN [pc |-> "items", size |-> record.size, seen |-> count]
                         ELSE [pc |-> "scan", size |-> record.size, cursor |-> NoCursor, acc |-> 0]
        OBVIOUS
      <3>2. call' = [call EXCEPT ![s] = c]
        BY <2>1, <3>1 DEF DepositBegin
      <3>3. c.pc \in {"items", "scan", "remove"}
        BY <3>1
      <3> QED BY <3>2, <3>3
    <2>2. ASSUME NEW e, AckBegin(s, e)
          PROVE  \E c : call' = [call EXCEPT ![s] = c] /\ c.pc \in {"items", "scan", "remove"}
      <3>1. PICK c : c = [pc |-> "remove", size |-> e.size, id |-> e.id]
        OBVIOUS
      <3>2. call' = [call EXCEPT ![s] = c]
        BY <2>2, <3>1 DEF AckBegin
      <3>3. c.pc \in {"items", "scan", "remove"}
        BY <3>1
      <3> QED BY <3>2, <3>3
    <2> QED BY <2>1, <2>2
  <1>2. call[s] = Idle /\ UNCHANGED <<store, bytes, crashes, rejects>>
    BY DEF DepositBegin, AckBegin, memory, bounds
  <1>3. Drift(Idle, bytes, bytesz, Size(events), Slack)
    BY <1>2 DEF DriftInv
  <1>4. Drift(c, bytes, bytesz, Size(events), Slack)
    BY <1>1, <1>3 DEF Drift, Owing, Idle
  <1> QED BY <1>1, <1>2, <1>4, CallMoves

LEMMA DriftCounts ==
    ASSUME NEW s, Slots = {s}, DriftInv, MailboxInv',
           SeedPage(s) \/ SeedCount(s) \/ CheckItems(s) \/ ReadBytes(s) \/ CheckBytes(s) \/ CountAck(s)
    PROVE  DriftInv'
  <1>1. PICK c, b, z, n, d : /\ c = call[s] /\ b = bytes /\ z = bytesz /\ n = Size(events)
                             /\ d = Slack /\ Drift(c, b, z, n, d)
    BY DEF DriftInv
  <1>2. UNCHANGED <<store, bytes, crashes, rejects>>
    BY DEF SeedPage, SeedCount, CheckItems, ReadBytes, CheckBytes, CountAck, memory, bounds
  <1> SUFFICES \E e : call' = [call EXCEPT ![s] = e] /\ Drift(e, b, z, n, d)
    BY <1>1, <1>2, CallMoves
  <1>3. CASE SeedPage(s)
    <2>1. PICK page, acc : /\ page = List(events, c.cursor)
                           /\ acc = c.acc + Cardinality(page.items)
      OBVIOUS
    <2>2. PICK e : e = IF page.nextCursor # NoCursor
                       THEN [pc |-> "scan", size |-> c.size, cursor |-> page.nextCursor, acc |-> acc]
                       ELSE [pc |-> "scanned", size |-> c.size, acc |-> acc]
      OBVIOUS
    <2>3. c.pc = "scan" /\ call' = [call EXCEPT ![s] = e]
      BY <1>1, <1>3, <2>1, <2>2 DEF SeedPage
    <2>4. e.pc \in {"scan", "scanned"}
      BY <2>2
    <2>5. Drift(e, b, z, n, d)
      BY <1>1, <2>3, <2>4 DEF Drift, Owing
    <2> QED BY <2>3, <2>5
  <1>4. CASE SeedCount(s)
    <2>1. PICK e : e = [pc |-> "items", size |-> c.size, seen |-> c.acc]
      OBVIOUS
    <2>2. c.pc = "scanned" /\ call' = [call EXCEPT ![s] = e]
      BY <1>1, <1>4, <2>1 DEF SeedCount
    <2>3. Drift(e, b, z, n, d)
      BY <1>1, <2>1, <2>2 DEF Drift, Owing
    <2> QED BY <2>2, <2>3
  <1>5. CASE CheckItems(s)
    <2>1. c.pc = "items" /\ Near(z, n, d) /\ (b # Unset => Near(b, n, d))
      BY <1>1, <1>5 DEF CheckItems, Drift, Owing
    <2>2. PICK e : /\ call' = [call EXCEPT ![s] = e]
                   /\ \/ e = Idle
                      \/ b # Unset /\ e = [pc |-> "bytes", size |-> c.size, used |-> b]
                      \/ e = [pc |-> "read", size |-> c.size, then |-> "bytes"]
      BY <1>1, <1>5 DEF CheckItems
    <2>3. Drift(e, b, z, n, d)
      BY <1>1, <2>1, <2>2 DEF Drift, Owing, Idle
    <2> QED BY <2>2, <2>3
  <1>6. CASE ReadBytes(s)
    <2>1. /\ c.pc = "read"
          /\ call' = [call EXCEPT ![s] =
                        [pc |-> "seed", size |-> c.size, then |-> c.then, total |-> z]]
      BY <1>1, <1>6 DEF ReadBytes
    <2>2. Drift([pc |-> "seed", size |-> c.size, then |-> c.then, total |-> z], b, z, n, d)
      BY <1>1, <2>1 DEF Drift, Owing
    <2> QED BY <2>1, <2>2
  <1>7. CASE CheckBytes(s)
    <2>1. PICK e : /\ call' = [call EXCEPT ![s] = e]
                   /\ e = Idle \/ e = [pc |-> "put", size |-> c.size, id |-> NextEventId]
      BY <1>1, <1>7 DEF CheckBytes
    <2>2. c.pc = "bytes"
      BY <1>1, <1>7 DEF CheckBytes
    <2>3. Drift(e, b, z, n, d)
      BY <1>1, <2>1, <2>2 DEF Drift, Owing, Idle
    <2> QED BY <2>1, <2>3
  <1>8. CASE CountAck(s)
    <2>1. PICK e : /\ call' = [call EXCEPT ![s] = e]
                   /\ \/ b # Unset /\ e = [pc |-> "release", size |-> c.size, used |-> b]
                      \/ e = [pc |-> "read", size |-> c.size, then |-> "release"]
      BY <1>1, <1>8 DEF CountAck
    <2>2. c.pc = "removed"
      BY <1>1, <1>8 DEF CountAck
    <2>3. Drift(e, b, z, n, d)
      BY <1>1, <2>1, <2>2 DEF Drift, Owing
    <2> QED BY <2>1, <2>3
  <1> QED BY <1>3, <1>4, <1>5, <1>6, <1>7, <1>8

LEMMA CallGoes ==
    ASSUME NEW s, Slots = {s}, DriftInv, MailboxInv', NEW c, call' = [call EXCEPT ![s] = c],
           Drift(c, bytes', bytesz', Size(events'), Slack')
    PROVE  DriftInv'
  <1>1. call'[s] = c
    BY DEF DriftInv, MailboxInv, TypeOK
  <1> QED BY <1>1 DEF DriftInv

(* What is known of a call, in numbers. *)
LEMMA DriftNumbers ==
    ASSUME Largest, NEW s, Slots = {s}, DriftInv
    PROVE  \E c \in Call, b \in Nat \cup {Unset}, z \in Nat, n \in Nat, d \in Nat :
              /\ c = call[s] /\ b = bytes /\ z = bytesz /\ n = Size(events) /\ d = Slack
              /\ Drift(c, b, z, n, d)
  <1>1. call[s] \in Call /\ Drift(call[s], bytes, bytesz, Size(events), Slack) /\ MailboxInv
    BY SerialFacts DEF DriftInv
  <1>2. bytesz \in Nat /\ bytes \in Nat \cup {Unset} /\ Slack \in Nat /\ Size(events) \in Nat
    BY <1>1, DriftTypes
  <1> QED BY <1>1, <1>2

LEMMA DriftSeeds ==
    ASSUME Largest, NEW s, Slots = {s}, DriftInv, MailboxInv', SeedBytes(s)
    PROVE  DriftInv'
  <1>1. PICK c \in Call, b \in Nat \cup {Unset}, z \in Nat, n \in Nat, d \in Nat :
              /\ c = call[s] /\ b = bytes /\ z = bytesz /\ n = Size(events) /\ d = Slack
              /\ Drift(c, b, z, n, d)
    BY DriftNumbers
  <1>2. PICK e : e = [pc |-> c.then, size |-> c.size, used |-> c.total]
    OBVIOUS
  <1>3. /\ c.pc = "seed" /\ bytes' = c.total /\ call' = [call EXCEPT ![s] = e]
        /\ UNCHANGED <<store, bounds>>
    BY <1>1, <1>2 DEF SeedBytes
  <1>4. c.total = z /\ c.then \in {"bytes", "release"}
    BY <1>1, <1>3, CallFacts DEF Drift
  <1>5. /\ c.then = "bytes" => Near(z, n, d)
        /\ c.then = "release" => Near(z, n + c.size, d)
    BY <1>1, <1>3 DEF Drift, Owing
  <1>6. Drift(e, z, z, n, d)
    <2>1. z # Unset
      BY <1>1 DEF Unset
    <2> QED BY <1>2, <1>4, <1>5, <2>1 DEF Drift, Owing
  <1>7. bytes' = z /\ bytesz' = z /\ Size(events') = n /\ Slack' = d
    BY <1>1, <1>3, <1>4 DEF store, bounds, Slack
  <1> QED BY <1>3, <1>6, <1>7, CallGoes

LEMMA DriftPuts ==
    ASSUME Largest, NEW s, Slots = {s}, DriftInv, MailboxInv', Put(s)
    PROVE  DriftInv'
  <1>1. PICK c \in Call, b \in Nat \cup {Unset}, z \in Nat, n \in Nat, d \in Nat :
              /\ c = call[s] /\ b = bytes /\ z = bytesz /\ n = Size(events) /\ d = Slack
              /\ Drift(c, b, z, n, d)
    BY DriftNumbers
  <1>2. PICK x, e : x = [id |-> c.id, size |-> c.size] /\ e = [c EXCEPT !.pc = "stored"]
    OBVIOUS
  <1>3. /\ c.pc = "put" /\ events' = events \cup {x} /\ call' = [call EXCEPT ![s] = e]
        /\ UNCHANGED <<bytesz, memory, bounds>>
    BY <1>1, <1>2, SerialFacts DEF Put, DriftInv, MailboxInv, TypeOK
  <1>4. c.size \in Sizes /\ c = [pc |-> c.pc, size |-> c.size, id |-> c.id]
    BY <1>1, <1>3, CallFacts
  <1>5. PICK k \in Nat : k = c.size
    BY <1>4, MaxSizeFacts
  <1>6. e.pc = "stored" /\ e.size = k /\ x.size = k
    BY <1>2, <1>4, <1>5
  <1>7. x \notin events
    <2>1. CallSound(c)
      BY <1>1, SerialFacts DEF DriftInv
    <2>2. c.id \notin Ids(events)
      BY <1>3, <2>1 DEF CallSound
    <2> QED BY <1>2, <2>2 DEF Ids
  <1>8. Size(events') = k + n
    BY <1>1, <1>3, <1>5, <1>6, <1>7, SizeMore, DriftTypes DEF DriftInv
  <1>9. b # Unset /\ b \in Nat /\ Near(z, n, d) /\ Near(b, n, d)
    BY <1>1, <1>3 DEF Drift, Owing
  <1>10. Near(z + k, k + n, d) /\ Near(b + k, k + n, d)
    BY <1>1, <1>5, <1>9 DEF Near
  <1>11. Drift(e, b, z, k + n, d)
    BY <1>6, <1>9, <1>10 DEF Drift, Owing
  <1>12. bytes' = b /\ bytesz' = z /\ Slack' = d
    BY <1>1, <1>3 DEF memory, bounds, Slack
  <1> QED BY <1>3, <1>8, <1>11, <1>12, CallGoes

LEMMA DriftDeposits ==
    ASSUME Largest, NEW s, Slots = {s}, DriftInv, MailboxInv', CountDeposit(s)
    PROVE  DriftInv'
  <1>1. PICK c \in Call, b \in Nat \cup {Unset}, z \in Nat, n \in Nat, d \in Nat :
              /\ c = call[s] /\ b = bytes /\ z = bytesz /\ n = Size(events) /\ d = Slack
              /\ Drift(c, b, z, n, d)
    BY DriftNumbers
  <1>2. c.pc = "stored" /\ UNCHANGED <<store, bounds>>
    BY <1>1 DEF CountDeposit
  <1>3. PICK k \in Nat, m \in Nat : k = c.size /\ m = MaxSize /\ k <= m
    BY <1>1, <1>2, CallFacts, MaxSizeFacts
  <1>4. b # Unset /\ b \in Nat /\ Near(z + k, n, d) /\ Near(b + k, n, d)
    BY <1>1, <1>2, <1>3 DEF Drift
  <1>5. OrZero(b) = b
    BY <1>1, <1>4 DEF OrZero, Unset
  <1>6. PICK t, e : t = b + k /\ e = [pc |-> "persist", total |-> t, id |-> c.id]
    OBVIOUS
  <1>7. bytes' = t /\ call' = [call EXCEPT ![s] = e]
    BY <1>1, <1>3, <1>5, <1>6 DEF CountDeposit
  <1>8. Near(t, n, d) /\ Near(z, n, d + m)
    BY <1>1, <1>3, <1>4, <1>6 DEF Near
  <1>9. Drift(e, t, z, n, d)
    BY <1>3, <1>6, <1>8 DEF Drift, Owing
  <1>10. bytesz' = z /\ Size(events') = n /\ Slack' = d
    BY <1>1, <1>2 DEF store, bounds, Slack
  <1> QED BY <1>7, <1>9, <1>10, CallGoes

LEMMA DriftPersists ==
    ASSUME Largest, NEW s, Slots = {s}, DriftInv, MailboxInv', Persist(s)
    PROVE  DriftInv'
  <1>1. PICK c \in Call, b \in Nat \cup {Unset}, z \in Nat, n \in Nat, d \in Nat :
              /\ c = call[s] /\ b = bytes /\ z = bytesz /\ n = Size(events) /\ d = Slack
              /\ Drift(c, b, z, n, d)
    BY DriftNumbers
  <1>2. /\ c.pc = "persist" /\ bytesz' = c.total /\ call' = [call EXCEPT ![s] = Idle]
        /\ UNCHANGED <<events, memory, bounds>>
    BY <1>1 DEF Persist
  <1>3. b = c.total /\ Near(c.total, n, d)
    BY <1>1, <1>2 DEF Drift
  <1>4. Drift(Idle, b, c.total, n, d)
    BY <1>3 DEF Drift, Owing, Idle
  <1>5. bytes' = b /\ Size(events') = n /\ Slack' = d
    BY <1>1, <1>2 DEF memory, bounds, Slack
  <1> QED BY <1>2, <1>4, <1>5, CallGoes

LEMMA DriftRemoves ==
    ASSUME Largest, NEW s, Slots = {s}, DriftInv, MailboxInv', AckRemove(s)
    PROVE  DriftInv'
  <1>1. PICK c \in Call, b \in Nat \cup {Unset}, z \in Nat, n \in Nat, d \in Nat :
              /\ c = call[s] /\ b = bytes /\ z = bytesz /\ n = Size(events) /\ d = Slack
              /\ Drift(c, b, z, n, d)
    BY DriftNumbers
  <1>2. PICK x, e : x = [id |-> c.id, size |-> c.size] /\ e = [pc |-> "removed", size |-> c.size]
    OBVIOUS
  <1>3. c.pc = "remove" /\ UNCHANGED <<bytesz, memory, bounds>>
    BY <1>1 DEF AckRemove
  <1>4. Near(z, n, d) /\ (b # Unset => Near(b, n, d))
    BY <1>1, <1>3 DEF Drift, Owing
  <1>5. bytes' = b /\ bytesz' = z /\ Slack' = d
    BY <1>1, <1>3 DEF memory, bounds, Slack
  <1>6. CASE x \in events
    <2>1. events' = events \ {x} /\ call' = [call EXCEPT ![s] = e]
      BY <1>1, <1>2, <1>6 DEF AckRemove
    <2>2. n = x.size + Size(events')
      BY <1>1, <1>6, <2>1, DriftTypes, SizeLess DEF DriftInv
    <2>3. Size(events') \in Nat
      BY <2>1, DriftTypes, FS_Subset, SizeNat DEF DriftInv
    <2>4. PICK k \in Nat, p \in Nat : k = c.size /\ p = Size(events') /\ p + k = n
      <3>1. x.size \in Nat /\ x.size = c.size
        BY <1>2, <1>6, DriftTypes DEF DriftInv
      <3> QED BY <2>2, <2>3, <3>1
    <2>5. Drift(e, b, z, p, d)
      BY <1>2, <1>4, <2>4 DEF Drift, Owing
    <2> QED BY <1>5, <2>1, <2>4, <2>5, CallGoes
  <1>7. CASE x \notin events
    <2>1. events' = events /\ call' = [call EXCEPT ![s] = Idle]
      BY <1>1, <1>2, <1>7 DEF AckRemove
    <2>2. Size(events') = n
      BY <1>1, <2>1
    <2>3. Drift(Idle, b, z, n, d)
      BY <1>4 DEF Drift, Owing, Idle
    <2> QED BY <1>5, <2>1, <2>2, <2>3, CallGoes
  <1> QED BY <1>6, <1>7

LEMMA DriftReleases ==
    ASSUME Largest, NEW s, Slots = {s}, DriftInv, MailboxInv', ReleaseBytes(s)
    PROVE  DriftInv'
  <1>1. PICK c \in Call, b \in Nat \cup {Unset}, z \in Nat, n \in Nat, d \in Nat :
              /\ c = call[s] /\ b = bytes /\ z = bytesz /\ n = Size(events) /\ d = Slack
              /\ Drift(c, b, z, n, d)
    BY DriftNumbers
  <1>2. c.pc = "release" /\ UNCHANGED <<store, bounds>>
    BY <1>1 DEF ReleaseBytes, Release
  <1>3. PICK k \in Nat, m \in Nat : k = c.size /\ m = MaxSize /\ k <= m
    BY <1>1, <1>2, CallFacts, MaxSizeFacts
  <1>4. b # Unset /\ b \in Nat /\ c.used = b /\ Near(b, n + k, d) /\ Near(z, n + k, d)
    BY <1>1, <1>2, <1>3 DEF Drift, Owing
  <1>5. PICK t, e : t = Max({b - k, 0}) /\ e = [pc |-> "persist", total |-> t, id |-> 0]
    OBVIOUS
  <1>6. bytes' = t /\ call' = [call EXCEPT ![s] = e]
    BY <1>1, <1>3, <1>4, <1>5 DEF ReleaseBytes, Release
  <1>7. b - k \in Int
    BY <1>3, <1>4
  <1>8. t = IF b - k >= 0 THEN b - k ELSE 0
    BY <1>5, <1>7, MaxOfTwo
  <1>9. Near(t, n, d) /\ Near(z, n, d + m)
    BY <1>1, <1>3, <1>4, <1>8 DEF Near
  <1>10. Drift(e, t, z, n, d)
    BY <1>3, <1>5, <1>9 DEF Drift, Owing
  <1>11. bytesz' = z /\ Size(events') = n /\ Slack' = d
    BY <1>1, <1>2 DEF store, bounds, Slack
  <1> QED BY <1>6, <1>10, <1>11, CallGoes

(* A further crash or rejection is a further record of slack. *)
LEMMA SlackGrows ==
    ASSUME Largest, DriftInv, crashes' + rejects' = crashes + rejects + 1
    PROVE  Slack' = Slack + MaxSize
  <1>1. PICK i \in Nat : i = crashes + rejects
    BY DEF DriftInv, MailboxInv, TypeOK
  <1>2. PICK m \in Nat : m = MaxSize
    BY MaxSizeFacts
  <1>3. (i + 1) * m = i * m + m
    BY <1>1, <1>2
  <1> QED BY <1>1, <1>2, <1>3 DEF Slack

(* Wherever the call c stops, both totals are within the slack and one record. *)
LEMMA Stops ==
    ASSUME Largest, NEW c \in Call, NEW b \in Nat \cup {Unset}, NEW z \in Nat, NEW n \in Nat,
           NEW d \in Nat, Drift(c, b, z, n, d)
    PROVE  /\ Near(z, n, d + MaxSize)
           /\ c.pc # "stored" /\ b # Unset => Near(b, n, d + MaxSize)
  <1>1. PICK m \in Nat : m = MaxSize /\ \A k \in Sizes : k \in Nat /\ k <= m
    BY MaxSizeFacts
  <1>2. CASE c.pc = "persist"
    <2>1. b = c.total /\ Near(b, n, d) /\ Near(z, n, d + m) /\ b \in Nat
      BY <1>1, <1>2, CallFacts DEF Drift
    <2> QED BY <1>1, <2>1 DEF Near
  <1>3. CASE c.pc = "stored"
    <2>1. PICK k \in Nat : k = c.size /\ k <= m
      BY <1>1, <1>3, CallFacts
    <2>2. Near(z + k, n, d)
      BY <1>3, <2>1 DEF Drift
    <2> QED BY <1>1, <1>3, <2>1, <2>2 DEF Near
  <1>4. CASE Owing(c)
    <2>1. PICK k \in Nat : k = c.size /\ k <= m
      BY <1>1, <1>4, CallFacts DEF Owing
    <2>2. Near(z, n + k, d) /\ (b # Unset => Near(b, n + k, d))
      BY <1>4, <2>1 DEF Drift
    <2> QED BY <1>1, <2>1, <2>2 DEF Near
  <1>5. CASE c.pc \notin {"stored", "persist"} /\ ~Owing(c)
    <2>1. Near(z, n, d) /\ (b # Unset => Near(b, n, d))
      BY <1>5 DEF Drift
    <2> QED BY <1>1, <2>1 DEF Near
  <1> QED BY <1>2, <1>3, <1>4, <1>5

LEMMA DriftCrashes ==
    ASSUME Largest, NEW s, Slots = {s}, DriftInv, MailboxInv', Crash
    PROVE  DriftInv'
  <1>1. PICK c \in Call, b \in Nat \cup {Unset}, z \in Nat, n \in Nat, d \in Nat :
              /\ c = call[s] /\ b = bytes /\ z = bytesz /\ n = Size(events) /\ d = Slack
              /\ Drift(c, b, z, n, d)
    BY DriftNumbers
  <1>2. /\ crashes' = crashes + 1 /\ rejects' = rejects /\ bytes' = Unset
        /\ call' = [r \in Slots |-> Idle] /\ UNCHANGED store
    BY DEF Crash
  <1>3. bytesz' = z /\ Size(events') = n /\ call'[s] = Idle
    BY <1>1, <1>2 DEF store
  <1>4. Slack' = d + MaxSize
    <2>1. crashes \in Nat /\ rejects \in Nat
      BY DEF DriftInv, MailboxInv, TypeOK
    <2>2. crashes' + rejects' = crashes + rejects + 1
      BY <1>2, <2>1
    <2> QED BY <1>1, <2>2, SlackGrows
  <1>5. Near(z, n, d + MaxSize)
    BY <1>1, Stops
  <1>6. Drift(Idle, Unset, z, n, d + MaxSize)
    BY <1>5 DEF Drift, Owing, Idle
  <1> QED BY <1>2, <1>3, <1>4, <1>6 DEF DriftInv

LEMMA DriftRejects ==
    ASSUME Largest, NEW s, Slots = {s}, DriftInv, MailboxInv', StoreRejects(s) \/ RemoveRejects(s)
    PROVE  DriftInv'
  <1>1. PICK c \in Call, b \in Nat \cup {Unset}, z \in Nat, n \in Nat, d \in Nat :
              /\ c = call[s] /\ b = bytes /\ z = bytesz /\ n = Size(events) /\ d = Slack
              /\ Drift(c, b, z, n, d)
    BY DriftNumbers
  <1>2. /\ c.pc # "stored" /\ rejects' = rejects + 1 /\ crashes' = crashes
        /\ call' = [call EXCEPT ![s] = Idle] /\ UNCHANGED <<bytesz, memory>>
    BY <1>1 DEF StoreRejects, RemoveRejects, store
  <1>3. bytes' = b /\ bytesz' = z
    BY <1>1, <1>2 DEF memory
  <1>4. PICK m \in Nat : m = MaxSize /\ \A k \in Sizes : k \in Nat /\ k <= m
    BY MaxSizeFacts
  <1>5. Slack' = d + m
    <2>1. crashes \in Nat /\ rejects \in Nat
      BY DEF DriftInv, MailboxInv, TypeOK
    <2>2. crashes' + rejects' = crashes + rejects + 1
      BY <1>2, <2>1
    <2> QED BY <1>1, <1>4, <2>2, SlackGrows
  <1>6. CASE StoreRejects(s)
    <2>1. Size(events') = n
      BY <1>1, <1>6 DEF StoreRejects, store
    <2>2. Near(z, n, d + m) /\ (b # Unset => Near(b, n, d + m))
      BY <1>1, <1>2, <1>4, Stops
    <2>3. Drift(Idle, b, z, n, d + m)
      BY <2>2 DEF Drift, Owing, Idle
    <2> QED BY <1>2, <1>3, <1>5, <2>1, <2>3, CallGoes
  <1>7. CASE RemoveRejects(s)
    <2>1. PICK x : x = [id |-> c.id, size |-> c.size]
      OBVIOUS
    <2>2. c.pc = "remove" /\ x \in events /\ events' = events \ {x}
      BY <1>1, <1>7, <2>1 DEF RemoveRejects
    <2>3. n = x.size + Size(events')
      BY <1>1, <2>2, DriftTypes, SizeLess DEF DriftInv
    <2>4. Size(events') \in Nat
      BY <2>2, DriftTypes, FS_Subset, SizeNat DEF DriftInv
    <2>5. PICK k \in Nat, p \in Nat : k = c.size /\ p = Size(events') /\ p + k = n /\ k <= m
      <3>1. x.size \in Nat /\ x.size = c.size /\ c.size <= m
        BY <1>4, <2>1, <2>2, CallFacts
      <3> QED BY <2>3, <2>4, <3>1
    <2>6. Near(z, n, d) /\ (b # Unset => Near(b, n, d))
      BY <1>1, <2>2 DEF Drift, Owing
    <2>7. Near(z, p, d + m) /\ (b # Unset => Near(b, p, d + m))
      BY <1>1, <1>4, <2>5, <2>6 DEF Near
    <2>8. Drift(Idle, b, z, p, d + m)
      BY <2>7 DEF Drift, Owing, Idle
    <2> QED BY <1>2, <1>3, <1>5, <2>5, <2>8, CallGoes
  <1> QED BY <1>6, <1>7

LEMMA DriftInit == ASSUME Largest, Init PROVE DriftInv
  <1>1. MailboxInv
    BY MailboxInit
  <1>2. bytesz = 0 /\ bytes = Unset /\ crashes = 0 /\ rejects = 0 /\ \A s \in Slots : call[s] = Idle
    BY DEF Init
  <1>3. Slack = 0
    BY <1>2, MaxSizeFacts DEF Slack
  <1>4. Size(events) = 0
    <2>1. events = {} /\ IsFiniteSet({})
      BY FS_EmptySet DEF Init
    <2> QED BY <2>1, SizeOfChosen
  <1>5. Drift(Idle, Unset, 0, 0, 0)
    BY DEF Drift, Owing, Near, Idle
  <1> QED BY <1>1, <1>2, <1>3, <1>4, <1>5 DEF DriftInv

LEMMA DriftStep ==
    ASSUME Serial, Largest, DriftInv, [Next]_vars
    PROVE  DriftInv'
  <1>0. MailboxInv'
    BY MailboxStep DEF DriftInv
  <1>1. PICK s : Slots = {s}
    BY DEF Serial
  <1>2. CASE (\E record : DepositBegin(s, record)) \/ (\E e : AckBegin(s, e))
    BY <1>0, <1>1, <1>2, DriftBegins
  <1>3. CASE \E packet \in WireBytes : DepositFromWire(s, packet)
    <2>1. \E record : DepositBegin(s, record)
      BY <1>3 DEF DepositFromWire
    <2> QED BY <1>0, <1>1, <2>1, DriftBegins
  <1>4. CASE CallStep(s)
    BY <1>0, <1>1, <1>4, DriftCounts, DriftSeeds, DriftPuts, DriftDeposits, DriftPersists,
       DriftRemoves, DriftReleases DEF CallStep
  <1>5. CASE \/ ReadPage \/ ReadEmpty \/ WaitForDeposit \/ WaitTimeout
             \/ UNCHANGED vars \/ \E id \in timers : OnDeposit(id)
             \/ \E fn \in BOOLEAN : SetOnDeposit(fn)
    <2>1. UNCHANGED <<store, bytes, crashes, rejects, call>>
      BY <1>5 DEF ReadPage, ReadEmpty, WaitForDeposit, WaitTimeout, OnDeposit, SetOnDeposit, vars,
         memory, bounds
    <2> QED BY <1>0, <2>1, DriftKept
  <1>6. CASE Crash
    BY <1>0, <1>1, <1>6, DriftCrashes
  <1>7. CASE StoreRejects(s) \/ RemoveRejects(s)
    BY <1>0, <1>1, <1>7, DriftRejects
  <1> QED BY <1>1, <1>2, <1>3, <1>4, <1>5, <1>6, <1>7 DEF Next

(* With calls that do not overlap and records of bounded size, for any caps, *)
(* deposits, acknowledgements, crashes and rejected store operations:        *)
(* whenever no call is in progress the byte total, in memory or persisted,   *)
(* differs from the bytes stored by at most one largest record per crash and *)
(* per rejection (deposit, ack, #ensureBytes).                               *)
THEOREM DriftBounded ==
    ASSUME Serial, Largest
    PROVE  Spec => []ByteDrift
  <1>1. Init => DriftInv
    BY DriftInit
  <1>2. DriftInv /\ [Next]_vars => DriftInv'
    BY DriftStep
  <1>3. DriftInv => ByteDrift
    <2> SUFFICES ASSUME DriftInv, Quiet
                 PROVE  /\ Total <= Size(events) + (crashes + rejects) * MaxSize
                        /\ Size(events) <= Total + (crashes + rejects) * MaxSize
      BY DEF ByteDrift
    <2>1. PICK s \in Slots : /\ call[s] = Idle
                             /\ Drift(call[s], bytes, bytesz, Size(events), Slack)
      BY SlotsAssumption DEF Quiet, DriftInv
    <2>2. Near(bytesz, Size(events), Slack) /\ (bytes # Unset => Near(bytes, Size(events), Slack))
      BY <2>1 DEF Drift, Owing, Idle
    <2>3. Near(Total, Size(events), Slack)
      BY <2>2 DEF Total
    <2> QED BY <2>3 DEF Near, Slack
  <1> QED BY <1>1, <1>2, <1>3, PTL DEF Spec
=============================================================================
