-------------------------- MODULE OnionRelayProofs --------------------------
(***************************************************************************)
(* A relay opens no packet twice while its replay cache remembers it, and  *)
(* no packet leaves the path its sender chose, for every path, cache       *)
(* capacity, number of overlapping peels, damaged packets, key rotations   *)
(* and restarts.                                                           *)
(***************************************************************************)
EXTENDS OnionRelay, FiniteSetTheorems, WellFoundedInduction, TLAPS

CacheKeys == {CacheKey(p) : p \in net}

(* The cache of relay r has the entry k; it once had it and lost it. *)
Held(r, k) == \E i \in DOMAIN cache[r] : cache[r][i] = k
Lost(r, k) == <<r, k>> \in forgot

(* Caches hold what was on the network, peels run at relays. *)
Shape ==
    /\ cache \in [Relay -> Seq(CacheKeys)]
    /\ \A c \in calls : c.relay \in Relay /\ c.p \in net
    /\ peeled \subseteq Relay \X CacheKeys

(* What was opened is remembered, or was forgotten. *)
PeeledKept ==
    \A r \in Relay, k \in CacheKeys :
        <<r, k>> \in peeled => Lost(r, k) \/ Held(r, k)

(* A running peel whose entry was never forgotten is of a packet still     *)
(* unopened, and is the only one of its packet.                            *)
CallsFresh ==
    \A c \in calls :
        \/ Lost(c.relay, CacheKey(c.p))
        \/ /\ Held(c.relay, CacheKey(c.p))
           /\ <<c.relay, CacheKey(c.p)>> \notin peeled

CallsAlone ==
    \A c \in calls, d \in calls :
        c # d /\ c.relay = d.relay /\ CacheKey(c.p) = CacheKey(d.p)
            => Lost(c.relay, CacheKey(c.p))

IInv == Shape /\ PeeledKept /\ CallsFresh /\ CallsAlone /\ NoDoublePeel

-----------------------------------------------------------------------------
(* What marking p does to the cache c: the entry is added, every other     *)
(* entry stays but the oldest of a full cache.                             *)
Marks(S, c, p) ==
    /\ CheckAndMark(c, p) \in Seq(S)
    /\ \E i \in DOMAIN CheckAndMark(c, p) : CheckAndMark(c, p)[i] = CacheKey(p)
    /\ \A k \in S :
         (\E i \in DOMAIN c : c[i] = k) =>
            \/ \E i \in DOMAIN CheckAndMark(c, p) : CheckAndMark(c, p)[i] = k
            \/ Full(c) /\ k = Head(Append(c, CacheKey(p)))

(* Marking a packet adds its entry and loses at most the oldest one.       *)
LEMMA MarkKeeps ==
    ASSUME NEW S, NEW c \in Seq(S), NEW p, CacheKey(p) \in S
    PROVE  Marks(S, c, p)
<1> DEFINE key == CacheKey(p)
           long == Append(c, key)
<1> HIDE DEF key
<1>0. key \in S
  BY DEF key
<1>1. /\ long \in Seq(S)
      /\ Len(long) = Len(c) + 1
      /\ long[Len(long)] = key
      /\ \A i \in DOMAIN c : i \in 1 .. Len(c) /\ long[i] = c[i]
  BY <1>0
<1>2. Len(c) \in Nat /\ DOMAIN c = 1 .. Len(c) /\ DOMAIN long = 1 .. Len(long)
  BY <1>1
<1>3. CASE ~Full(c)
  <2>1. CheckAndMark(c, p) = long
    BY <1>3 DEF CheckAndMark, key
  <2> QED
    BY <2>1, <1>1, <1>2 DEF key, Marks
<1>4. CASE Full(c)
  <2> DEFINE t == Tail(long)
  <2>1. CheckAndMark(c, p) = t
    BY <1>4 DEF CheckAndMark, key
  <2>2. Len(c) >= 1
    BY <1>4, <1>2, ConstantsAssumption DEF Full
  <2>3. /\ t \in Seq(S)
        /\ Len(t) = Len(c)
        /\ DOMAIN t = 1 .. Len(c)
        /\ \A i \in 1 .. Len(c) : t[i] = long[i + 1]
    BY <1>1, <1>2
  <2>4. t[Len(c)] = key
    BY <2>2, <2>3, <1>1, <1>2
  <2>5. ASSUME NEW k \in S, NEW i \in DOMAIN c, c[i] = k
        PROVE  (\E j \in DOMAIN t : t[j] = k) \/ k = Head(long)
    <3>1. CASE i = 1
      BY <3>1, <2>5, <1>1, <1>2
    <3>2. CASE i # 1
      <4>1. i - 1 \in 1 .. Len(c) /\ t[i - 1] = long[i]
        BY <3>2, <1>2, <2>3
      <4> QED
        BY <4>1, <2>3, <2>5, <1>1
    <3> QED
      BY <3>1, <3>2
  <2>6. Len(c) \in DOMAIN t
    BY <2>2, <2>3, <1>2
  <2> HIDE DEF t, long
  <2>7. \E j \in DOMAIN t : t[j] = key
    BY <2>6, <2>4
  <2> QED
    BY <2>1, <2>3, <2>5, <2>7, <1>4 DEF key, long, Marks
<1> QED
  BY <1>3, <1>4

-----------------------------------------------------------------------------
(* Steps that leave caches, peels and histories alone keep the invariant;  *)
(* the network may only grow.                                              *)
LEMMA QuietStep ==
    ASSUME IInv, net \subseteq net',
           UNCHANGED <<cache, calls, peeled, again, forgot>>
    PROVE  IInv'
<1>1. CacheKeys \subseteq CacheKeys'
  BY DEF CacheKeys
<1>2. Seq(CacheKeys) \subseteq Seq(CacheKeys')
  BY <1>1
<1>3. cache' \in [Relay -> Seq(CacheKeys')]
  BY <1>2 DEF IInv, Shape
<1>4. Shape'
  BY <1>1, <1>3 DEF IInv, Shape
<1>5. PeeledKept'
  BY <1>4 DEF IInv, Shape, PeeledKept, Held, Lost
<1>6. CallsFresh' /\ CallsAlone' /\ NoDoublePeel'
  BY DEF IInv, CallsFresh, CallsAlone, NoDoublePeel, Held, Lost
<1> QED
  BY <1>4, <1>5, <1>6 DEF IInv

(* The first half of a peel marks an entry the cache did not have.         *)
LEMMA BeginStep ==
    ASSUME IInv, NEW p \in net, NEW n, PeelBegin(p, n)
    PROVE  IInv'
<1> DEFINE r == p.to
           key == CacheKey(p)
           c == [relay |-> r, p |-> p, n |-> n]
           marked == CheckAndMark(cache[r], p)
<1>1. /\ r \in Relay
      /\ ~Held(r, key)
      /\ cache' = [cache EXCEPT ![r] = marked]
      /\ forgot' = forgot \cup Evicted(r, p)
      /\ calls' \subseteq calls \cup {c}
      /\ UNCHANGED <<net, peeled, again>>
  BY DEF PeelBegin, Held, Seen
<1>2. /\ cache \in [Relay -> Seq(CacheKeys)]
      /\ cache[r] \in Seq(CacheKeys)
      /\ key \in CacheKeys
  BY <1>1 DEF IInv, Shape, CacheKeys
<1>3. /\ marked \in Seq(CacheKeys)
      /\ \E i \in DOMAIN marked : marked[i] = key
      /\ \A k \in CacheKeys :
           (\E i \in DOMAIN cache[r] : cache[r][i] = k) =>
              \/ \E i \in DOMAIN marked : marked[i] = k
              \/ Full(cache[r]) /\ k = Head(Append(cache[r], key))
  <2>1. Marks(CacheKeys, cache[r], p)
    BY <1>2, MarkKeeps
  <2> QED
    BY <2>1, Zenon DEF Marks
<1>4. /\ cache'[r] = marked
      /\ \A x \in Relay : x # r => cache'[x] = cache[x]
      /\ cache' \in [Relay -> Seq(CacheKeys)]
  <2> HIDE DEF marked
  <2> QED
    BY <1>1, <1>2, <1>3
<1>5. CacheKeys' = CacheKeys
  BY <1>1 DEF CacheKeys
<1>6. Held(r, key)'
  BY <1>3, <1>4 DEF Held
<1>7. ASSUME NEW x \in Relay, NEW k \in CacheKeys, Held(x, k)
      PROVE  Lost(x, k)' \/ Held(x, k)'
  <2>1. CASE x # r
    BY <2>1, <1>4, <1>7 DEF Held
  <2>2. CASE x = r
    <3>1. CASE \E j \in DOMAIN marked : marked[j] = k
      BY <3>1, <2>2, <1>4 DEF Held
    <3>2. CASE Full(cache[r]) /\ k = Head(Append(cache[r], key))
      BY <3>2, <2>2, <1>1 DEF Evicted, Lost
    <3> QED
      BY <3>1, <3>2, <2>2, <1>3, <1>7 DEF Held
  <2> QED
    BY <2>1, <2>2
<1>8. ASSUME NEW x, NEW k, Lost(x, k) PROVE Lost(x, k)'
  BY <1>1, <1>8 DEF Lost
<1>9. c.relay = r /\ c.p = p
  OBVIOUS
<1> HIDE DEF r, key, c, marked
<1>10. Shape'
  BY <1>1, <1>4, <1>5, <1>9 DEF IInv, Shape
<1>11. PeeledKept'
  BY <1>1, <1>5, <1>7, <1>8 DEF IInv, PeeledKept
<1>12. ASSUME NEW d \in calls
       PROVE  /\ d.relay \in Relay
              /\ CacheKey(d.p) \in CacheKeys
  BY DEF IInv, Shape, CacheKeys
<1>13. ASSUME NEW d \in calls, d.relay = r, CacheKey(d.p) = key
       PROVE  Lost(r, key)
  BY <1>1, <1>13 DEF IInv, CallsFresh
<1>14. <<r, key>> \in peeled => Lost(r, key)
  BY <1>1, <1>2 DEF IInv, PeeledKept
<1>15. CallsFresh'
  <2> SUFFICES ASSUME NEW d \in calls'
               PROVE  \/ Lost(d.relay, CacheKey(d.p))'
                      \/ /\ Held(d.relay, CacheKey(d.p))'
                         /\ <<d.relay, CacheKey(d.p)>> \notin peeled'
    BY DEF CallsFresh
  <2>1. CASE d \in calls
    BY <2>1, <1>1, <1>7, <1>8, <1>12 DEF IInv, CallsFresh
  <2>2. CASE d = c
    BY <2>2, <1>1, <1>6, <1>8, <1>9, <1>14 DEF key
  <2> QED
    BY <2>1, <2>2, <1>1
<1>16. CallsAlone'
  <2> SUFFICES ASSUME NEW d1 \in calls', NEW d2 \in calls', d1 # d2,
                      d1.relay = d2.relay, CacheKey(d1.p) = CacheKey(d2.p)
               PROVE  Lost(d1.relay, CacheKey(d1.p))'
    BY DEF CallsAlone
  <2>1. CASE d1 \in calls /\ d2 \in calls
    BY <2>1, <1>8 DEF IInv, CallsAlone
  <2>2. CASE d1 = c /\ d2 \in calls
    BY <2>2, <1>8, <1>9, <1>13 DEF key
  <2>3. CASE d2 = c /\ d1 \in calls
    BY <2>3, <1>8, <1>9, <1>13 DEF key
  <2> QED
    BY <2>1, <2>2, <2>3, <1>1
<1>17. NoDoublePeel'
  BY <1>1 DEF IInv, NoDoublePeel
<1> QED
  BY <1>10, <1>11, <1>15, <1>16, <1>17 DEF IInv

(* The second half opens a packet; if it had been opened before, its entry *)
(* had been forgotten.                                                     *)
LEMMA EndStep ==
    ASSUME IInv, NEW c \in calls, PeelEnd(c)
    PROVE  IInv'
<1> DEFINE r == c.relay
           key == CacheKey(c.p)
<1>1. /\ calls' = calls \ {c}
      /\ peeled' = peeled \cup {<<r, key>>}
      /\ again' = IF <<r, key>> \in peeled THEN again \cup {<<r, key>>} ELSE again
      /\ net \subseteq net'
      /\ UNCHANGED <<cache, forgot>>
  BY DEF PeelEnd
<1>2. r \in Relay /\ key \in CacheKeys
  BY DEF IInv, Shape, CacheKeys
<1>3. Lost(r, key) \/ (Held(r, key) /\ <<r, key>> \notin peeled)
  BY DEF IInv, CallsFresh
<1>4. /\ \A x, k : Lost(x, k)' <=> Lost(x, k)
      /\ \A x, k : Held(x, k)' <=> Held(x, k)
  BY <1>1 DEF Lost, Held
<1>5. CacheKeys \subseteq CacheKeys'
  BY <1>1 DEF CacheKeys
<1>6. ASSUME NEW d \in calls', d.relay = r, CacheKey(d.p) = key
      PROVE  Lost(r, key)
  BY <1>1, <1>6 DEF IInv, CallsAlone
<1> HIDE DEF r, key
<1>7. Shape'
  <2>1. Seq(CacheKeys) \subseteq Seq(CacheKeys')
    BY <1>5
  <2>2. cache' \in [Relay -> Seq(CacheKeys')]
    BY <2>1, <1>1 DEF IInv, Shape
  <2>3. peeled' \subseteq Relay \X CacheKeys'
    BY <1>1, <1>2, <1>5 DEF IInv, Shape
  <2> QED
    BY <2>2, <2>3, <1>1 DEF IInv, Shape
<1>8. PeeledKept'
  <2> SUFFICES ASSUME NEW x \in Relay, NEW k, <<x, k>> \in peeled'
               PROVE  Lost(x, k)' \/ Held(x, k)'
    BY DEF PeeledKept
  <2>1. CASE <<x, k>> \in peeled
    BY <2>1, <1>4 DEF IInv, Shape, PeeledKept
  <2>2. CASE <<x, k>> = <<r, key>>
    BY <2>2, <1>3, <1>4
  <2> QED
    BY <2>1, <2>2, <1>1
<1>9. CallsFresh'
  <2> SUFFICES ASSUME NEW d \in calls'
               PROVE  \/ Lost(d.relay, CacheKey(d.p))'
                      \/ /\ Held(d.relay, CacheKey(d.p))'
                         /\ <<d.relay, CacheKey(d.p)>> \notin peeled'
    BY DEF CallsFresh
  <2>1. CASE d.relay = r /\ CacheKey(d.p) = key
    BY <2>1, <1>4, <1>6
  <2>2. CASE ~(d.relay = r /\ CacheKey(d.p) = key)
    <3>1. d \in calls
      BY <1>1
    <3> QED
      BY <2>2, <3>1, <1>1, <1>4 DEF IInv, CallsFresh
  <2> QED
    BY <2>1, <2>2
<1>10. CallsAlone'
  BY <1>1, <1>4 DEF IInv, CallsAlone
<1>11. NoDoublePeel'
  BY <1>1, <1>3 DEF IInv, NoDoublePeel, Lost
<1> QED
  BY <1>7, <1>8, <1>9, <1>10, <1>11 DEF IInv

(* A peel that throws leaves fewer calls and nothing else. *)
LEMMA ThrowStep ==
    ASSUME IInv, NEW c \in calls, PeelThrow(c)
    PROVE  IInv'
<1>1. calls' = calls \ {c} /\ UNCHANGED <<net, cache, peeled, again, forgot>>
  BY DEF PeelThrow
<1>2. CacheKeys' = CacheKeys
  BY <1>1 DEF CacheKeys
<1>3. Shape'
  BY <1>1, <1>2 DEF IInv, Shape
<1>4. PeeledKept' /\ CallsFresh' /\ CallsAlone' /\ NoDoublePeel'
  BY <1>1, <1>2 DEF IInv, PeeledKept, CallsFresh, CallsAlone, NoDoublePeel, Held, Lost
<1> QED
  BY <1>3, <1>4 DEF IInv

(* A restart forgets every entry of one relay and drops its peels.         *)
LEMMA RestartStep ==
    ASSUME IInv, NEW r \in Relay, Restart(r)
    PROVE  IInv'
<1>1. /\ cache' = [cache EXCEPT ![r] = << >>]
      /\ calls' \subseteq calls
      /\ forgot' = forgot \cup {<<r, cache[r][i]>> : i \in DOMAIN cache[r]}
      /\ UNCHANGED <<net, peeled, again>>
  BY DEF Restart
<1>2. CacheKeys' = CacheKeys
  BY <1>1 DEF CacheKeys
<1>3. /\ cache' \in [Relay -> Seq(CacheKeys)]
      /\ \A x \in Relay : x # r => cache'[x] = cache[x]
  BY <1>1 DEF IInv, Shape
<1>4. ASSUME NEW x \in Relay, NEW k, Lost(x, k) \/ Held(x, k)
      PROVE  Lost(x, k)' \/ Held(x, k)'
  <2>1. CASE Lost(x, k)
    BY <2>1, <1>1 DEF Lost
  <2>2. CASE Held(x, k) /\ x # r
    BY <2>2, <1>3 DEF Held
  <2>3. CASE Held(x, k) /\ x = r
    BY <2>3, <1>1 DEF Held, Lost
  <2> QED
    BY <2>1, <2>2, <2>3, <1>4
<1>5. ASSUME NEW x, NEW k, Lost(x, k) PROVE Lost(x, k)'
  BY <1>1, <1>5 DEF Lost
<1>6. Shape'
  BY <1>1, <1>2, <1>3 DEF IInv, Shape
<1>7. PeeledKept'
  BY <1>1, <1>2, <1>4 DEF IInv, PeeledKept
<1>8. CallsFresh'
  BY <1>1, <1>4, <1>5 DEF IInv, Shape, CallsFresh
<1>9. CallsAlone'
  BY <1>1, <1>5 DEF IInv, CallsAlone
<1>10. NoDoublePeel'
  BY <1>1 DEF IInv, NoDoublePeel
<1> QED
  BY <1>6, <1>7, <1>8, <1>9, <1>10 DEF IInv

-----------------------------------------------------------------------------
(* Every step of the specification keeps the invariant. *)
LEMMA NextStep == IInv /\ [Next]_vars => IInv'
<1> SUFFICES ASSUME IInv, [Next]_vars PROVE IInv'
  OBVIOUS
<1>1. CASE Tick \/ UNCHANGED vars
  BY <1>1, QuietStep DEF Tick, vars
<1>2. CASE \E k \in Key, s \in Status \ {"absent"} : AddKey(k, s)
  BY <1>2, QuietStep DEF AddKey
<1>3. CASE \E r \in Relay : Publish(r)
  BY <1>3, QuietStep DEF Publish
<1>4. CASE \E relays \in Lists, ttl \in Ttls, json \in SUBSET (1 .. HopCount) :
             Encode(relays, ttl, json)
  BY <1>4, QuietStep DEF Encode
<1>5. CASE \E p \in net, n \in 1 .. MaxCalls : PeelBegin(p, n)
  BY <1>5, BeginStep
<1>6. CASE \E c \in calls : PeelEnd(c) \/ PeelThrow(c)
  BY <1>6, EndStep, ThrowStep
<1>7. CASE \E r \in Relay : Restart(r)
  BY <1>7, RestartStep
<1>8. CASE \E p \in net : Damage(p)
  BY <1>8, QuietStep DEF Damage
<1> QED
  BY <1>1, <1>2, <1>3, <1>4, <1>5, <1>6, <1>7, <1>8 DEF Next

(* OnionReplayCacheV2.checkAndMark runs before the first await of the      *)
(* cryptography, so overlapping and repeated peels of a packet at a relay  *)
(* open it once, as long as the cache has not lost the entry.              *)
THEOREM PeeledOnce == Spec => []NoDoublePeel
<1>1. Init => IInv
  BY DEF Init, IInv, Shape, PeeledKept, CallsFresh, CallsAlone, NoDoublePeel, CacheKeys
<1>2. IInv => NoDoublePeel
  BY DEF IInv
<1> QED
  BY <1>1, <1>2, NextStep, PTL DEF Spec

-----------------------------------------------------------------------------
(* The path.  Every layer a packet still has was sealed for the hop its    *)
(* position stands for, so opening a layer sends the rest to the relay     *)
(* after it, whatever was done to the fields that are visible.             *)

LayersOf(m) == EncodeLayers(sent[m].path, sent[m].ttl, sent[m].kids)

(* The packet has the last layers of its message, as they were sealed.     *)
Sealed(p) ==
    /\ p.msg \in DOMAIN sent
    /\ Len(p.layers) <= HopCount
    /\ \A i \in DOMAIN p.layers :
          p.layers[i].seal = LayersOf(p.msg)[Before(p) + i].seal

PathsWhole == \A m \in DOMAIN sent : Len(sent[m].path) = HopCount

CallsAtRelay ==
    \A c \in calls : c.p \in net /\ c.relay = c.p.to /\ c.p.layers # << >>

PathInv ==
    /\ TypeOK /\ PathFollowed /\ TtlLimits
    /\ Len(sent) <= MaxSends /\ PathsWhole
    /\ \A p \in net : Sealed(p)
    /\ CallsAtRelay

(* Every set of natural numbers that is not empty has a least element. *)
Less == {x \in Nat \X Nat : x[1] < x[2]}

LEMMA Least ==
    ASSUME NEW S \in SUBSET Nat, S # {}
    PROVE  \E m \in S : \A x \in S : m <= x
<1>1. OpToRel(<, Nat) = Less
  BY Zenon DEF OpToRel, Less
<1>2. IsWellFoundedOn(Less, Nat)
  BY <1>1, NatLessThanWellFounded, Zenon
<1>3. \E m \in S : \A y \in S : ~(<<y, m>> \in Less)
  BY <1>2, WFMin, Zenon
<1>4. PICK m \in S : \A y \in S : ~(<<y, m>> \in Less)
  BY <1>3
<1>5. \A x, y \in Nat : x < y => <<x, y>> \in Less
  BY DEF Less
<1>6. ASSUME NEW x \in S PROVE m <= x
  <2>1. x \in Nat /\ m \in Nat
    OBVIOUS
  <2>2. ~(x < m)
    BY <1>4, <1>5, <2>1, Zenon
  <2> QED
    BY <2>1, <2>2
<1> QED
  BY <1>6

(* The first occurrences in a list, and how many of them are up to k.      *)
Firsts(s) == {i \in DOMAIN s : \A j \in 1 .. i - 1 : s[j] # s[i]}
UpTo(s, k) == {j \in Firsts(s) : j <= k}
Rank(s, k) == Cardinality(UpTo(s, k))

(* From one position to the next the rank grows by one at a first          *)
(* occurrence and stays elsewhere.                                         *)
LEMMA RankStep ==
    ASSUME NEW s \in Seq(Relay)
    PROVE  /\ \A k \in 0 .. Len(s) : Rank(s, k) \in Nat
           /\ Rank(s, 0) = 0
           /\ Rank(s, Len(s)) = Cardinality(Firsts(s))
           /\ \A k \in 1 .. Len(s) :
                 Rank(s, k) = IF k \in Firsts(s) THEN Rank(s, k - 1) + 1 ELSE Rank(s, k - 1)
<1>1. Len(s) \in Nat /\ DOMAIN s = 1 .. Len(s)
  OBVIOUS
<1>2. IsFiniteSet(1 .. Len(s))
  BY <1>1, FS_Interval
<1>3. \A k : IsFiniteSet(UpTo(s, k))
  <2> TAKE k
  <2>1. UpTo(s, k) \in SUBSET (1 .. Len(s))
    BY <1>1 DEF UpTo, Firsts
  <2> QED
    BY <1>2, <2>1, FS_Subset
<1>4. \A k : Rank(s, k) \in Nat
  BY <1>3, FS_CardinalityType DEF Rank
<1>5. UpTo(s, 0) = {} /\ UpTo(s, Len(s)) = Firsts(s)
  BY <1>1 DEF UpTo, Firsts
<1>6. Rank(s, 0) = 0 /\ Rank(s, Len(s)) = Cardinality(Firsts(s))
  BY <1>5, FS_EmptySet DEF Rank
<1>7. ASSUME NEW k \in 1 .. Len(s)
      PROVE  Rank(s, k) = IF k \in Firsts(s) THEN Rank(s, k - 1) + 1 ELSE Rank(s, k - 1)
  <2>1. \A j \in Firsts(s) : j \in Nat /\ (j <= k <=> j <= k - 1 \/ j = k)
    BY <1>1 DEF Firsts
  <2>2. CASE k \in Firsts(s)
    <3>1. UpTo(s, k) = UpTo(s, k - 1) \cup {k}
      BY <2>1, <2>2 DEF UpTo
    <3>2. ~(k <= k - 1)
      BY <1>1
    <3>3. k \notin UpTo(s, k - 1)
      BY <3>2 DEF UpTo
    <3> QED
      BY <1>3, <2>2, <3>1, <3>3, FS_AddElement DEF Rank
  <2>3. CASE k \notin Firsts(s)
    <3>1. UpTo(s, k) = UpTo(s, k - 1)
      BY <2>1, <2>3 DEF UpTo
    <3> QED
      BY <2>3, <3>1 DEF Rank
  <2> QED
    BY <2>2, <2>3
<1> QED
  BY <1>4, <1>6, <1>7

(* A list without its repetitions is a list of relays. *)
LEMMA UniqueRelays ==
    ASSUME NEW s \in Seq(Relay)
    PROVE  Unique(s) \in Seq(Relay)
<1>1. PICK N \in Nat : N = Cardinality(Firsts(s))
  BY RankStep
<1>2. Unique(s) = [n \in 1 .. N |-> s[CHOOSE i \in Firsts(s) : Rank(s, i) = n]]
  BY <1>1 DEF Unique, Firsts, Rank, UpTo
<1>3. ASSUME NEW n \in 1 .. N
      PROVE  \E i \in Firsts(s) : Rank(s, i) = n
  <2>1. PICK S : S = {k \in 0 .. Len(s) : n <= Rank(s, k)}
    OBVIOUS
  <2>2. Len(s) \in Nat
    OBVIOUS
  <2>3. S \in SUBSET Nat /\ Len(s) \in S
    BY <1>1, <2>1, <2>2, RankStep
  <2>4. PICK m \in S : \A x \in S : m <= x
    BY <2>3, Least
  <2>5. m \in 0 .. Len(s) /\ n <= Rank(s, m) /\ m # 0
    BY <1>1, <2>1, RankStep
  <2>6. m \in 1 .. Len(s) /\ m - 1 \in 0 .. Len(s) /\ m - 1 \notin S
    BY <2>2, <2>4, <2>5
  <2>7. ~(n <= Rank(s, m - 1))
    BY <2>1, <2>6
  <2>8. Rank(s, m) \in Nat /\ Rank(s, m - 1) \in Nat
    BY <2>5, <2>6, RankStep
  <2>9. Rank(s, m) = IF m \in Firsts(s) THEN Rank(s, m - 1) + 1 ELSE Rank(s, m - 1)
    BY <2>6, RankStep
  <2>10. m \in Firsts(s) /\ Rank(s, m) = n
    BY ONLY <1>1, <1>3, <2>5, <2>7, <2>8, <2>9
  <2> QED
    BY <2>10
<1>4. \A i \in Firsts(s) : s[i] \in Relay
  BY DEF Firsts
<1>5. \A n \in 1 .. N : s[CHOOSE i \in Firsts(s) : Rank(s, i) = n] \in Relay
  BY <1>3, <1>4
<1>6. Unique(s) \in [1 .. N -> Relay]
  BY <1>2, <1>5
<1> QED
  BY <1>1, <1>6

(* The layers of a message: one per hop, sealed with the relay after it.   *)
LEMMA EncodedLayers ==
    ASSUME NEW path \in Seq(Relay), Len(path) = HopCount,
           NEW ttl \in Ttls, NEW kids \in [1 .. HopCount -> Key]
    PROVE  /\ EncodeLayers(path, ttl, kids) \in Seq(Layer)
           /\ Len(EncodeLayers(path, ttl, kids)) = HopCount
           /\ \A i \in 1 .. HopCount :
                /\ EncodeLayers(path, ttl, kids)[i].seal.ttl = HopTtl(ttl, i)
                /\ EncodeLayers(path, ttl, kids)[i].seal.next = NextEndpoint(path, i)
<1>1. HopCount \in Nat /\ ttl \in Nat /\ HopCount >= 1
  BY ConstantsAssumption
<1>2. PICK f : f = EncodeLayers(path, ttl, kids)
  OBVIOUS
<1>3. f = [i \in 1 .. HopCount |->
             EncryptLayer(i - 1, kids[i], HopTtl(ttl, i), NextEndpoint(path, i))]
  BY <1>2 DEF EncodeLayers
<1>4. ASSUME NEW i \in 1 .. HopCount
      PROVE  /\ f[i] \in Layer
             /\ f[i].seal.ttl = HopTtl(ttl, i) /\ f[i].seal.next = NextEndpoint(path, i)
  <2>1. i - 1 \in Hop
    BY <1>1 DEF Hop
  <2>2. kids[i] \in Key
    OBVIOUS
  <2>3. HopTtl(ttl, i) \in HopTtls
    <3>1. ttl - (i - 1) \in {t - h : t \in Ttls, h \in Hop}
      BY <2>1
    <3>2. ttl - (i - 1) > 0 => ttl - (i - 1) \in Nat
      BY <1>1
    <3> QED
      BY <3>1, <3>2 DEF HopTtl, HopTtls
  <2>4. NextEndpoint(path, i) \in Endpoint
    BY <1>1 DEF NextEndpoint, Endpoint
  <2>5. f[i] = EncryptLayer(i - 1, kids[i], HopTtl(ttl, i), NextEndpoint(path, i))
    BY <1>3
  <2> QED
    BY <2>1, <2>2, <2>3, <2>4, <2>5 DEF EncryptLayer, Layer, Seal
<1>5. f \in [1 .. HopCount -> Layer]
  BY <1>3, <1>4
<1>6. f \in Seq(Layer) /\ Len(f) = HopCount
  BY <1>1, <1>5
<1> QED
  BY <1>2, <1>4, <1>6

(* A packet that keeps its message's sent record stays on its path. *)
OnPath(p) ==
    /\ p.to = IF Before(p) = HopCount THEN Dest ELSE sent[p.msg].path[Before(p) + 1]
    /\ \A h \in 1 .. Before(p) :
          \E e \in peeled : /\ e[1] = sent[p.msg].path[h]
                            /\ e[2][1] = p.msg
                            /\ Len(e[2][2]) = HopCount - h + 1
    /\ Before(p) <= sent[p.msg].ttl
    /\ Sealed(p)

LEMMA PathParts ==
    PathInv <=> /\ TypeOK /\ Len(sent) <= MaxSends /\ PathsWhole /\ CallsAtRelay
                /\ \A p \in net : OnPath(p)
BY DEF PathInv, PathFollowed, TtlLimits, OnPath

(* Sending a message and opening a packet leave the others on their path.  *)
LEMMA StaysOnPath ==
    ASSUME NEW p, OnPath(p), DOMAIN sent \subseteq DOMAIN sent',
           \A m \in DOMAIN sent : sent'[m] = sent[m], peeled \subseteq peeled'
    PROVE  OnPath(p)'
<1>1. p.msg \in DOMAIN sent /\ sent'[p.msg] = sent[p.msg]
  BY DEF OnPath, Sealed
<1>2. Sealed(p)'
  BY <1>1 DEF OnPath, Sealed, LayersOf
<1> QED
  BY <1>1, <1>2 DEF OnPath

(* A step that neither sends nor gives the network a packet. *)
LEMMA StayingStep ==
    ASSUME PathInv, TypeOK', UNCHANGED <<sent, net, peeled>>, CallsAtRelay'
    PROVE  PathInv'
<1>1. \A p \in net : OnPath(p)
  BY PathParts
<1>2. \A p \in net' : OnPath(p)'
  BY <1>1, StaysOnPath
<1>3. Len(sent') <= MaxSends /\ PathsWhole'
  BY PathParts DEF PathsWhole
<1>4. (PathInv <=> /\ TypeOK /\ Len(sent) <= MaxSends /\ PathsWhole /\ CallsAtRelay
                   /\ \A p \in net : OnPath(p))'
  BY DEF PathInv, PathFollowed, TtlLimits, OnPath
<1> QED
  BY <1>2, <1>3, <1>4

(* encode: the path is HopCount relays, the layers are those of the path.  *)
LEMMA EncodeStep ==
    ASSUME PathInv, NEW relays \in Lists, NEW ttl \in Ttls,
           NEW json \in SUBSET (1 .. HopCount), Encode(relays, ttl, json)
    PROVE  PathInv'
<1>1. PICK path : path = BuildPath(relays)
  OBVIOUS
<1>2. PICK kids \in [1 .. HopCount -> Key] :
         /\ sent' = Append(sent, [path |-> path, ttl |-> ttl, kids |-> kids])
         /\ net' = net \cup {[msg |-> Len(sent) + 1, to |-> path[1],
                              layers |-> EncodeLayers(path, ttl, kids)]}
  BY <1>1 DEF Encode
<1>3. PICK x, q : /\ x = [path |-> path, ttl |-> ttl, kids |-> kids]
                  /\ q = [msg |-> Len(sent) + 1, to |-> path[1],
                          layers |-> EncodeLayers(path, ttl, kids)]
  OBVIOUS
<1>4. /\ Len(sent) < MaxSends /\ Len(Unique(relays)) >= HopCount
      /\ UNCHANGED <<now, keyring, descriptor, cache, calls, rotations,
                     damages, restarts, peeled, again, forgot, handed, cut>>
  BY DEF Encode
<1>5. HopCount \in Nat /\ HopCount >= 1 /\ MaxSends \in Nat /\ relays \in Seq(Relay)
      /\ ttl \in Nat
  BY ConstantsAssumption
<1>6. path \in Seq(Relay) /\ Len(path) = HopCount /\ path[1] \in Relay
  <2>1. PICK u : u = Unique(relays)
    OBVIOUS
  <2>2. u \in Seq(Relay) /\ Len(u) >= HopCount /\ path = SubSeq(u, 1, HopCount)
    BY <1>1, <1>4, <1>5, <2>1, UniqueRelays DEF BuildPath
  <2>3. path \in Seq(Relay) /\ Len(path) = HopCount
    BY ONLY <1>5, <2>2
  <2> QED
    BY <1>5, <2>3
<1>7. TypeOK /\ PathsWhole /\ CallsAtRelay /\ \A p \in net : OnPath(p)
  BY PathParts
<1>8. sent \in Seq(Message) /\ Len(sent) \in Nat /\ x \in Message
  BY <1>3, <1>6, <1>7 DEF TypeOK, Message
<1>9. /\ sent' = Append(sent, x) /\ net' = net \cup {q}
      /\ q.msg = Len(sent) + 1 /\ q.to = path[1]
      /\ q.layers = EncodeLayers(path, ttl, kids)
  BY <1>2, <1>3
<1>10. /\ sent' \in Seq(Message) /\ Len(sent') = Len(sent) + 1
       /\ DOMAIN sent' = 1 .. Len(sent) + 1
       /\ DOMAIN sent = 1 .. Len(sent)
       /\ \A m \in DOMAIN sent : sent'[m] = sent[m]
       /\ sent'[Len(sent) + 1] = x
  BY <1>8, <1>9
<1>11. /\ q.layers \in Seq(Layer) /\ Len(q.layers) = HopCount
  BY <1>6, <1>9, EncodedLayers
<1>12. q \in Packet
  <2>1. Len(sent) + 1 \in 1 .. MaxSends
    BY <1>4, <1>5, <1>8
  <2> QED
    BY <1>3, <1>6, <1>9, <1>11, <2>1 DEF Packet, Endpoint
<1>13. TypeOK'
  BY <1>4, <1>7, <1>9, <1>10, <1>12 DEF TypeOK
<1>14. OnPath(q)'
  <2>1. sent'[q.msg] = x /\ x.path = path /\ x.ttl = ttl /\ x.kids = kids
        /\ q.msg \in DOMAIN sent'
    BY <1>3, <1>8, <1>9, <1>10
  <2>2. Before(q) = 0 /\ Before(q)' = 0
    BY <1>5, <1>11 DEF Before
  <2>3. Sealed(q)'
    <3>1. LayersOf(q.msg)' = q.layers
      BY <1>9, <2>1 DEF LayersOf
    <3>2. \A i \in DOMAIN q.layers : 0 + i = i
      BY <1>11
    <3> QED
      BY <1>5, <1>11, <2>1, <2>2, <3>1, <3>2 DEF Sealed
  <2>4. 0 # HopCount /\ 0 + 1 = 1 /\ 0 <= ttl /\ 1 .. 0 = {}
    BY <1>5
  <2> QED
    BY <1>9, <2>1, <2>2, <2>3, <2>4 DEF OnPath
<1>15. \A p \in net : OnPath(p)'
  BY <1>4, <1>7, <1>10, StaysOnPath
<1>16. PathsWhole'
  <2> SUFFICES ASSUME NEW m \in DOMAIN sent' PROVE Len(sent'[m].path) = HopCount
    BY DEF PathsWhole
  <2>1. CASE m = Len(sent) + 1
    BY <1>3, <1>6, <1>10, <2>1
  <2>2. CASE m # Len(sent) + 1
    <3>1. m \in DOMAIN sent
      BY <1>8, <1>10, <2>2
    <3> QED
      BY <1>7, <1>10, <3>1 DEF PathsWhole
  <2> QED
    BY <2>1, <2>2
<1>17. CallsAtRelay' /\ Len(sent') <= MaxSends
  BY <1>4, <1>5, <1>7, <1>8, <1>9, <1>10 DEF CallsAtRelay
<1>18. \A p \in net' : OnPath(p)'
  BY <1>9, <1>14, <1>15
<1> QED
  BY <1>13, <1>16, <1>17, <1>18 DEF PathInv, PathFollowed, TtlLimits, OnPath

LEMMA LastHop ==
    ASSUME NEW b \in Nat, b + 1 <= HopCount
    PROVE  b + 1 < HopCount <=> b + 1 # HopCount
<1>1. HopCount \in Nat
  BY ConstantsAssumption
<1> QED
  BY <1>1

(* The second half of a peel: the layer that opens was sealed for this     *)
(* hop, and names the next.                                                *)
LEMMA OpenStep ==
    ASSUME PathInv, NEW c \in calls, PeelEnd(c)
    PROVE  PathInv'
<1>1. PICK p, q, e : p = c.p /\ q = Inner(p) /\ e = <<c.relay, CacheKey(c.p)>>
  OBVIOUS
<1>2. /\ Accepts(p.layers[1]) /\ calls' = calls \ {c} /\ net' = net \cup {q}
      /\ peeled' = peeled \cup {e}
      /\ again' = IF e \in peeled THEN again \cup {e} ELSE again
      /\ UNCHANGED <<now, keyring, descriptor, sent, cache, rotations,
                     damages, restarts, forgot, handed, cut>>
  BY <1>1 DEF PeelEnd
<1>3. TypeOK /\ PathsWhole /\ CallsAtRelay /\ Len(sent) <= MaxSends
      /\ \A x \in net : OnPath(x)
  BY PathParts
<1>4. p \in net /\ p \in Packet /\ OnPath(p) /\ c.relay = p.to /\ p.layers # << >>
  BY <1>1, <1>3 DEF CallsAtRelay, TypeOK
<1>5. p.layers \in Seq(Layer) /\ p.msg \in 1 .. MaxSends
  BY <1>4 DEF Packet
<1>6. PICK n \in Nat, b \in Nat : /\ n = Len(p.layers) /\ n >= 1 /\ b = HopCount - n
                                  /\ HopCount \in Nat /\ b = Before(p) /\ b + 1 <= HopCount
  <2>1. Len(p.layers) \in Nat /\ Len(p.layers) >= 1 /\ HopCount \in Nat
    BY <1>4, <1>5, ConstantsAssumption
  <2>2. Len(p.layers) <= HopCount
    BY <1>4 DEF OnPath, Sealed
  <2> QED
    BY <2>1, <2>2 DEF Before
<1>7. PICK m : m = p.msg
  OBVIOUS
<1>8. /\ m \in DOMAIN sent /\ sent[m] \in Message /\ Len(sent[m].path) = HopCount
      /\ sent[m].path \in Seq(Relay) /\ sent[m].ttl \in Ttls
      /\ sent[m].kids \in [1 .. HopCount -> Key]
  <2>1. m \in DOMAIN sent
    BY <1>4, <1>7 DEF OnPath, Sealed
  <2>2. sent[m] \in Message
    BY <1>3, <2>1 DEF TypeOK
  <2> QED
    BY <1>3, <2>1, <2>2 DEF Message, PathsWhole
<1>9. \A i \in 1 .. HopCount :
         /\ LayersOf(m)[i].seal.ttl = HopTtl(sent[m].ttl, i)
         /\ LayersOf(m)[i].seal.next = NextEndpoint(sent[m].path, i)
  BY <1>8, EncodedLayers DEF LayersOf
<1>10. \A i \in 1 .. n : p.layers[i].seal = LayersOf(m)[b + i].seal
  BY <1>4, <1>5, <1>6, <1>7 DEF OnPath, Sealed
<1>11. b + 1 \in 1 .. HopCount /\ 1 \in 1 .. n
  BY <1>6
<1>12. /\ p.layers[1].seal.ttl = HopTtl(sent[m].ttl, b + 1)
       /\ p.layers[1].seal.next = NextEndpoint(sent[m].path, b + 1)
  BY <1>9, <1>10, <1>11
<1>13. b + 1 <= sent[m].ttl
  <2>1. sent[m].ttl \in Nat
    BY <1>8, ConstantsAssumption
  <2>2. HopTtl(sent[m].ttl, b + 1) > 0
    BY <1>2, <1>12 DEF Accepts
  <2>3. sent[m].ttl - ((b + 1) - 1) > 0
    BY <2>2 DEF HopTtl
  <2>4. ASSUME NEW t \in Nat, t - ((b + 1) - 1) > 0 PROVE b + 1 <= t
    BY <2>4
  <2> QED
    BY <2>1, <2>3, <2>4
<1>14. /\ q.msg = m /\ q.to = NextEndpoint(sent[m].path, b + 1)
       /\ q.layers = Tail(p.layers)
  BY <1>1, <1>7, <1>12 DEF Inner
<1>15. /\ q.layers \in Seq(Layer) /\ Len(q.layers) = n - 1
       /\ DOMAIN q.layers = 1 .. n - 1
       /\ \A i \in 1 .. n - 1 : q.layers[i] = p.layers[i + 1]
  BY <1>4, <1>5, <1>6, <1>14
<1>16. Before(q) = b + 1 /\ Before(q)' = b + 1
  BY <1>6, <1>15 DEF Before
<1>17. q.to \in Endpoint
  BY <1>6, <1>8, <1>14 DEF NextEndpoint, Endpoint
<1>18. q \in Packet
  <2>1. q = [msg |-> m, to |-> q.to, layers |-> q.layers]
    BY <1>1, <1>7 DEF Inner
  <2> QED
    BY <1>5, <1>7, <1>15, <1>17, <2>1 DEF Packet
<1>19. OnPath(q)'
  <2>1. q.to = IF b + 1 = HopCount THEN Dest ELSE sent[m].path[b + 1 + 1]
    BY <1>14, <1>6, LastHop DEF NextEndpoint
  <2>2. ASSUME NEW h \in 1 .. b + 1
        PROVE  \E d \in peeled' : /\ d[1] = sent[m].path[h] /\ d[2][1] = m
                                  /\ Len(d[2][2]) = HopCount - h + 1
    <3>1. CASE h = b + 1
      <4>1. p.to = sent[m].path[b + 1]
        <5>1. b # HopCount
          BY <1>6
        <5> QED
          BY <1>4, <1>6, <1>7, <5>1 DEF OnPath
      <4>2. e[1] = p.to /\ e[2][1] = m /\ e[2][2] = p.layers
        BY <1>1, <1>4, <1>7 DEF CacheKey
      <4>3. n = HopCount - h + 1
        BY <1>6, <3>1
      <4> QED
        BY <1>2, <1>6, <3>1, <4>1, <4>2, <4>3
    <3>2. CASE h # b + 1
      <4>1. h \in 1 .. b
        BY <1>6, <3>2
      <4> QED
        BY <1>2, <1>4, <1>6, <1>7, <4>1 DEF OnPath
    <3> QED
      BY <3>1, <3>2
  <2>3. Sealed(q)'
    <3>1. ASSUME NEW i \in 1 .. n - 1
          PROVE  q.layers[i].seal = LayersOf(m)[b + 1 + i].seal
      <4>1. i + 1 \in 1 .. n /\ b + (i + 1) = b + 1 + i
        BY <1>6
      <4> QED
        BY <1>10, <1>15, <4>1
    <3>2. LayersOf(m)' = LayersOf(m)
      BY <1>2 DEF LayersOf
    <3>3. Len(q.layers) <= HopCount
      BY <1>6, <1>15
    <3> QED
      BY <1>2, <1>8, <1>14, <1>15, <1>16, <3>1, <3>2, <3>3 DEF Sealed
  <2> QED
    BY <1>2, <1>13, <1>14, <1>16, <2>1, <2>2, <2>3 DEF OnPath
<1>20. \A x \in net : OnPath(x)'
  BY <1>2, <1>3, StaysOnPath
<1>21. TypeOK'
  BY <1>2, <1>3, <1>18 DEF TypeOK
<1>22. PathsWhole' /\ CallsAtRelay' /\ Len(sent') <= MaxSends
  BY <1>2, <1>3 DEF PathsWhole, CallsAtRelay
<1>23. \A x \in net' : OnPath(x)'
  BY <1>2, <1>19, <1>20
<1> QED
  BY <1>21, <1>22, <1>23 DEF PathInv, PathFollowed, TtlLimits, OnPath

(* A copy with a visible field changed keeps its seals. *)
LEMMA DamageStep ==
    ASSUME PathInv, NEW p \in net, Damage(p)
    PROVE  PathInv'
<1>1. PICK q \in Damaged(p) : net' = net \cup {q}
  BY DEF Damage
<1>2. /\ p.layers # << >> /\ damages' = damages + 1
      /\ UNCHANGED <<now, keyring, descriptor, sent, cache, calls, rotations,
                     restarts, peeled, again, forgot, handed, cut>>
  BY DEF Damage
<1>3. TypeOK /\ PathsWhole /\ CallsAtRelay /\ Len(sent) <= MaxSends
      /\ \A x \in net : OnPath(x)
  BY PathParts
<1>4. p \in Packet /\ p.layers \in Seq(Layer) /\ OnPath(p)
  BY <1>3 DEF TypeOK, Packet
<1>5. 1 \in DOMAIN p.layers /\ p.layers[1] \in Layer
  BY <1>2, <1>4
<1>6. PICK l : /\ l \in UNION {{[p.layers[1] EXCEPT ![f] = x] :
                                  x \in CASE f = "hop" -> Hop
                                         [] f = "kid" -> Key
                                         [] f = "ttl" -> HopTtls} : f \in Fields}
               /\ q = [p EXCEPT !.layers = [@ EXCEPT ![1] = l]]
  BY <1>1 DEF Damaged
<1>7. PICK f \in Fields :
         \E x \in CASE f = "hop" -> Hop [] f = "kid" -> Key [] f = "ttl" -> HopTtls :
            l = [p.layers[1] EXCEPT ![f] = x]
  <2>1. PICK A \in {{[p.layers[1] EXCEPT ![f] = x] :
                       x \in CASE f = "hop" -> Hop
                              [] f = "kid" -> Key
                              [] f = "ttl" -> HopTtls} : f \in Fields} : l \in A
    BY <1>6
  <2>2. PICK f \in Fields :
           A = {[p.layers[1] EXCEPT ![f] = x] :
                  x \in CASE f = "hop" -> Hop [] f = "kid" -> Key [] f = "ttl" -> HopTtls}
    BY <2>1
  <2> QED
    BY <2>1, <2>2
<1>8. l \in Layer /\ l.seal = p.layers[1].seal
  <2>1. f \in {"hop", "kid", "ttl"}
    BY ConstantsAssumption
  <2>2. CASE f = "hop"
    BY <1>5, <1>7, <2>2 DEF Layer
  <2>3. CASE f = "kid"
    BY <1>5, <1>7, <2>3 DEF Layer
  <2>4. CASE f = "ttl"
    BY <1>5, <1>7, <2>4 DEF Layer
  <2> QED
    BY <2>1, <2>2, <2>3, <2>4
<1>9. q = [p EXCEPT !.layers = [p.layers EXCEPT ![1] = l]]
  BY <1>6
<1>10. /\ q.msg = p.msg /\ q.to = p.to /\ q.layers = [p.layers EXCEPT ![1] = l]
  BY <1>4, <1>9 DEF Packet
<1>11. /\ q.layers \in Seq(Layer) /\ Len(q.layers) = Len(p.layers)
       /\ DOMAIN q.layers = DOMAIN p.layers
       /\ \A i \in DOMAIN p.layers : q.layers[i] = IF i = 1 THEN l ELSE p.layers[i]
  <2>1. PICK ls \in Seq(Layer) : ls = p.layers
    BY <1>4
  <2>2. 1 \in DOMAIN ls /\ q.layers = [ls EXCEPT ![1] = l]
    BY <1>5, <1>10, <2>1
  <2>3. q.layers \in Seq(Layer) /\ Len(q.layers) = Len(ls)
    BY <1>8, <2>2
  <2>4. DOMAIN q.layers = DOMAIN ls
        /\ \A i \in DOMAIN ls : q.layers[i] = IF i = 1 THEN l ELSE ls[i]
    BY <2>2
  <2> QED
    BY <2>1, <2>3, <2>4
<1>12. q \in Packet
  BY <1>4, <1>9, <1>10, <1>11 DEF Packet
<1>13. \A i \in DOMAIN p.layers : q.layers[i].seal = p.layers[i].seal
  BY <1>8, <1>11
<1>14. Before(q) = Before(p)
  BY <1>11 DEF Before
<1>15. OnPath(q)
  BY <1>4, <1>10, <1>11, <1>13, <1>14 DEF OnPath, Sealed
<1>16. \A x \in net' : OnPath(x)'
  BY <1>1, <1>2, <1>3, <1>15, StaysOnPath
<1>17. TypeOK'
  BY <1>1, <1>2, <1>3, <1>12 DEF TypeOK
<1>18. PathsWhole' /\ CallsAtRelay' /\ Len(sent') <= MaxSends
  BY <1>1, <1>2, <1>3 DEF PathsWhole, CallsAtRelay
<1> QED
  BY <1>16, <1>17, <1>18 DEF PathInv, PathFollowed, TtlLimits, OnPath

(* The first half of a peel adds an entry to the cache, and perhaps a call. *)
LEMMA MarkStep ==
    ASSUME PathInv, NEW p \in net, NEW n \in 1 .. MaxCalls, PeelBegin(p, n)
    PROVE  PathInv'
<1>1. PICK r, c, marked : /\ r = p.to /\ c = [relay |-> r, p |-> p, n |-> n]
                          /\ marked = CheckAndMark(cache[r], p)
  OBVIOUS
<1>2. /\ r \in Relay /\ p.layers # << >>
      /\ cache' = [cache EXCEPT ![r] = marked]
      /\ calls' \subseteq calls \cup {c} /\ handed' = handed \cup {p}
      /\ UNCHANGED <<now, keyring, descriptor, sent, net, rotations,
                     damages, restarts, peeled, again, cut>>
  BY <1>1 DEF PeelBegin
<1>3. TypeOK /\ CallsAtRelay
  BY PathParts
<1>4. p \in Packet /\ p.layers \in Seq(Layer) /\ p.msg \in 1 .. MaxSends
  BY <1>3 DEF TypeOK, Packet
<1>5. p.layers[1] \in Layer
  BY <1>2, <1>4
<1>6. PICK K : K = (1 .. MaxSends) \X Seq(Layer) \X Hop \X Key
  OBVIOUS
<1>7. CacheKey(p) \in K
  BY <1>4, <1>5, <1>6 DEF CacheKey, Layer
<1>8. cache \in [Relay -> Seq(K)] /\ cache[r] \in Seq(K)
  BY <1>2, <1>3, <1>6 DEF TypeOK
<1>9. marked \in Seq(K)
  BY <1>1, <1>7, <1>8, MarkKeeps DEF Marks
<1>10. cache' \in [Relay -> Seq(K)]
  BY <1>2, <1>8, <1>9
<1>11. c \in Call
  BY <1>1, <1>2, <1>4 DEF Call
<1>12. TypeOK'
  BY <1>2, <1>3, <1>4, <1>6, <1>10, <1>11 DEF TypeOK
<1>13. CallsAtRelay'
  BY <1>1, <1>2, <1>3 DEF CallsAtRelay
<1> QED
  BY <1>2, <1>12, <1>13, StayingStep

(* The remaining steps change neither the messages nor the network. *)
LEMMA OtherStep ==
    ASSUME PathInv,
           \/ Tick \/ UNCHANGED vars
           \/ \E k \in Key, s \in Status \ {"absent"} : AddKey(k, s)
           \/ \E r \in Relay : Publish(r) \/ Restart(r)
           \/ \E c \in calls : PeelThrow(c)
    PROVE  PathInv'
<1>1. TypeOK /\ CallsAtRelay
  BY PathParts
<1>2. CASE Tick
  <2>1. TypeOK'
    BY <1>1, <1>2 DEF Tick, TypeOK
  <2> QED
    BY <1>1, <1>2, <2>1, StayingStep DEF Tick, CallsAtRelay
<1>3. CASE UNCHANGED vars
  <2>1. TypeOK'
    BY <1>1, <1>3 DEF vars, TypeOK
  <2> QED
    BY <1>1, <1>3, <2>1, StayingStep DEF vars, CallsAtRelay
<1>4. ASSUME NEW k \in Key, NEW s \in Status \ {"absent"}, AddKey(k, s)
      PROVE  PathInv'
  <2>1. TypeOK'
    BY <1>1, <1>4 DEF AddKey, TypeOK
  <2> QED
    BY <1>1, <1>4, <2>1, StayingStep DEF AddKey, CallsAtRelay
<1>5. ASSUME NEW r \in Relay, Publish(r) PROVE PathInv'
  <2>1. PICK d : /\ d = [keys |-> [k \in Key |-> IF k \in KeyRecords(r) THEN keyring[k]
                                                 ELSE "absent"],
                         expiresAt |-> now + Life]
                 /\ descriptor' = [descriptor EXCEPT ![r] = d]
    BY <1>5 DEF Publish
  <2>2. d \in Descriptor
    BY <1>1, <2>1, ConstantsAssumption DEF TypeOK, Descriptor, Status
  <2>3. TypeOK'
    BY <1>1, <1>5, <2>1, <2>2 DEF Publish, TypeOK
  <2> QED
    BY <1>1, <1>5, <2>3, StayingStep DEF Publish, CallsAtRelay
<1>6. ASSUME NEW r \in Relay, Restart(r) PROVE PathInv'
  <2>1. cache' \in [Relay -> Seq((1 .. MaxSends) \X Seq(Layer) \X Hop \X Key)]
    BY <1>1, <1>6 DEF Restart, TypeOK
  <2>2. cut' \subseteq 1 .. MaxSends
    <3>1. \A c \in calls : c.p.msg \in 1 .. MaxSends
      BY <1>1 DEF TypeOK, Call, Packet
    <3> QED
      BY <1>1, <1>6, <3>1 DEF Restart, Unfinished, TypeOK
  <2>3. TypeOK'
    BY <1>1, <1>6, <2>1, <2>2 DEF Restart, TypeOK
  <2> QED
    BY <1>1, <1>6, <2>3, StayingStep DEF Restart, CallsAtRelay
<1>7. ASSUME NEW c \in calls, PeelThrow(c) PROVE PathInv'
  <2>1. TypeOK'
    BY <1>1, <1>7 DEF PeelThrow, TypeOK
  <2> QED
    BY <1>1, <1>7, <2>1, StayingStep DEF PeelThrow, CallsAtRelay
<1> QED
  BY <1>2, <1>3, <1>4, <1>5, <1>6, <1>7

(* Whatever the network repeats, delays or changes and however peels       *)
(* overlap, a packet was opened by the relays of the path its sender chose *)
(* in their order, is addressed to the one after them, and goes no further *)
(* than the sender's ttl (OnionEncodeCodecV2, OnionPeelCodecV2).           *)
THEOREM PathsKept == Spec => []PathSound
<1>1. Init => PathInv
  <2> SUFFICES ASSUME Init PROVE PathInv
    OBVIOUS
  <2>1. NoDescriptor \in Descriptor
    BY DEF NoDescriptor, Descriptor, Status
  <2>2. TypeOK
    BY <2>1, ConstantsAssumption DEF Init, TypeOK
  <2>3. Len(sent) <= MaxSends
    BY ConstantsAssumption DEF Init
  <2> QED
    BY <2>2, <2>3 DEF Init, PathInv, PathFollowed, TtlLimits, PathsWhole, CallsAtRelay
<1>2. PathInv /\ [Next]_vars => PathInv'
  BY OtherStep, EncodeStep, MarkStep, OpenStep, DamageStep DEF Next
<1>3. PathInv => PathSound
  BY DEF PathInv, PathSound
<1> QED
  BY <1>1, <1>2, <1>3, PTL DEF Spec
=============================================================================
