----------------------------- MODULE OnionRelay -----------------------------
(***************************************************************************)
(* Onion packets of version 2 on their way through relays: the sender      *)
(* selects a key of every relay from the relay's descriptor and seals one  *)
(* layer per hop (OnionEncodeCodecV2), a relay marks the packet in its     *)
(* replay cache, looks its key up and opens one layer (OnionPeelCodecV2,   *)
(* OnionReplayCacheV2, OnionKeyringV1).  A peel awaits its cryptography    *)
(* between the lookup and the opening, so peels overlap.                   *)
(*                                                                         *)
(* The network keeps every packet it was given: a packet may arrive never, *)
(* late, or any number of times, and may be damaged: a copy arrives with   *)
(* another visible field.  A copy that parses to the same layer from other *)
(* bytes (other padding, another order of the JSON fields) would have      *)
(* another replay id and is outside the model: a packet here is its bytes. *)
(* The node that hands a peeled packet on is outside this repository; it   *)
(* sends the inner bytes to the endpoint the layer names, once.            *)
(***************************************************************************)
EXTENDS Integers, Sequences, FiniteSets

CONSTANTS
    Relay,        \* the relays, named by their endpoint
    Dest,         \* the final endpoint, not a relay
    Key,          \* the identifiers of onion keys
    Keys,         \* owner, creation time and window of every key
    Start,        \* the keyring's statuses at the start
    Lists,        \* the lists of relays a path may be built from
    HopCount,     \* length of a path
    Ttls,         \* the ttl values a sender may give
    MaxEntries,   \* capacity of a replay cache
    Life,         \* how long a published descriptor is valid
    MaxSends,     \* bound: messages sent
    MaxCalls,     \* bound: overlapping peels of one packet at one relay
    MaxTime,      \* bound: the clock
    MaxRotations, \* bound: addKey calls
    MaxDamage,    \* bound: damaged packets
    Fields,       \* the visible fields that may be damaged
    MaxRestarts   \* bound: restarts of relays

Status == {"absent", "active", "draining", "revoked"}

ASSUME ConstantsAssumption ==
    /\ Dest \notin Relay
    /\ Keys \in [Key -> [owner : Relay, createdAt : Nat,
                         notBefore : Nat, notAfter : Nat]]
    /\ \A k \in Key : Keys[k].notBefore <= Keys[k].notAfter
    /\ Start \in [Key -> Status]
    /\ Lists \subseteq Seq(Relay)
    /\ HopCount \in Nat \ {0}
    /\ Ttls \subseteq Nat
    /\ MaxEntries \in Nat \ {0}
    /\ Life \in Nat
    /\ Fields \subseteq {"hop", "kid", "ttl"}
    /\ MaxSends \in Nat /\ MaxCalls \in Nat /\ MaxTime \in Nat
    /\ MaxRotations \in Nat /\ MaxDamage \in Nat /\ MaxRestarts \in Nat

VARIABLES
    now,         \* the clock, shared
    keyring,     \* status of every key at its relay
    descriptor,  \* the sender's copy of every relay's descriptor
    sent,        \* the messages: path, ttl and keys
    net,         \* the packets given to the network
    cache,       \* every relay's replay cache, oldest entry first
    calls,       \* peels between their lookup and their opening
    rotations, damages, restarts,   \* the bounded counters
    peeled,      \* history: the packets each relay opened
    again,       \* history: those it opened more than once
    forgot,      \* history: the entries its cache lost
    handed,      \* history: the packets handed to their relay
    cut          \* history: the messages whose peel a restart stopped

vars == <<now, keyring, descriptor, sent, net, cache, calls, rotations,
          damages, restarts, peeled, again, forgot, handed, cut>>

-----------------------------------------------------------------------------
(* Keys and descriptors. *)

InWindow(k, t) == Keys[k].notBefore <= t /\ t < Keys[k].notAfter

KeyRecords(r) == {k \in Key : Keys[k].owner = r}

Descriptor == [keys : [Key -> Status], expiresAt : Nat]

NoDescriptor == [keys |-> [k \in Key |-> "absent"], expiresAt |-> 0]

(* A descriptor given as JSON is refused once it has expired. *)
FromJSON(d) == d.expiresAt > now

IsUsable(d, k) == d.keys[k] \notin {"absent", "revoked"} /\ InWindow(k, now)

Newest(ks) == {k \in ks : \A j \in ks : Keys[j].createdAt <= Keys[k].createdAt}

(* The keys selectOnionKeyForSendV1 may return; empty when it throws. *)
SelectOnionKeyForSend(d) ==
    LET usable == {k \in Key : IsUsable(d, k)}
        active == {k \in usable : d.keys[k] = "active"}
    IN  Newest(IF active # {} THEN active
               ELSE {k \in usable : d.keys[k] = "draining"})

(* getKeyForDecrypt finds the key and does not throw. *)
KeyForDecrypt(r, k) ==
    /\ Keys[k].owner = r
    /\ keyring[k] \in {"active", "draining"}
    /\ InWindow(k, now)

-----------------------------------------------------------------------------
(* Packets.  A layer shows hopIndex, onionKeyId and ttl; what it seals is  *)
(* bound to the three by the additional data of its AEAD.                  *)

Endpoint == Relay \cup {Dest}
Hop == 0 .. HopCount - 1
HopTtls == ({t - h : t \in Ttls, h \in Hop} \cap Nat) \cup {0}

Seal == [hop : Hop, kid : Key, ttl : HopTtls, next : Endpoint]
Layer == [hop : Hop, kid : Key, ttl : HopTtls, seal : Seal]
Packet == [msg : 1 .. MaxSends, to : Endpoint, layers : Seq(Layer)]

(* The relays of a list without repetitions, in order; the path is the     *)
(* first HopCount of them, and build throws when there are fewer.          *)
Unique(s) ==
    LET firsts == {i \in DOMAIN s : \A j \in 1 .. i - 1 : s[j] # s[i]}
        rank(i) == Cardinality({j \in firsts : j <= i})
    IN  [n \in 1 .. Cardinality(firsts) |->
            s[CHOOSE i \in firsts : rank(i) = n]]

BuildPath(relays) == SubSeq(Unique(relays), 1, HopCount)

HopTtl(ttl, i) == IF ttl - (i - 1) > 0 THEN ttl - (i - 1) ELSE 0

(* Mutant: a layer names its own relay as the next. *)
NextEndpointSame(path, i) == IF i < HopCount THEN path[i] ELSE Dest

NextEndpoint(path, i) == IF i < HopCount THEN path[i + 1] ELSE Dest

EncryptLayer(hop, kid, ttl, next) ==
    [hop |-> hop, kid |-> kid, ttl |-> ttl,
     seal |-> [hop |-> hop, kid |-> kid, ttl |-> ttl, next |-> next]]

EncodeLayers(path, ttl, kids) ==
    [i \in 1 .. Len(path) |->
        EncryptLayer(i - 1, kids[i], HopTtl(ttl, i), NextEndpoint(path, i))]

(* The AEAD opens when the visible fields are the sealed ones. *)
DecryptLayer(l) == l.seal.hop = l.hop /\ l.seal.kid = l.kid /\ l.seal.ttl = l.ttl

(* The cache key: the hash of the packet's bytes, which are its message    *)
(* and its layers, the hop and the key.                                    *)
CacheKey(p) == <<p.msg, p.layers, p.layers[1].hop, p.layers[1].kid>>

Seen(r, p) == \E i \in DOMAIN cache[r] : cache[r][i] = CacheKey(p)

Full(c) == Len(c) >= MaxEntries

(* Mutant: the packet is checked and not marked. *)
CheckOnly(c, p) == c

(* What checkAndMark leaves: a new last entry, the oldest gone above the   *)
(* capacity.                                                               *)
CheckAndMark(c, p) ==
    IF Full(c) THEN Tail(Append(c, CacheKey(p))) ELSE Append(c, CacheKey(p))

Evicted(r, p) ==
    IF Full(cache[r]) THEN {<<r, Head(Append(cache[r], CacheKey(p)))>>} ELSE {}

-----------------------------------------------------------------------------
Init ==
    /\ now = 0
    /\ keyring = Start
    /\ descriptor = [r \in Relay |-> NoDescriptor]
    /\ sent = << >>
    /\ net = {}
    /\ cache = [r \in Relay |-> << >>]
    /\ calls = {}
    /\ rotations = 0 /\ damages = 0 /\ restarts = 0
    /\ peeled = {} /\ again = {} /\ forgot = {} /\ handed = {} /\ cut = {}

Tick ==
    /\ now < MaxTime
    /\ now' = now + 1
    /\ UNCHANGED <<keyring, descriptor, sent, net, cache, calls, rotations,
                   damages, restarts, peeled, again, forgot, handed, cut>>

(* addKey replaces the record of the key, whatever its status was. *)
AddKey(k, s) ==
    /\ rotations < MaxRotations
    /\ keyring[k] # s
    /\ keyring' = [keyring EXCEPT ![k] = s]
    /\ rotations' = rotations + 1
    /\ UNCHANGED <<now, descriptor, sent, net, cache, calls, damages,
                   restarts, peeled, again, forgot, handed, cut>>

(* The sender receives the relay's current descriptor.  Bound: only while  *)
(* a message is still to be sent; nothing else reads it.                   *)
Publish(r) ==
    LET d == [keys |-> [k \in Key |-> IF k \in KeyRecords(r) THEN keyring[k]
                                      ELSE "absent"],
              expiresAt |-> now + Life]
    IN  /\ Len(sent) < MaxSends
        /\ \E k \in KeyRecords(r) : keyring[k] # "absent"
        /\ descriptor[r] # d
        /\ descriptor' = [descriptor EXCEPT ![r] = d]
        /\ UNCHANGED <<now, keyring, sent, net, cache, calls, rotations,
                       damages, restarts, peeled, again, forgot, handed, cut>>

(* The sender builds a path and encodes a message along it.  The hops in   *)
(* json have their descriptor as JSON, the others as an instance parsed    *)
(* earlier, which is used as it is, expired or not.                        *)
Encode(relays, ttl, json) ==
    /\ Len(sent) < MaxSends
    /\ Len(Unique(relays)) >= HopCount
    /\ LET path == BuildPath(relays)
       IN  /\ \A i \in json : FromJSON(descriptor[path[i]])
           /\ \E kids \in [1 .. HopCount -> Key] :
                /\ \A i \in 1 .. HopCount :
                      kids[i] \in SelectOnionKeyForSend(descriptor[path[i]])
                /\ sent' = Append(sent, [path |-> path, ttl |-> ttl, kids |-> kids])
                /\ net' = net \cup {[msg |-> Len(sent) + 1, to |-> path[1],
                                     layers |-> EncodeLayers(path, ttl, kids)]}
    /\ UNCHANGED <<now, keyring, descriptor, cache, calls, rotations,
                   damages, restarts, peeled, again, forgot, handed, cut>>

(* The first half of decode: the replay check, which marks the packet, and *)
(* the key lookup.  A packet whose key is refused stays marked.            *)
PeelBegin(p, n) ==
    LET r == p.to
        c == [relay |-> r, p |-> p, n |-> n]
    IN  /\ r \in Relay
        /\ p.layers # << >>
        /\ c \notin calls
        /\ ~Seen(r, p)
        /\ cache' = [cache EXCEPT ![r] = CheckAndMark(@, p)]
        /\ forgot' = forgot \cup Evicted(r, p)
        /\ handed' = handed \cup {p}
        /\ calls' = IF KeyForDecrypt(r, p.layers[1].kid) THEN calls \cup {c}
                    ELSE calls
        /\ UNCHANGED <<now, keyring, descriptor, sent, net, rotations,
                       damages, restarts, peeled, again, cut>>

(* Mutant: the ttl is checked one too early. *)
AcceptsEarly(l) == DecryptLayer(l) /\ l.seal.ttl = l.ttl /\ l.seal.ttl > 1

(* The checks on an opened layer: the sealed ttl is the visible one and    *)
(* has not run out.                                                        *)
Accepts(l) == DecryptLayer(l) /\ l.seal.ttl = l.ttl /\ l.seal.ttl > 0

Inner(p) == [msg |-> p.msg, to |-> p.layers[1].seal.next, layers |-> Tail(p.layers)]

(* The second half: the layer opens and the inner packet goes to the next  *)
(* endpoint.                                                               *)
PeelEnd(c) ==
    LET entry == <<c.relay, CacheKey(c.p)>>
    IN  /\ c \in calls
        /\ Accepts(c.p.layers[1])
        /\ calls' = calls \ {c}
        /\ net' = net \cup {Inner(c.p)}
        /\ peeled' = peeled \cup {entry}
        /\ again' = IF entry \in peeled THEN again \cup {entry} ELSE again
        /\ UNCHANGED <<now, keyring, descriptor, sent, cache, rotations,
                       damages, restarts, forgot, handed, cut>>

(* The second half throws. *)
PeelThrow(c) ==
    /\ c \in calls
    /\ ~Accepts(c.p.layers[1])
    /\ calls' = calls \ {c}
    /\ UNCHANGED <<now, keyring, descriptor, sent, net, cache, rotations,
                   damages, restarts, peeled, again, forgot, handed, cut>>

(* The peels at a relay that would still have opened their packet. *)
Unfinished(r) ==
    {c \in calls : c.relay = r /\ Accepts(c.p.layers[1]) /\ Inner(c.p) \notin net}

(* A relay restarts: its replay cache, held in memory, is empty again, and *)
(* the peels that were running are gone.                                   *)
Restart(r) ==
    /\ restarts < MaxRestarts
    /\ restarts' = restarts + 1
    /\ cache' = [cache EXCEPT ![r] = << >>]
    /\ calls' = {c \in calls : c.relay # r}
    /\ forgot' = forgot \cup {<<r, cache[r][i]>> : i \in DOMAIN cache[r]}
    /\ cut' = cut \cup {c.p.msg : c \in Unfinished(r)}
    /\ UNCHANGED <<now, keyring, descriptor, sent, net, rotations,
                   damages, peeled, again, handed>>

(* A copy of a packet arrives with one visible field changed. *)
Damaged(p) ==
    {[p EXCEPT !.layers = [@ EXCEPT ![1] = l]] :
        l \in UNION {{[p.layers[1] EXCEPT ![f] = x] :
                        x \in CASE f = "hop" -> Hop
                               [] f = "kid" -> Key
                               [] f = "ttl" -> HopTtls} : f \in Fields}}

Damage(p) ==
    /\ damages < MaxDamage
    /\ p.layers # << >>
    /\ \E q \in Damaged(p) \ {p} : net' = net \cup {q}
    /\ damages' = damages + 1
    /\ UNCHANGED <<now, keyring, descriptor, sent, cache, calls, rotations,
                   restarts, peeled, again, forgot, handed, cut>>

Next ==
    \/ Tick
    \/ \E k \in Key, s \in Status \ {"absent"} : AddKey(k, s)
    \/ \E r \in Relay : Publish(r)
    \/ \E relays \in Lists, ttl \in Ttls, json \in SUBSET (1 .. HopCount) :
          Encode(relays, ttl, json)
    \/ \E p \in net, n \in 1 .. MaxCalls : PeelBegin(p, n)
    \/ \E c \in calls : PeelEnd(c) \/ PeelThrow(c)
    \/ \E r \in Relay : Restart(r)
    \/ \E p \in net : Damage(p)

Spec == Init /\ [][Next]_vars

(* The packet that carries message m to the relay at hop h, undamaged. *)
IsHop(p, m, h) ==
    p.msg = m /\ p.layers # << >> /\ p.layers[1].hop = h /\ DecryptLayer(p.layers[1])

(* The network hands every packet to its relay once, and an awaited        *)
(* computation ends.  Nothing in the code sends a packet again: a further  *)
(* hand-over of the same packet may happen and is never owed.              *)
FairSpec ==
    /\ Spec
    /\ \A m \in 1 .. MaxSends, h \in Hop :
        /\ WF_vars(\E p \in net \ handed, n \in 1 .. MaxCalls :
                      IsHop(p, m, h) /\ PeelBegin(p, n))
        /\ WF_vars(\E c \in calls : IsHop(c.p, m, h) /\ PeelEnd(c))

-----------------------------------------------------------------------------
Call == [relay : Relay, p : Packet, n : 1 .. MaxCalls]

Message == [path : Seq(Relay), ttl : Ttls, kids : [1 .. HopCount -> Key]]

(* Every variable has its type. *)
TypeOK ==
    /\ now \in Nat
    /\ keyring \in [Key -> Status]
    /\ descriptor \in [Relay -> Descriptor]
    /\ sent \in Seq(Message)
    /\ net \subseteq Packet
    /\ cache \in [Relay -> Seq((1 .. MaxSends) \X Seq(Layer) \X Hop \X Key)]
    /\ calls \subseteq Call
    /\ rotations \in Nat /\ damages \in Nat /\ restarts \in Nat
    /\ again \subseteq peeled
    /\ handed \subseteq Packet /\ cut \subseteq 1 .. MaxSends

(* A relay opens a packet once: however often the network repeats it and   *)
(* however its peels overlap, a second opening is of a packet whose entry  *)
(* the replay cache had lost, to its capacity or to a restart.             *)
NoDoublePeel == again \subseteq forgot

(* A packet that has left h layers behind was opened by the first h relays *)
(* of its path, in their order, and is addressed to the relay after them.  *)
Before(p) == HopCount - Len(p.layers)

PathFollowed ==
    \A p \in net :
        /\ p.to = IF Before(p) = HopCount THEN Dest
                   ELSE sent[p.msg].path[Before(p) + 1]
        /\ \A h \in 1 .. Before(p) :
              \E e \in peeled : /\ e[1] = sent[p.msg].path[h]
                                /\ e[2][1] = p.msg
                                /\ Len(e[2][2]) = HopCount - h + 1

(* No packet goes further than its sender's ttl, even when the visible ttl *)
(* of a layer was changed on the way.                                      *)
TtlLimits == \A p \in net : Before(p) <= sent[p.msg].ttl

(* Every packet in the network is well formed, on the path its sender      *)
(* chose and within its ttl (decode and the checks on an opened layer).    *)
PathSound == TypeOK /\ PathFollowed /\ TtlLimits

(* The message with number m has reached the final endpoint. *)
Delivered(m) == \E p \in net : p.msg = m /\ p.to = Dest

(* A key of the message is refused by its relay. *)
Spoiled(m) ==
    m <= Len(sent) /\ \E i \in 1 .. HopCount :
        ~KeyForDecrypt(sent[m].path[i], sent[m].kids[i])

(* A message whose ttl reaches the end of its path arrives, each packet of *)
(* it handed over once, unless one of its relays stops accepting the key   *)
(* it was sealed under or restarts while it peels the message: rotating a  *)
(* key to draining, damaged copies, repeated packets, a full cache and a   *)
(* restart before or after the peel do not lose it.                        *)
EventuallyDelivered ==
    \A m \in 1 .. MaxSends :
        (m <= Len(sent) /\ sent[m].ttl >= HopCount)
            ~> (Delivered(m) \/ Spoiled(m) \/ m \in cut)
=============================================================================
