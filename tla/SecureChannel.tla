--------------------------- MODULE SecureChannel ---------------------------
(***************************************************************************)
(* One end-to-end encrypted session between an initiator "I" (the invite   *)
(* acceptor) and a responder "R" (the invite creator): the send and        *)
(* receive paths of SecureChannelManager, the Double Ratchet of            *)
(* RatchetService with its SkippedKeyStore, the session record of          *)
(* MemorySessionManager, and the envelope codecs.                          *)
(*                                                                         *)
(* Every operation is an async function.  It reads the session record,     *)
(* awaits crypto, and commits a new ratchet state at the end; the skipped  *)
(* key store is one object shared by all those states and is changed in    *)
(* place.  A call is therefore several steps, and the steps of the calls   *)
(* running on one party interleave.  Slots bounds the calls that may       *)
(* overlap on a party: a single slot is a caller that serialises them.     *)
(*                                                                         *)
(* Keys are symbolic.  A root key is the sequence of Diffie-Hellman        *)
(* secrets mixed into the X3DH shared secret, a chain key is the chain's   *)
(* base and an index, and a message key is the chain key it comes from.    *)
(* The transport may lose, delay, duplicate, reorder and damage packets.   *)
(***************************************************************************)
EXTENDS Integers, Sequences, FiniteSets

CONSTANTS
    Slots,            \* calls that may be in progress on one party at a time
    MaxSends,         \* bound: messages each party encrypts
    MaxSkip,          \* RatchetState.maxSkip
    MaxSkippedKeys,   \* RatchetState.maxSkippedKeys
    MaxSkippedBytes,  \* RatchetState.maxSkippedBytes
    MaxRestarts,      \* bound: restarts from a snapshot
    Damageable,       \* numbers of the messages the transport may damage
    Ranks             \* byte orders of the DH public keys to consider

Party == {"I", "R"}

Peer(p) == IF p = "I" THEN "R" ELSE "I"

\* a0: the initiator's ratchet key; spk: the responder's signed prekey;
\* b0, b1: the responder's ratchet keys before and after rotateDh.
DhKey == {"a0", "spk", "b0", "b1"}

NoDh == "none"

KeyBytes == 32

ASSUME SlotsAssumption == Slots # {} /\ IsFiniteSet(Slots)
ASSUME SendsAssumption == MaxSends \in [Party -> Nat]
ASSUME LimitsAssumption ==
    MaxSkip \in Nat /\ MaxSkippedKeys \in Nat /\ MaxSkippedBytes \in Nat
ASSUME RestartsAssumption == MaxRestarts \in Nat
ASSUME DamageAssumption == Damageable \subseteq Nat
ASSUME RanksAssumption ==
    /\ Ranks \subseteq [DhKey -> Nat]
    /\ \A r \in Ranks : \A j, k \in DhKey : r[j] = r[k] => j = k

VARIABLES
    rank,     \* byte order of the public keys, fixed
    ses,      \* ses[p]: the SecureSessionRecord of p
    skipped,  \* skipped[p]: the SkippedKeyStore all ratchet states of p share
    call,     \* call[p][s]: the call in progress in slot s of p
    net,      \* every envelope ever sent; any of them may arrive, repeatedly
    got,      \* got[p]: plaintexts decryptPayload has returned at p
    twice,    \* twice[p]: plaintexts it has returned more than once
    tainted,  \* tainted[p]: a decrypt changed skipped[p] and did not commit
    saved,    \* saved[p]: the last snapshot p exported
    stale,    \* stale[p]: p restarted from a snapshot older than its state
    restarts  \* number of restarts so far

history == <<got, twice, tainted>>
disk == <<saved, stale, restarts>>
vars == <<rank, ses, skipped, call, net, history, disk>>

----------------------------------------------------------------------------
(* Ratchet states.                                                         *)

Root == Seq(SUBSET DhKey)

Base == [root : Root, half : {"shared", "sending", "receiving"}]

NoChain == [base |-> [root |-> << >>, half |-> "shared"], n |-> -1]

Chain == [base : Base, n : Nat]

MessageKey == [base : Base, n : Nat]

RatchetState == [root : Root, snd : Chain \cup {NoChain},
                 rcv : Chain \cup {NoChain}, self : DhKey, remote : DhKey]

SendingState == {rs \in RatchetState : rs.snd \in Chain}

ReceivingState == {rs \in RatchetState : rs.rcv \in Chain}

SharedChain == [base |-> [root |-> << >>, half |-> "shared"], n |-> 0]

InitializeAsInitiator ==
    [root |-> << >>, snd |-> SharedChain, rcv |-> NoChain,
     self |-> "a0", remote |-> "spk"]

InitializeAsResponder ==
    [root |-> << >>, snd |-> NoChain, rcv |-> SharedChain,
     self |-> "b0", remote |-> "a0"]

\* Both sides derive the same two chain keys from the new root; the side whose
\* public key is smaller sends on the first and receives on the second.
RatchetStep(rs, dh, establish) ==
    LET newRoot == Append(rs.root, {rs.self, dh})
        lower   == rank[rs.self] < rank[dh]
        Fresh(half) == [base |-> [root |-> newRoot, half |-> half], n |-> 0]
    IN [root   |-> newRoot,
        snd    |-> IF establish = "receiving" THEN rs.snd
                   ELSE Fresh(IF lower THEN "sending" ELSE "receiving"),
        rcv    |-> IF establish = "sending" THEN rs.rcv
                   ELSE Fresh(IF lower THEN "receiving" ELSE "sending"),
        self   |-> rs.self,
        remote |-> dh]

KeyAt(chain) == [base |-> chain.base, n |-> chain.n]

\* Mutant: the index is not moved on.
AdvanceNot(chain) == chain

SetSending(rs, chain) == [rs EXCEPT !.snd = chain]

SetReceiving(rs, chain) == [rs EXCEPT !.rcv = chain]

Advance(chain) == [base |-> chain.base, n |-> chain.n + 1]

----------------------------------------------------------------------------
(* The skipped key store: at most one entry per (DH key, index).           *)

Entry == [dh : DhKey, n : Nat, mk : MessageKey]

SkippedAt(store, dh, n) == {e \in store : e.dh = dh /\ e.n = n}

SkippedSet(store, dh, n, mk) ==
    (store \ SkippedAt(store, dh, n)) \cup {[dh |-> dh, n |-> n, mk |-> mk]}

\* Mutant: the limit is checked before the key is counted.
StoreFullLate(store) ==
    \/ Cardinality(store) > MaxSkippedKeys
    \/ Cardinality(store) * KeyBytes > MaxSkippedBytes

StoreFull(store) ==
    \/ Cardinality(store) + 1 > MaxSkippedKeys
    \/ (Cardinality(store) + 1) * KeyBytes > MaxSkippedBytes

----------------------------------------------------------------------------
(* Calls and envelopes.                                                    *)

Envelope == [from : Party, id : Nat, dh : DhKey \cup {NoDh},
             pn : Nat, n : Nat, key : MessageKey]

Idle == [op |-> "idle"]

EncryptCall == [op : {"encrypt"}, rs : SendingState, includeDh : BOOLEAN]

LookupCall == [op : {"lookup"}, rs : RatchetState, m : Envelope,
               intact : BOOLEAN, stored : BOOLEAN]

SkipCall == [op : {"skip"}, rs : ReceivingState, m : Envelope,
             intact : BOOLEAN, stored : BOOLEAN]

OpenCall == [op : {"open"}, rs : ReceivingState, m : Envelope,
             intact : BOOLEAN, stored : BOOLEAN, mk : MessageKey]

Call == {Idle} \cup [op : {"rotate"}] \cup EncryptCall
        \cup LookupCall \cup SkipCall \cup OpenCall

\* The fields of a decryptPayload call that has read the record.
Decrypting(op, rs, m, intact, stored) ==
    [op |-> op, rs |-> rs, m |-> m, intact |-> intact, stored |-> stored]

NoSession ==
    [phase |-> "none", includeDh |-> FALSE,
     rs |-> [root |-> << >>, snd |-> NoChain, rcv |-> NoChain,
             self |-> "a0", remote |-> "spk"]]

Session == [phase : {"none", "ready"}, rs : RatchetState, includeDh : BOOLEAN]

Record(rs, includeDh) == [phase |-> "ready", rs |-> rs, includeDh |-> includeDh]

Snapshot == [ses : Session, skipped : SUBSET Entry]

SentBy(p) == {m \in net : m.from = p}

HasSession(p) == ses[p].phase # "none"

\* The session whose id the envelope carries.
GetRecvContext(p, m) == HasSession(p) /\ m.from = Peer(p)

Init ==
    /\ rank \in Ranks
    /\ ses = [p \in Party |-> NoSession]
    /\ skipped = [p \in Party |-> {}]
    /\ call = [p \in Party |-> [s \in Slots |-> Idle]]
    /\ net = {}
    /\ got = [p \in Party |-> {}]
    /\ twice = [p \in Party |-> {}]
    /\ tainted = [p \in Party |-> FALSE]
    /\ saved = [p \in Party |-> [ses |-> NoSession, skipped |-> {}]]
    /\ stale = [p \in Party |-> FALSE]
    /\ restarts = 0

----------------------------------------------------------------------------
(* Session establishment.                                                  *)

EstablishInitiatorSession ==
    /\ ses["I"].phase = "none"
    /\ ses' = [ses EXCEPT !["I"] = Record(InitializeAsInitiator, FALSE)]
    /\ UNCHANGED <<rank, skipped, call, net, history, disk>>

\* The handshake has arrived; the record is visible to other calls from here
\* on, although rotateDh has not run yet.
CreateResponderSession(s) ==
    /\ ses["I"].phase = "ready" /\ ses["R"].phase = "none"
    /\ call["R"][s] = Idle
    /\ ses' = [ses EXCEPT !["R"] = Record(InitializeAsResponder, FALSE)]
    /\ call' = [call EXCEPT !["R"][s] = [op |-> "rotate"]]
    /\ UNCHANGED <<rank, skipped, net, history, disk>>

\* rotateDh reads the record after it has generated the key pair.
RotateDh(s) ==
    /\ call["R"][s] = [op |-> "rotate"]
    /\ ses' = [ses EXCEPT !["R"] = Record([ses["R"].rs EXCEPT !.self = "b1"], TRUE)]
    /\ call' = [call EXCEPT !["R"][s] = Idle]
    /\ UNCHANGED <<rank, skipped, net, history, disk>>

----------------------------------------------------------------------------
(* encryptPayload.                                                         *)

\* Mutant: the responder sends without a sending chain.
SendStateNoStep(rs) == rs

\* Mutant: the step replaces the receiving chain too.
SendStateBoth(rs) ==
    IF rs.snd = NoChain THEN RatchetStep(rs, rs.remote, "both") ELSE rs

\* The state to encrypt with: the responder's first send derives its sending
\* chain and keeps its receiving chain.
SendState(rs) ==
    IF rs.snd = NoChain THEN RatchetStep(rs, rs.remote, "sending") ELSE rs

EncryptBegin(p, s) ==
    /\ HasSession(p) /\ call[p][s] = Idle
    /\ Cardinality(SentBy(p)) < MaxSends[p]
    /\ call' = [call EXCEPT ![p][s] =
                   [op |-> "encrypt", rs |-> SendState(ses[p].rs),
                    includeDh |-> ses[p].includeDh \/ ses[p].rs.snd = NoChain]]
    /\ UNCHANGED <<rank, ses, skipped, net, history, disk>>

Seal(p, c) ==
    [from |-> p, id |-> Cardinality(SentBy(p)),
     dh |-> IF c.includeDh THEN c.rs.self ELSE NoDh,
     pn |-> IF c.rs.rcv = NoChain THEN 0 ELSE c.rs.rcv.n,
     n |-> c.rs.snd.n, key |-> KeyAt(c.rs.snd)]

EncryptCommit(p, s) ==
    LET c == call[p][s] IN
    /\ c.op = "encrypt"
    /\ net' = net \cup {Seal(p, c)}
    /\ ses' = [ses EXCEPT ![p] = Record(SetSending(c.rs, Advance(c.rs.snd)), FALSE)]
    /\ call' = [call EXCEPT ![p][s] = Idle]
    /\ UNCHANGED <<rank, skipped, history, disk>>

----------------------------------------------------------------------------
(* decryptPayload.                                                         *)

\* The state to decrypt with: a new DH key in the header establishes the
\* receiving chain and keeps the sending chain.
ReceiveState(rs, m) ==
    IF m.dh # NoDh /\ m.dh # rs.remote
    THEN RatchetStep(rs, m.dh, "receiving") ELSE rs

DecryptBegin(p, s, m, intact) ==
    /\ GetRecvContext(p, m) /\ call[p][s] = Idle
    /\ intact \/ m.id \in Damageable
    /\ call' = [call EXCEPT ![p][s] =
                   Decrypting("lookup", ReceiveState(ses[p].rs, m), m, intact, FALSE)]
    /\ UNCHANGED <<rank, ses, skipped, net, history, disk>>

\* A throw ends the call without a commit; what it did to the store stays.
Throw(p, s) ==
    /\ call' = [call EXCEPT ![p][s] = Idle]
    /\ tainted' = [tainted EXCEPT ![p] = @ \/ call[p][s].stored]
    /\ UNCHANGED <<rank, ses, skipped, net, got, twice, disk>>

\* The synchronous part of deriveReceivingKeyForHeader after its first await.
DecryptLookup(p, s) ==
    LET c     == call[p][s]
        found == SkippedAt(skipped[p], c.rs.remote, c.m.n)
    IN
    /\ c.op = "lookup"
    /\ \/ /\ c.rs.rcv = NoChain
          /\ Throw(p, s)
       \/ /\ c.rs.rcv # NoChain /\ found # {}
          /\ skipped' = [skipped EXCEPT ![p] = @ \ found]
          /\ \E e \in found :
                call' = [call EXCEPT ![p][s] =
                            [op |-> "open", rs |-> c.rs, m |-> c.m,
                             intact |-> c.intact, stored |-> TRUE, mk |-> e.mk]]
          /\ UNCHANGED <<rank, ses, net, history, disk>>
       \/ /\ c.rs.rcv # NoChain /\ found = {}
          /\ c.m.n < c.rs.rcv.n \/ c.m.n - c.rs.rcv.n > MaxSkip
          /\ Throw(p, s)
       \/ /\ c.rs.rcv # NoChain /\ found = {}
          /\ c.m.n >= c.rs.rcv.n /\ c.m.n - c.rs.rcv.n <= MaxSkip
          /\ call' = [call EXCEPT ![p][s] =
                         Decrypting("skip", c.rs, c.m, c.intact, c.stored)]
          /\ UNCHANGED <<rank, ses, skipped, net, history, disk>>

\* One turn of the skip loop, or the derivation of the message's own key.
DecryptSkip(p, s) ==
    LET c == call[p][s] IN
    /\ c.op = "skip"
    /\ \/ /\ c.rs.rcv.n < c.m.n /\ StoreFull(skipped[p])
          /\ Throw(p, s)
       \/ /\ c.rs.rcv.n < c.m.n /\ ~StoreFull(skipped[p])
          /\ skipped' = [skipped EXCEPT ![p] =
                            SkippedSet(@, c.rs.remote, c.rs.rcv.n, KeyAt(c.rs.rcv))]
          /\ call' = [call EXCEPT ![p][s] =
                         Decrypting("skip", SetReceiving(c.rs, Advance(c.rs.rcv)),
                                    c.m, c.intact, TRUE)]
          /\ UNCHANGED <<rank, ses, net, history, disk>>
       \/ /\ c.rs.rcv.n = c.m.n
          /\ call' = [call EXCEPT ![p][s] =
                         [op |-> "open", rs |-> SetReceiving(c.rs, Advance(c.rs.rcv)),
                          m |-> c.m, intact |-> c.intact, stored |-> c.stored,
                          mk |-> KeyAt(c.rs.rcv)]]
          /\ UNCHANGED <<rank, ses, skipped, net, history, disk>>

\* AEAD: the envelope opens exactly when it is intact and the key is the one
\* it was sealed with; rs is the state then committed.
OpenAndCommit(p, s, rs) ==
    LET c == call[p][s] IN
    /\ c.op = "open"
    /\ \/ /\ ~(c.intact /\ c.mk = c.m.key)
          /\ Throw(p, s)
       \/ /\ c.intact /\ c.mk = c.m.key
          /\ ses' = [ses EXCEPT ![p] = Record(rs, ses[p].includeDh)]
          /\ got' = [got EXCEPT ![p] = @ \cup {c.m.id}]
          /\ twice' = [twice EXCEPT ![p] = @ \cup (got[p] \cap {c.m.id})]
          /\ call' = [call EXCEPT ![p][s] = Idle]
          /\ UNCHANGED <<rank, skipped, net, tainted, disk>>

\* Mutant: the new state is not committed.
DecryptOpenNoCommit(p, s) == OpenAndCommit(p, s, ses[p].rs)

DecryptOpen(p, s) == OpenAndCommit(p, s, call[p][s].rs)

----------------------------------------------------------------------------
(* Snapshots.  When to export is the application's choice.                 *)

\* Mutant: the skipped keys are not exported.
SnapshotNoKeys(p) == [ses |-> ses[p], skipped |-> {}]

SnapshotOf(p) == [ses |-> ses[p], skipped |-> skipped[p]]

ExportSnapshot(p) ==
    /\ restarts < MaxRestarts
    /\ saved[p] # SnapshotOf(p)
    /\ saved' = [saved EXCEPT ![p] = SnapshotOf(p)]
    /\ UNCHANGED <<rank, ses, skipped, call, net, history, stale, restarts>>

\* The calls in progress are lost; what they had done to the store may be in
\* the snapshot although they never committed.
Uncommitted(p) ==
    \E s \in Slots : call[p][s].op \in {"lookup", "skip", "open"} /\ call[p][s].stored

\* A process that has a session restarts and calls importSnapshot.
Restart(p) ==
    /\ restarts < MaxRestarts
    /\ saved[p].ses.phase = "ready"
    /\ ses' = [ses EXCEPT ![p] = saved[p].ses]
    /\ skipped' = [skipped EXCEPT ![p] = saved[p].skipped]
    /\ call' = [call EXCEPT ![p] = [s \in Slots |-> Idle]]
    /\ stale' = [stale EXCEPT ![p] = @ \/ saved[p] # SnapshotOf(p)]
    /\ tainted' = [tainted EXCEPT ![p] = @ \/ Uncommitted(p)]
    /\ restarts' = restarts + 1
    /\ UNCHANGED <<rank, net, got, twice, saved>>

----------------------------------------------------------------------------

CallStep(p, s) ==
    \/ EncryptCommit(p, s)
    \/ DecryptLookup(p, s)
    \/ DecryptSkip(p, s)
    \/ DecryptOpen(p, s)

Next ==
    \/ EstablishInitiatorSession
    \/ \E s \in Slots : CreateResponderSession(s) \/ RotateDh(s)
    \/ \E p \in Party : ExportSnapshot(p) \/ Restart(p)
    \/ \E p \in Party, s \in Slots :
          \/ EncryptBegin(p, s)
          \/ CallStep(p, s)
          \/ \E m \in net, intact \in BOOLEAN : DecryptBegin(p, s, m, intact)

Spec == Init /\ [][Next]_vars

----------------------------------------------------------------------------
(* Properties.                                                             *)

\* Every variable stays within its type (records, maps and stores of
\* MemorySessionManager, RatchetService and SkippedKeyStore).
TypeOK ==
    /\ rank \in Ranks
    /\ ses \in [Party -> Session]
    /\ skipped \in [Party -> SUBSET Entry]
    /\ call \in [Party -> [Slots -> Call]]
    /\ net \subseteq Envelope
    /\ got \in [Party -> SUBSET Nat]
    /\ twice \in [Party -> SUBSET Nat]
    /\ tainted \in [Party -> BOOLEAN]
    /\ saved \in [Party -> Snapshot]
    /\ stale \in [Party -> BOOLEAN]
    /\ restarts \in Nat

\* deriveAeadKeyNonceV1 derives key and nonce from the message key, pn, n and
\* dh.
AeadContext(m) == <<m.key, m.pn, m.n, m.dh>>

\* No two envelopes are sealed under the same AEAD key and nonce, unless their
\* sender was rolled back to an old snapshot.
NoAeadReuse ==
    \A m1, m2 \in net :
        AeadContext(m1) = AeadContext(m2) /\ ~stale[m1.from] => m1 = m2

\* The skipped key store never holds more than maxSkippedKeys keys, nor more
\* than maxSkippedBytes bytes, whatever calls are in progress.
SkippedBounded ==
    \A p \in Party :
        /\ Cardinality(skipped[p]) <= MaxSkippedKeys
        /\ Cardinality(skipped[p]) * KeyBytes <= MaxSkippedBytes

\* Once both ends of a direction are established they are on the same chain:
\* the lazy step in encryptPayload and the step in deriveReceivingKeyForHeader
\* derive the same chain, neither disturbs the other direction, and a receiver
\* is never ahead of its sender.
ChainAgreement ==
    \A p \in Party :
        LET snd == ses[p].rs.snd
            rcv == ses[Peer(p)].rs.rcv
        IN snd # NoChain /\ rcv # NoChain /\ ~stale[p]
           => snd.base = rcv.base /\ rcv.n <= snd.n

Quiet(p) == \A s \in Slots : call[p][s] = Idle

Derivable(p, m) ==
    LET found == SkippedAt(skipped[p], ses[p].rs.remote, m.n)
    IN \/ \E e \in found : e.mk = m.key
       \/ /\ found = {}
          /\ ses[p].rs.rcv.base = m.key.base /\ ses[p].rs.rcv.n <= m.n

\* Whatever has been decrypted, dropped or refused before, an envelope that has
\* not been decrypted yet can still be: its key is in the store or ahead on the
\* receiving chain.  (A decrypt that ended half-way may cost keys, see tainted.)
StillDecryptable ==
    \A p \in Party :
        /\ Quiet(p) /\ ses[p].rs.rcv # NoChain
        /\ ~tainted[p] /\ ~stale[p] /\ ~stale[Peer(p)]
        => \A m \in SentBy(Peer(p)) : m.id \notin got[p] => Derivable(p, m)

\* decryptPayload returns each plaintext at most once, however often the
\* transport presents it, unless an earlier decrypt ended half-way or the
\* receiver was rolled back.
AtMostOnceUntainted ==
    \A p \in Party : ~tainted[p] /\ ~stale[p] => twice[p] = {}

----------------------------------------------------------------------------
(* Liveness: the transport keeps presenting an envelope until it has been   *)
(* decrypted, and a call that has begun goes on.                            *)

\* A store keeps an envelope until it is acknowledged, and acknowledged
\* envelopes are not presented again.
Present(p, m) ==
    m.id \notin got[p] /\ \E s \in Slots : DecryptBegin(p, s, m, TRUE)

Fairness ==
    /\ WF_vars(EstablishInitiatorSession)
    /\ \A s \in Slots : WF_vars(CreateResponderSession(s)) /\ WF_vars(RotateDh(s))
    /\ \A p \in Party, s \in Slots : WF_vars(CallStep(p, s))
    /\ \A p \in Party, i \in 0 .. MaxSends["I"] + MaxSends["R"] :
          SF_vars(\E m \in net : m.id = i /\ Present(p, m))

FairSpec == Spec /\ Fairness

\* Every message is eventually decrypted, in whatever order the transport
\* presents them: while the limits are not reached, no order of arrivals wedges
\* the session.
EventuallyDecrypted ==
    \A p \in Party : \A i \in 0 .. MaxSends[Peer(p)] :
        (\E m \in SentBy(Peer(p)) : m.id = i) ~> (i \in got[p])
=============================================================================
