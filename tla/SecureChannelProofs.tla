------------------------ MODULE SecureChannelProofs ------------------------
(* Proofs about SecureChannel, for every value of its constants.           *)
EXTENDS SecureChannel, FiniteSetTheorems, SequenceTheorems, TLAPS

----------------------------------------------------------------------------
(* What the operators on ratchet states return.                            *)

LEMMA ChainFacts ==
    /\ NoChain \notin Chain
    /\ SharedChain \in Chain
    /\ \A c \in Chain : Advance(c) \in Chain /\ KeyAt(c) \in MessageKey
    /\ Chain = MessageKey
  BY DEF NoChain, Chain, SharedChain, Advance, KeyAt, MessageKey, Base, Root

LEMMA SetChainType ==
    ASSUME NEW rs \in RatchetState, NEW chain \in Chain
    PROVE  /\ SetSending(rs, chain) \in SendingState
           /\ SetReceiving(rs, chain) \in ReceivingState
           /\ SetSending(rs, chain).snd = chain
           /\ SetReceiving(rs, chain).snd = rs.snd
  BY DEF SetSending, SetReceiving, SendingState, ReceivingState, RatchetState

LEMMA InitialStates ==
    /\ InitializeAsInitiator \in RatchetState
    /\ InitializeAsResponder \in RatchetState
    /\ NoSession \in Session
  <1>1. NoChain \in Chain \cup {NoChain} /\ SharedChain \in Chain
    BY ChainFacts
  <1>2. << >> \in Root
    BY DEF Root
  <1> QED
    BY <1>1, <1>2
    DEF InitializeAsInitiator, InitializeAsResponder, NoSession, Session,
        RatchetState, DhKey

\* ratchetStep installs the chain it is asked for and keeps the other.
LEMMA RatchetStepType ==
    ASSUME NEW rs \in RatchetState, NEW dh \in DhKey,
           NEW establish \in {"sending", "receiving"}
    PROVE  /\ RatchetStep(rs, dh, establish) \in RatchetState
           /\ establish = "sending" =>
                 /\ RatchetStep(rs, dh, establish).snd \in Chain
                 /\ RatchetStep(rs, dh, establish).rcv = rs.rcv
           /\ establish = "receiving" =>
                 /\ RatchetStep(rs, dh, establish).rcv \in Chain
                 /\ RatchetStep(rs, dh, establish).snd = rs.snd
  <1> DEFINE newRoot == Append(rs.root, {rs.self, dh})
             Fresh(half) == [base |-> [root |-> newRoot, half |-> half], n |-> 0]
  <1>1. newRoot \in Root
    BY DEF RatchetState, Root
  <1>2. \A half \in {"sending", "receiving"} : Fresh(half) \in Chain
    BY <1>1 DEF Chain, Base
  <1> HIDE DEF newRoot
  <1>3. RatchetStep(rs, dh, establish) =
          [root   |-> newRoot,
           snd    |-> IF establish = "receiving" THEN rs.snd
                      ELSE Fresh(IF rank[rs.self] < rank[dh]
                                 THEN "sending" ELSE "receiving"),
           rcv    |-> IF establish = "sending" THEN rs.rcv
                      ELSE Fresh(IF rank[rs.self] < rank[dh]
                                 THEN "receiving" ELSE "sending"),
           self   |-> rs.self,
           remote |-> dh]
    BY DEF RatchetStep, newRoot
  <1> QED
    BY <1>1, <1>2, <1>3 DEF RatchetState

LEMMA SendStateType ==
    ASSUME NEW rs \in RatchetState
    PROVE  SendState(rs) \in SendingState /\ SendState(rs).rcv = rs.rcv
  <1>1. CASE rs.snd = NoChain
    BY <1>1, RatchetStepType DEF SendState, SendingState, RatchetState
  <1>2. CASE rs.snd # NoChain
    BY <1>2 DEF SendState, SendingState, RatchetState
  <1> QED BY <1>1, <1>2

LEMMA ReceiveStateType ==
    ASSUME NEW rs \in RatchetState, NEW m \in Envelope
    PROVE  ReceiveState(rs, m) \in RatchetState /\ ReceiveState(rs, m).snd = rs.snd
  <1>1. CASE m.dh # NoDh /\ m.dh # rs.remote
    BY <1>1, RatchetStepType DEF ReceiveState, Envelope
  <1>2. CASE ~(m.dh # NoDh /\ m.dh # rs.remote)
    BY <1>2 DEF ReceiveState
  <1> QED BY <1>1, <1>2

\* A call is of the kind its op says.
LEMMA CallKinds ==
    ASSUME NEW c \in Call
    PROVE  /\ c.op = "encrypt" => c \in EncryptCall
           /\ c.op = "lookup" => c \in LookupCall
           /\ c.op = "skip" => c \in SkipCall
           /\ c.op = "open" => c \in OpenCall
  BY DEF Call, Idle, EncryptCall, LookupCall, SkipCall, OpenCall

\* The envelope encryptPayload returns.
LEMMA SealType ==
    ASSUME NEW p \in Party, NEW c \in EncryptCall, IsFiniteSet(net)
    PROVE  Seal(p, c) \in Envelope
  <1>1. IsFiniteSet(SentBy(p))
    BY FS_Subset DEF SentBy
  <1>2. Cardinality(SentBy(p)) \in Nat
    BY <1>1, FS_CardinalityType
  <1>3. c.rs \in RatchetState /\ c.rs.snd \in Chain
    BY DEF EncryptCall, SendingState
  <1>4. KeyAt(c.rs.snd) \in MessageKey /\ c.rs.snd.n \in Nat
    BY <1>3, ChainFacts DEF Chain
  <1>5. (IF c.rs.rcv = NoChain THEN 0 ELSE c.rs.rcv.n) \in Nat
    BY <1>3 DEF RatchetState, Chain
  <1>6. (IF c.includeDh THEN c.rs.self ELSE NoDh) \in DhKey \cup {NoDh}
    BY <1>3 DEF RatchetState
  <1> QED
    BY <1>2, <1>4, <1>5, <1>6 DEF Seal, Envelope

----------------------------------------------------------------------------
(* Type correctness.  Envelopes are numbered by how many were sent, which   *)
(* is a number because the network is finite.                              *)

TypeInv == TypeOK /\ IsFiniteSet(net)

LEMMA TypeInit == Init => TypeInv
  <1> SUFFICES ASSUME Init PROVE TypeInv
    OBVIOUS
  <1>1. Idle \in Call
    BY DEF Call
  <1>2. IsFiniteSet(net)
    BY FS_EmptySet DEF Init
  <1> QED
    BY <1>1, <1>2, InitialStates DEF Init, TypeInv, TypeOK, Snapshot

\* Replacing one call by another keeps the type of call.
LEMMA SetCallType ==
    ASSUME NEW cs \in [Party -> [Slots -> Call]], NEW p \in Party, NEW s \in Slots,
           NEW c \in Call
    PROVE  [cs EXCEPT ![p][s] = c] \in [Party -> [Slots -> Call]]
  OBVIOUS

LEMMA RecordType ==
    ASSUME NEW rs \in RatchetState, NEW includeDh \in BOOLEAN
    PROVE  Record(rs, includeDh) \in Session
  BY DEF Record, Session

LEMMA ThrowType ==
    ASSUME TypeInv, NEW p \in Party, NEW s \in Slots,
           call[p][s].op \in {"lookup", "skip", "open"}, Throw(p, s)
    PROVE  TypeInv'
  <1>1. call[p][s].stored \in BOOLEAN
    BY CallKinds DEF TypeInv, TypeOK, LookupCall, SkipCall, OpenCall
  <1>2. Idle \in Call
    BY DEF Call
  <1>3. call' \in [Party -> [Slots -> Call]]
    BY <1>2, SetCallType DEF TypeInv, TypeOK, Throw
  <1>4. tainted' \in [Party -> BOOLEAN]
    BY <1>1, Zenon DEF TypeInv, TypeOK, Throw
  <1> QED
    BY <1>3, <1>4 DEF TypeInv, TypeOK, Throw, disk
LEMMA EstablishType ==
    ASSUME TypeInv,
           \/ EstablishInitiatorSession
           \/ \E s \in Slots : CreateResponderSession(s) \/ RotateDh(s)
    PROVE  TypeInv'
  <1> USE DEF TypeInv, TypeOK
  <1>1. CASE EstablishInitiatorSession
    <2>1. ses' \in [Party -> Session]
      BY <1>1, InitialStates, RecordType DEF EstablishInitiatorSession, Party
    <2> QED
      BY <1>1, <2>1 DEF EstablishInitiatorSession, history, disk
  <1>2. ASSUME NEW s \in Slots, CreateResponderSession(s)
        PROVE  TypeInv'
    <2>1. ses' \in [Party -> Session]
      BY <1>2, InitialStates, RecordType DEF CreateResponderSession, Party
    <2>2. "R" \in Party /\ [op |-> "rotate"] \in Call
      BY DEF Party, Call
    <2>3. call' \in [Party -> [Slots -> Call]]
      BY <1>2, <2>2, SetCallType DEF CreateResponderSession
    <2> QED
      BY <1>2, <2>1, <2>3 DEF CreateResponderSession, history, disk
  <1>3. ASSUME NEW s \in Slots, RotateDh(s)
        PROVE  TypeInv'
    <2>1. ses["R"].rs \in RatchetState /\ "R" \in Party
      BY DEF Party, Session
    <2>2. [ses["R"].rs EXCEPT !.self = "b1"] \in RatchetState
      BY <2>1 DEF RatchetState, DhKey
    <2>3. ses' \in [Party -> Session]
      BY <1>3, <2>2, RecordType DEF RotateDh, Party
    <2>4. Idle \in Call
      BY DEF Call
    <2>5. call' \in [Party -> [Slots -> Call]]
      BY <1>3, <2>1, <2>4, SetCallType DEF RotateDh
    <2> QED
      BY <1>3, <2>3, <2>5 DEF RotateDh, history, disk
  <1> QED BY <1>1, <1>2, <1>3

LEMMA SnapshotType ==
    ASSUME TypeInv, NEW p \in Party, ExportSnapshot(p) \/ Restart(p)
    PROVE  TypeInv'
  <1> USE DEF TypeInv, TypeOK
  <1>1. CASE ExportSnapshot(p)
    <2>1. SnapshotOf(p) \in Snapshot
      BY DEF SnapshotOf, Snapshot
    <2>2. saved' \in [Party -> Snapshot]
      BY <1>1, <2>1 DEF ExportSnapshot
    <2> QED
      BY <1>1, <2>2 DEF ExportSnapshot, history
  <1>2. CASE Restart(p)
    <2>1. saved[p].ses \in Session /\ saved[p].skipped \in SUBSET Entry
      BY DEF Snapshot
    <2>2. ses' \in [Party -> Session] /\ skipped' \in [Party -> SUBSET Entry]
      BY <1>2, <2>1 DEF Restart
    <2>3. Idle \in Call
      BY DEF Call
    <2>4. call' \in [Party -> [Slots -> Call]]
      BY <1>2, <2>3 DEF Restart
    <2>5. Uncommitted(p) \in BOOLEAN
      BY DEF Uncommitted
    <2>6. tainted' \in [Party -> BOOLEAN]
      BY <1>2, <2>5, Zenon DEF Restart
    <2>7. stale' \in [Party -> BOOLEAN]
      BY <1>2, Zenon DEF Restart
    <2> QED
      BY <1>2, <2>2, <2>4, <2>6, <2>7 DEF Restart
  <1> QED BY <1>1, <1>2

LEMMA EncryptType ==
    ASSUME TypeInv, NEW p \in Party, NEW s \in Slots,
           EncryptBegin(p, s) \/ EncryptCommit(p, s)
    PROVE  TypeInv'
  <1> USE DEF TypeInv, TypeOK
  <1>1. CASE EncryptBegin(p, s)
    <2> DEFINE c == [op |-> "encrypt", rs |-> SendState(ses[p].rs),
                     includeDh |-> ses[p].includeDh \/ ses[p].rs.snd = NoChain]
    <2>1. ses[p].rs \in RatchetState /\ ses[p].includeDh \in BOOLEAN
      BY DEF Session
    <2>2. SendState(ses[p].rs) \in SendingState
      BY <2>1, SendStateType
    <2>3. (ses[p].includeDh \/ ses[p].rs.snd = NoChain) \in BOOLEAN
      BY <2>1, Zenon
    <2>4. c \in Call
      BY <2>2, <2>3 DEF Call, EncryptCall
    <2>5. call' \in [Party -> [Slots -> Call]]
      BY <1>1, <2>4, SetCallType DEF EncryptBegin, HasSession
    <2> QED
      BY <1>1, <2>5 DEF EncryptBegin, HasSession, history, disk
  <1>2. CASE EncryptCommit(p, s)
    <2> DEFINE c == call[p][s]
    <2>1. c \in EncryptCall
      BY <1>2, CallKinds DEF EncryptCommit
    <2>2. Seal(p, c) \in Envelope
      BY <2>1, SealType
    <2>3. c.rs \in RatchetState /\ c.rs.snd \in Chain
      BY <2>1 DEF EncryptCall, SendingState
    <2>4. SetSending(c.rs, Advance(c.rs.snd)) \in RatchetState
      BY <2>3, ChainFacts, SetChainType DEF SendingState
    <2>5. ses' \in [Party -> Session]
      BY <1>2, <2>4, RecordType DEF EncryptCommit
    <2>6. net' \subseteq Envelope /\ IsFiniteSet(net')
      BY <1>2, <2>2, FS_AddElement DEF EncryptCommit
    <2>7. Idle \in Call
      BY DEF Call
    <2>8. call' \in [Party -> [Slots -> Call]]
      BY <1>2, <2>7, SetCallType DEF EncryptCommit
    <2> QED
      BY <1>2, <2>5, <2>6, <2>8 DEF EncryptCommit, history, disk
  <1> QED BY <1>1, <1>2
LEMMA DecryptType ==
    ASSUME TypeInv, NEW p \in Party, NEW s \in Slots,
           \/ \E m \in net, intact \in BOOLEAN : DecryptBegin(p, s, m, intact)
           \/ DecryptLookup(p, s)
           \/ DecryptSkip(p, s)
           \/ DecryptOpen(p, s)
    PROVE  TypeInv'
  <1> DEFINE c == call[p][s]
  <1> USE DEF TypeInv, TypeOK
  <1>0. c \in Call
    OBVIOUS
  <1>1. ASSUME NEW m \in net, NEW intact \in BOOLEAN, DecryptBegin(p, s, m, intact)
        PROVE  TypeInv'
    <2>1. ReceiveState(ses[p].rs, m) \in RatchetState /\ m \in Envelope
      BY ReceiveStateType DEF Session
    <2>2. Decrypting("lookup", ReceiveState(ses[p].rs, m), m, intact, FALSE) \in Call
      BY <2>1 DEF Decrypting, Call, LookupCall
    <2>3. call' \in [Party -> [Slots -> Call]]
      BY <1>1, <2>2, SetCallType DEF DecryptBegin, GetRecvContext, HasSession
    <2> QED
      BY <1>1, <2>3 DEF DecryptBegin, GetRecvContext, HasSession, history, disk
  <1>2. CASE DecryptLookup(p, s)
    <2> DEFINE found == SkippedAt(skipped[p], c.rs.remote, c.m.n)
    <2>1. c \in LookupCall
      BY <1>0, <1>2, CallKinds DEF DecryptLookup
    <2>2. CASE Throw(p, s)
      BY <1>2, <2>2, ThrowType DEF DecryptLookup
    <2>3. c.rs.rcv # NoChain => c.rs \in ReceivingState
      BY <2>1 DEF LookupCall, ReceivingState, RatchetState
    <2>4. ASSUME c.rs.rcv # NoChain,
                 skipped' = [skipped EXCEPT ![p] = @ \ found],
                 NEW e \in found,
                 call' = [call EXCEPT ![p][s] =
                            [op |-> "open", rs |-> c.rs, m |-> c.m,
                             intact |-> c.intact, stored |-> TRUE, mk |-> e.mk]],
                 UNCHANGED <<rank, ses, net, history, disk>>
          PROVE  TypeInv'
      <3>1. e.mk \in MessageKey
        BY <2>4 DEF SkippedAt, Entry
      <3>2. [op |-> "open", rs |-> c.rs, m |-> c.m, intact |-> c.intact,
             stored |-> TRUE, mk |-> e.mk] \in Call
        BY <2>1, <2>3, <2>4, <3>1 DEF LookupCall, Call, OpenCall
      <3>3. call' \in [Party -> [Slots -> Call]]
        BY <2>4, <3>2, SetCallType
      <3>4. skipped' \in [Party -> SUBSET Entry]
        BY <2>4
      <3> QED
        BY <2>4, <3>3, <3>4 DEF history, disk
    <2>5. ASSUME c.rs.rcv # NoChain,
                 call' = [call EXCEPT ![p][s] =
                            Decrypting("skip", c.rs, c.m, c.intact, c.stored)],
                 UNCHANGED <<rank, ses, skipped, net, history, disk>>
          PROVE  TypeInv'
      <3>1. Decrypting("skip", c.rs, c.m, c.intact, c.stored) \in Call
        BY <2>1, <2>3, <2>5 DEF Decrypting, LookupCall, Call, SkipCall
      <3>2. call' \in [Party -> [Slots -> Call]]
        BY <2>5, <3>1, SetCallType
      <3> QED
        BY <2>5, <3>2 DEF history, disk
    <2> QED
      BY <1>2, <2>2, <2>4, <2>5, Zenon DEF DecryptLookup
  <1>3. CASE DecryptSkip(p, s)
    <2>1. c \in SkipCall
      BY <1>0, <1>3, CallKinds DEF DecryptSkip
    <2>2. c.rs \in RatchetState /\ c.rs.rcv \in Chain /\ c.rs.remote \in DhKey
      BY <2>1 DEF SkipCall, ReceivingState, RatchetState
    <2>3. /\ KeyAt(c.rs.rcv) \in MessageKey /\ c.rs.rcv.n \in Nat
          /\ SetReceiving(c.rs, Advance(c.rs.rcv)) \in ReceivingState
      BY <2>2, ChainFacts, SetChainType DEF Chain
    <2>4. CASE Throw(p, s)
      BY <1>3, <2>4, ThrowType DEF DecryptSkip
    <2>5. ASSUME skipped' = [skipped EXCEPT ![p] =
                    SkippedSet(@, c.rs.remote, c.rs.rcv.n, KeyAt(c.rs.rcv))],
                 call' = [call EXCEPT ![p][s] =
                    Decrypting("skip", SetReceiving(c.rs, Advance(c.rs.rcv)),
                               c.m, c.intact, TRUE)],
                 UNCHANGED <<rank, ses, net, history, disk>>
          PROVE  TypeInv'
      <3>1. SkippedSet(skipped[p], c.rs.remote, c.rs.rcv.n, KeyAt(c.rs.rcv))
              \in SUBSET Entry
        BY <2>2, <2>3 DEF SkippedSet, SkippedAt, Entry
      <3>2. skipped' \in [Party -> SUBSET Entry]
        BY <2>5, <3>1
      <3>3. Decrypting("skip", SetReceiving(c.rs, Advance(c.rs.rcv)),
                       c.m, c.intact, TRUE) \in Call
        BY <2>1, <2>3 DEF Decrypting, SkipCall, Call
      <3>4. call' \in [Party -> [Slots -> Call]]
        BY <2>5, <3>3, SetCallType
      <3> QED
        BY <2>5, <3>2, <3>4 DEF history, disk
    <2>6. ASSUME call' = [call EXCEPT ![p][s] =
                    [op |-> "open", rs |-> SetReceiving(c.rs, Advance(c.rs.rcv)),
                     m |-> c.m, intact |-> c.intact, stored |-> c.stored,
                     mk |-> KeyAt(c.rs.rcv)]],
                 UNCHANGED <<rank, ses, skipped, net, history, disk>>
          PROVE  TypeInv'
      <3>1. [op |-> "open", rs |-> SetReceiving(c.rs, Advance(c.rs.rcv)),
             m |-> c.m, intact |-> c.intact, stored |-> c.stored,
             mk |-> KeyAt(c.rs.rcv)] \in Call
        BY <2>1, <2>3 DEF SkipCall, OpenCall, Call
      <3>2. call' \in [Party -> [Slots -> Call]]
        BY <2>6, <3>1, SetCallType
      <3> QED
        BY <2>6, <3>2 DEF history, disk
    <2> QED
      BY <1>3, <2>4, <2>5, <2>6, Zenon DEF DecryptSkip
  <1>4. CASE DecryptOpen(p, s)
    <2>1. c \in OpenCall
      BY <1>0, <1>4, CallKinds DEF DecryptOpen, OpenAndCommit
    <2>2. CASE Throw(p, s)
      BY <1>4, <2>2, ThrowType DEF DecryptOpen, OpenAndCommit
    <2>3. ASSUME ses' = [ses EXCEPT ![p] = Record(c.rs, ses[p].includeDh)],
                 got' = [got EXCEPT ![p] = @ \cup {c.m.id}],
                 twice' = [twice EXCEPT ![p] = @ \cup (got[p] \cap {c.m.id})],
                 call' = [call EXCEPT ![p][s] = Idle],
                 UNCHANGED <<rank, skipped, net, tainted, disk>>
          PROVE  TypeInv'
      <3>1. c.rs \in RatchetState /\ c.m.id \in Nat
        BY <2>1 DEF OpenCall, ReceivingState, Envelope
      <3>2. ses' \in [Party -> Session]
        BY <2>3, <3>1, RecordType DEF Session
      <3>3. Idle \in Call
        BY DEF Call
      <3>4. call' \in [Party -> [Slots -> Call]]
        BY <2>3, <3>3, SetCallType
      <3>5. got' \in [Party -> SUBSET Nat] /\ twice' \in [Party -> SUBSET Nat]
        BY <2>3, <3>1
      <3> QED
        BY <2>3, <3>2, <3>4, <3>5 DEF disk
    <2> QED
      BY <1>4, <2>2, <2>3, Zenon DEF DecryptOpen, OpenAndCommit
  <1> QED BY <1>1, <1>2, <1>3, <1>4

LEMMA TypeNext == TypeInv /\ [Next]_vars => TypeInv'
  <1> SUFFICES ASSUME TypeInv, [Next]_vars PROVE TypeInv'
    OBVIOUS
  <1>1. CASE UNCHANGED vars
    BY <1>1 DEF TypeInv, TypeOK, vars, history, disk
  <1>2. CASE Next
    BY <1>2, EstablishType, SnapshotType, EncryptType, DecryptType DEF Next, CallStep
  <1> QED BY <1>1, <1>2

\* Every variable keeps its type: no order of calls, arrivals, damaged
\* packets and restarts puts a chain, a key or a call where the code does not
\* expect it (a message is never sealed without a sending chain).
THEOREM TypeCorrect == Spec => []TypeOK
  <1>1. TypeInv => TypeOK
    BY DEF TypeInv
  <1> QED BY TypeInit, TypeNext, <1>1, PTL DEF Spec

----------------------------------------------------------------------------
(* The bound on the skipped key store.  It is inductive once it is also     *)
(* stated of the snapshots, which a restart brings back.                    *)

Bounded(store) ==
    /\ IsFiniteSet(store)
    /\ Cardinality(store) <= MaxSkippedKeys
    /\ Cardinality(store) * KeyBytes <= MaxSkippedBytes

BoundInv ==
    \A p \in Party : Bounded(skipped[p]) /\ Bounded(saved[p].skipped)

LEMMA BoundedSubset ==
    ASSUME NEW store, Bounded(store), NEW part \in SUBSET store
    PROVE  Bounded(part)
  <1>1. IsFiniteSet(part) /\ Cardinality(part) <= Cardinality(store)
    BY FS_Subset DEF Bounded
  <1>2. Cardinality(part) \in Nat /\ Cardinality(store) \in Nat
    BY <1>1, FS_CardinalityType DEF Bounded
  <1> QED
    BY <1>1, <1>2, LimitsAssumption DEF Bounded, KeyBytes

\* The check before SkippedKeyStore.set is enough, whether set replaces an
\* entry or adds one.
LEMMA BoundedSkippedSet ==
    ASSUME NEW store, Bounded(store), ~StoreFull(store), NEW dh, NEW n, NEW mk
    PROVE  Bounded(SkippedSet(store, dh, n, mk))
  <1> DEFINE e == [dh |-> dh, n |-> n, mk |-> mk]
             all == store \cup {e}
  <1>1. Cardinality(store) \in Nat
    BY FS_CardinalityType DEF Bounded
  <1>2. /\ IsFiniteSet(all)
        /\ Cardinality(all) = Cardinality(store) \/ Cardinality(all) = Cardinality(store) + 1
    BY FS_AddElement DEF Bounded
  <1>3. Cardinality(all) \in Nat
    BY <1>2, FS_CardinalityType
  <1>4. Bounded(all)
    <2> HIDE DEF all
    <2> QED
      BY <1>1, <1>2, <1>3, LimitsAssumption DEF StoreFull, Bounded, KeyBytes
  <1>5. SkippedSet(store, dh, n, mk) \in SUBSET all
    BY DEF SkippedSet, SkippedAt
  <1> QED
    BY <1>4, <1>5, BoundedSubset

LEMMA BoundInit == Init => BoundInv
  <1>1. Bounded({})
    BY FS_EmptySet, LimitsAssumption DEF Bounded, KeyBytes
  <1>2. Init => \A p \in Party : skipped[p] = {} /\ saved[p].skipped = {}
    BY DEF Init
  <1> QED
    BY <1>1, <1>2, Zenon DEF BoundInv

LEMMA BoundNext ==
    ASSUME TypeInv, BoundInv, [Next]_vars
    PROVE  BoundInv'
  <1> DEFINE Old == UNCHANGED <<skipped, saved>>
  <1>1. CASE Old
    BY <1>1 DEF BoundInv, Bounded
  <1>2. ASSUME NEW p \in Party, Restart(p)
        PROVE  BoundInv'
    BY <1>2 DEF Restart, BoundInv, Bounded, TypeInv, TypeOK
  <1>3. ASSUME NEW p \in Party, ExportSnapshot(p)
        PROVE  BoundInv'
    BY <1>3 DEF ExportSnapshot, SnapshotOf, BoundInv, Bounded, TypeInv, TypeOK
  <1>4. ASSUME NEW p \in Party, NEW s \in Slots, DecryptLookup(p, s)
        PROVE  BoundInv'
    <2> DEFINE found == SkippedAt(skipped[p], call[p][s].rs.remote, call[p][s].m.n)
    <2>1. CASE Throw(p, s)
      BY <1>1, <2>1 DEF Throw, disk
    <2>2. CASE UNCHANGED <<rank, ses, skipped, net, history, disk>>
      BY <1>1, <2>2 DEF disk
    <2>3. ASSUME skipped' = [skipped EXCEPT ![p] = @ \ found], UNCHANGED disk
          PROVE  BoundInv'
      <3>1. Bounded(skipped[p] \ found)
        BY BoundedSubset DEF BoundInv
      <3> QED
        BY <2>3, <3>1 DEF disk, BoundInv, Bounded, TypeInv, TypeOK
    <2> QED
      BY <1>4, <2>1, <2>2, <2>3, Zenon DEF DecryptLookup
  <1>5. ASSUME NEW p \in Party, NEW s \in Slots, DecryptSkip(p, s)
        PROVE  BoundInv'
    <2> DEFINE c == call[p][s]
               new == SkippedSet(skipped[p], c.rs.remote, c.rs.rcv.n, KeyAt(c.rs.rcv))
    <2>1. CASE Throw(p, s)
      BY <1>1, <2>1 DEF Throw, disk
    <2>2. CASE UNCHANGED <<rank, ses, skipped, net, history, disk>>
      BY <1>1, <2>2 DEF disk
    <2>3. ASSUME ~StoreFull(skipped[p]), skipped' = [skipped EXCEPT ![p] = new],
                 UNCHANGED disk
          PROVE  BoundInv'
      <3>1. Bounded(new)
        BY <2>3, BoundedSkippedSet DEF BoundInv
      <3> HIDE DEF new
      <3> QED
        BY <2>3, <3>1 DEF disk, BoundInv, Bounded, TypeInv, TypeOK
    <2> QED
      BY <1>5, <2>1, <2>2, <2>3, Zenon DEF DecryptSkip
  <1>6. ASSUME NEW p \in Party, NEW s \in Slots, DecryptOpen(p, s)
        PROVE  BoundInv'
    BY <1>1, <1>6 DEF DecryptOpen, OpenAndCommit, Throw, disk
  <1>7. ASSUME NEW p \in Party, NEW s \in Slots, EncryptBegin(p, s) \/ EncryptCommit(p, s)
        PROVE  BoundInv'
    BY <1>1, <1>7 DEF EncryptBegin, HasSession, EncryptCommit, disk
  <1>8. ASSUME NEW p \in Party, NEW s \in Slots, NEW m \in net,
               NEW intact \in BOOLEAN, DecryptBegin(p, s, m, intact)
        PROVE  BoundInv'
    BY <1>1, <1>8 DEF DecryptBegin, GetRecvContext, HasSession, disk
  <1>9. CASE \/ EstablishInitiatorSession
             \/ \E s \in Slots : CreateResponderSession(s) \/ RotateDh(s)
    BY <1>1, <1>9 DEF EstablishInitiatorSession, CreateResponderSession, RotateDh, disk
  <1>10. CASE UNCHANGED vars
    BY <1>1, <1>10 DEF vars, disk
  <1> QED
    BY <1>2, <1>3, <1>4, <1>5, <1>6, <1>7, <1>8, <1>9, <1>10 DEF Next, CallStep

\* The skipped key store keeps its two limits however many decrypt calls fill
\* it at once and whatever snapshot is imported.
THEOREM SkippedStoreBounded == Spec => []SkippedBounded
  <1>1. Init => TypeInv /\ BoundInv
    BY TypeInit, BoundInit
  <1>2. TypeInv /\ [Next]_vars => TypeInv'
    BY TypeNext
  <1>3. TypeInv /\ BoundInv /\ [Next]_vars => BoundInv'
    BY BoundNext
  <1>4. BoundInv => SkippedBounded
    BY DEF BoundInv, Bounded, SkippedBounded
  <1> QED BY <1>1, <1>2, <1>3, <1>4, PTL DEF Spec
----------------------------------------------------------------------------
(* No AEAD key and nonce is used twice.                                    *)
(*                                                                         *)
(* RootInv separates the two directions: the initiator sends on the chain   *)
(* of the X3DH secret, the responder on a chain behind a ratchet step.      *)
(* KeyInv is about one party: its envelopes lie below its sending chain,    *)
(* each under a key of its own, and a call in progress has the record's     *)
(* sending chain.  The last needs callers that do not overlap.              *)

Active == {"encrypt", "lookup", "skip", "open"}

Rooted(p, chain) ==
    IF p = "I" THEN chain # NoChain /\ chain.base.root = << >>
               ELSE chain = NoChain \/ chain.base.root # << >>

RootInv ==
    /\ \A p \in Party :
          /\ ses[p].phase = "ready" \/ p = "R" => Rooted(p, ses[p].rs.snd)
          /\ saved[p].ses.phase = "ready" => Rooted(p, saved[p].ses.rs.snd)
          /\ \A s \in Slots :
                call[p][s].op \in Active => Rooted(p, call[p][s].rs.snd)
    /\ \A m \in net : m.from = "I" <=> m.key.base.root = << >>

\* Before the session is established nothing is in progress or sent.
Unstarted(p) ==
    ses[p].phase = "none" =>
        /\ \A m \in net : m.from # p
        /\ \A s \in Slots : call[p][s] = Idle

\* The envelopes of p lie below the sending chain of its record.
Below(p) ==
    \A m \in net : m.from = p =>
        /\ ses[p].rs.snd # NoChain
        /\ m.key.base = ses[p].rs.snd.base
        /\ m.key.n < ses[p].rs.snd.n

Distinct(p) ==
    \A m1, m2 \in net :
        m1.from = p /\ m2.from = p /\ m1.key = m2.key => m1 = m2

\* A call in progress works on the sending chain of the record, or is the
\* encryption that is about to establish it.
CallsAgree(p) ==
    \A s \in Slots :
        /\ call[p][s].op = "encrypt" /\ ses[p].rs.snd # NoChain
              => call[p][s].rs.snd = ses[p].rs.snd
        /\ call[p][s].op \in {"lookup", "skip", "open"}
              => call[p][s].rs.snd = ses[p].rs.snd

KeysOf(p) ==
    /\ Unstarted(p)
    /\ ~stale[p] => Below(p) /\ Distinct(p) /\ CallsAgree(p)

KeyInv == \A p \in Party : KeysOf(p)

LEMMA RootInit == Init => RootInv
  BY DEF Init, RootInv, Rooted, NoSession, Idle, Active

LEMMA KeyInit == Init => KeyInv
  BY DEF Init, KeyInv, KeysOf, Unstarted, Below, Distinct, CallsAgree, NoSession, Idle

\* What SendState does to the sending chain.
LEMMA SendStateChain ==
    ASSUME NEW rs \in RatchetState
    PROVE  /\ rs.snd # NoChain => SendState(rs) = rs
           /\ rs.snd = NoChain => SendState(rs).snd.base.root # << >>
           /\ SendState(rs).snd \in Chain
  <1>1. SendState(rs).snd \in Chain
    BY SendStateType DEF SendingState
  <1>2. Append(rs.root, {rs.self, rs.remote}) # << >>
    <2>1. rs.root \in Seq(SUBSET DhKey) /\ {rs.self, rs.remote} \in SUBSET DhKey
      BY DEF RatchetState, Root
    <2> DEFINE S == SUBSET DhKey
               elt == {rs.self, rs.remote}
    <2>2. rs.root \in Seq(S) /\ elt \in S
      BY <2>1
    <2> HIDE DEF S, elt
    <2>3. Append(rs.root, elt) # << >>
      BY <2>2, AppendProperties
    <2> QED BY <2>3 DEF elt
  <1>3. CASE rs.snd = NoChain
    BY <1>1, <1>2, <1>3 DEF SendState, RatchetStep
  <1> QED
    BY <1>1, <1>3 DEF SendState

\* The later steps of decryptPayload never touch a sending chain: the call
\* keeps the one it began with, and what it commits has that one.
LEMMA DecryptKeepsSending ==
    ASSUME TypeInv, NEW p \in Party, NEW s \in Slots,
           DecryptLookup(p, s) \/ DecryptSkip(p, s) \/ DecryptOpen(p, s)
    PROVE  /\ UNCHANGED <<net, disk>>
           /\ call[p][s].op \in {"lookup", "skip", "open"}
           /\ \A q \in Party, t \in Slots :
                 q # p \/ t # s => call'[q][t] = call[q][t]
           /\ \/ call'[p][s] = Idle
              \/ /\ call'[p][s].op \in {"skip", "open"}
                 /\ call'[p][s].rs.snd = call[p][s].rs.snd
                 /\ UNCHANGED ses
           /\ \/ UNCHANGED ses
              \/ /\ ses'[p].phase = "ready"
                 /\ ses'[p].rs.snd = call[p][s].rs.snd
                 /\ \A q \in Party : q # p => ses'[q] = ses[q]
  <1> DEFINE c == call[p][s]
  <1> USE DEF TypeInv, TypeOK
  <1>0. c \in Call
    OBVIOUS
  <1>1. CASE Throw(p, s) /\ c.op \in {"lookup", "skip", "open"}
    BY <1>1 DEF Throw, disk
  <1>2. CASE DecryptLookup(p, s)
    <2>1. ASSUME NEW e, call' = [call EXCEPT ![p][s] =
                          [op |-> "open", rs |-> c.rs, m |-> c.m, intact |-> c.intact,
                           stored |-> TRUE, mk |-> e.mk]],
                 UNCHANGED <<rank, ses, net, history, disk>>
          PROVE  /\ UNCHANGED <<net, disk, ses>>
                 /\ \A q \in Party, t \in Slots :
                       q # p \/ t # s => call'[q][t] = call[q][t]
                 /\ call'[p][s].op = "open" /\ call'[p][s].rs.snd = c.rs.snd
      BY <2>1
    <2>2. ASSUME call' = [call EXCEPT ![p][s] =
                            Decrypting("skip", c.rs, c.m, c.intact, c.stored)],
                 UNCHANGED <<rank, ses, skipped, net, history, disk>>
          PROVE  /\ UNCHANGED <<net, disk, ses>>
                 /\ \A q \in Party, t \in Slots :
                       q # p \/ t # s => call'[q][t] = call[q][t]
                 /\ call'[p][s].op = "skip" /\ call'[p][s].rs.snd = c.rs.snd
      BY <2>2 DEF Decrypting
    <2>3. c.op = "lookup"
      BY <1>2 DEF DecryptLookup
    <2> QED
      BY <1>1, <1>2, <2>1, <2>2, <2>3, Zenon DEF DecryptLookup
  <1>3. CASE DecryptSkip(p, s)
    <2>1. c \in SkipCall /\ c.rs \in RatchetState /\ c.rs.rcv \in Chain
      BY <1>0, <1>3, CallKinds DEF DecryptSkip, SkipCall, ReceivingState
    <2>2. SetReceiving(c.rs, Advance(c.rs.rcv)).snd = c.rs.snd
      BY <2>1, ChainFacts, SetChainType
    <2> QED
      BY <1>1, <1>3, <2>2 DEF DecryptSkip, Decrypting, disk
  <1>4. CASE DecryptOpen(p, s)
    BY <1>0, <1>1, <1>4 DEF DecryptOpen, OpenAndCommit, Record, disk
  <1> QED BY <1>2, <1>3, <1>4

LEMMA RootNext ==
    ASSUME TypeInv, RootInv, [Next]_vars
    PROVE  RootInv'
  <1> USE DEF TypeInv, TypeOK
  <1>1. CASE EstablishInitiatorSession
    BY <1>1, ChainFacts DEF EstablishInitiatorSession, RootInv, Record, Rooted, Party,
       InitializeAsInitiator, SharedChain, disk
  <1>2. ASSUME NEW s \in Slots, CreateResponderSession(s)
        PROVE  RootInv'
    BY <1>2, ChainFacts DEF CreateResponderSession, RootInv, Record, Rooted, Party,
       InitializeAsResponder, disk, Active
  <1>3. ASSUME NEW s \in Slots, RotateDh(s)
        PROVE  RootInv'
    <2>1. [ses["R"].rs EXCEPT !.self = "b1"].snd = ses["R"].rs.snd
      BY DEF Session, RatchetState, Party
    <2> QED
      BY <1>3, <2>1 DEF RotateDh, RootInv, Record, Party, disk, Active, Idle
  <1>4. ASSUME NEW p \in Party, ExportSnapshot(p)
        PROVE  RootInv'
    BY <1>4 DEF ExportSnapshot, SnapshotOf, RootInv
  <1>5. ASSUME NEW p \in Party, Restart(p)
        PROVE  RootInv'
    BY <1>5 DEF Restart, RootInv, Active, Idle
  <1>6. ASSUME NEW p \in Party, NEW s \in Slots, EncryptBegin(p, s)
        PROVE  RootInv'
    <2> DEFINE c == [op |-> "encrypt", rs |-> SendState(ses[p].rs),
                     includeDh |-> ses[p].includeDh \/ ses[p].rs.snd = NoChain]
    <2>1. ses[p].rs \in RatchetState /\ ses[p].phase = "ready"
      BY <1>6 DEF EncryptBegin, HasSession, Session
    <2>2. Rooted(p, SendState(ses[p].rs).snd)
      BY <2>1, SendStateChain, ChainFacts DEF RootInv, Rooted, Party
    <2>3. c.rs.snd = SendState(ses[p].rs).snd
      OBVIOUS
    <2> HIDE DEF c
    <2>4. call' = [call EXCEPT ![p][s] = c]
      BY <1>6 DEF EncryptBegin, HasSession, c
    <2> QED
      BY <1>6, <2>2, <2>3, <2>4 DEF EncryptBegin, HasSession, RootInv, disk
  <1>7. ASSUME NEW p \in Party, NEW s \in Slots, EncryptCommit(p, s)
        PROVE  RootInv'
    <2> DEFINE c == call[p][s]
               m == Seal(p, c)
    <2>1. c \in EncryptCall /\ c.op \in Active
      BY <1>7, CallKinds DEF EncryptCommit, Active
    <2>2. c.rs \in RatchetState /\ c.rs.snd \in Chain /\ Rooted(p, c.rs.snd)
      BY <2>1 DEF EncryptCall, SendingState, RootInv
    <2>3. Rooted(p, Advance(c.rs.snd)) /\ Advance(c.rs.snd) \in Chain
      BY <2>2, ChainFacts DEF Rooted, Advance
    <2>4. SetSending(c.rs, Advance(c.rs.snd)).snd = Advance(c.rs.snd)
      BY <2>2, <2>3, SetChainType
    <2>5. m.from = p /\ m.key.base.root = c.rs.snd.base.root
      BY DEF Seal, KeyAt
    <2>6. m.from = "I" <=> m.key.base.root = << >>
      BY <2>2, <2>5, ChainFacts DEF Rooted, Party
    <2> HIDE DEF m
    <2>7. /\ net' = net \cup {m} /\ call' = [call EXCEPT ![p][s] = Idle] /\ saved' = saved
          /\ ses' = [ses EXCEPT ![p] = Record(SetSending(c.rs, Advance(c.rs.snd)), FALSE)]
      BY <1>7 DEF EncryptCommit, disk, m
    <2> QED
      BY <2>3, <2>4, <2>6, <2>7 DEF RootInv, Record, Active, Idle
  <1>8. ASSUME NEW p \in Party, NEW s \in Slots, NEW m \in net,
               NEW intact \in BOOLEAN, DecryptBegin(p, s, m, intact)
        PROVE  RootInv'
    <2>1. ses[p].phase = "ready" /\ ReceiveState(ses[p].rs, m).snd = ses[p].rs.snd
      BY <1>8, ReceiveStateType DEF DecryptBegin, GetRecvContext, HasSession, Session
    <2> QED
      BY <1>8, <2>1 DEF DecryptBegin, GetRecvContext, HasSession, Decrypting, RootInv, disk
  <1>9. ASSUME NEW p \in Party, NEW s \in Slots,
               DecryptLookup(p, s) \/ DecryptSkip(p, s) \/ DecryptOpen(p, s)
        PROVE  RootInv'
    <2>1. UNCHANGED <<net, saved>>
      BY <1>9, DecryptKeepsSending DEF disk
    <2>2. Rooted(p, call[p][s].rs.snd)
      BY <1>9, DecryptKeepsSending DEF RootInv, Active
    <2>3. ASSUME NEW q \in Party
          PROVE  ses'[q].phase = "ready" \/ q = "R" => Rooted(q, ses'[q].rs.snd)
      <3>1. \/ ses' = ses
            \/ ses'[p].rs.snd = call[p][s].rs.snd /\ (q # p => ses'[q] = ses[q])
        BY <1>9, DecryptKeepsSending
      <3>2. CASE ses'[q] = ses[q]
        BY <3>2 DEF RootInv
      <3>3. CASE q = p /\ ses'[p].rs.snd = call[p][s].rs.snd
        BY <2>2, <3>3
      <3> QED BY <3>1, <3>2, <3>3
    <2>4. ASSUME NEW q \in Party, NEW t \in Slots, call'[q][t].op \in Active
          PROVE  Rooted(q, call'[q][t].rs.snd)
      <3>1. CASE q = p /\ t = s
        BY <1>9, <2>2, <2>4, <3>1, DecryptKeepsSending DEF Active, Idle
      <3>2. CASE q # p \/ t # s
        BY <1>9, <2>4, <3>2, DecryptKeepsSending DEF RootInv
      <3> QED BY <3>1, <3>2
    <2> HIDE DEF TypeInv, TypeOK
    <2> QED
      BY <2>1, <2>3, <2>4, Zenon DEF RootInv, Rooted
  <1>10. CASE UNCHANGED vars
    BY <1>10 DEF vars, disk, RootInv
  <1> QED
    BY <1>1, <1>2, <1>3, <1>4, <1>5, <1>6, <1>7, <1>8, <1>9, <1>10 DEF Next, CallStep
\* The invariant of p depends only on p's record, calls and envelopes.
LEMMA KeyUntouched ==
    ASSUME NEW p \in Party, KeysOf(p),
           ses'[p].phase = ses[p].phase, ses'[p].rs.snd = ses[p].rs.snd,
           stale'[p] = stale[p],
           \A m \in net' : m.from = p => m \in net,
           \A s \in Slots :
              \/ call'[p][s] = call[p][s]
              \/ ses[p].phase = "ready" /\ call'[p][s].op \notin Active
    PROVE  KeysOf(p)'
  <1>1. Unstarted(p)'
    BY DEF KeysOf, Unstarted
  <1>2. ASSUME ~stale[p] PROVE Below(p)' /\ Distinct(p)' /\ CallsAgree(p)'
    <2>1. Below(p)'
      BY <1>2 DEF KeysOf, Below
    <2>2. Distinct(p)'
      BY <1>2 DEF KeysOf, Distinct
    <2>3. CallsAgree(p)'
      BY <1>2 DEF KeysOf, CallsAgree, Active
    <2> QED BY <2>1, <2>2, <2>3
  <1> QED BY <1>1, <1>2 DEF KeysOf

Serial == \A s, t \in Slots : s = t

LEMMA KeyEncryptCommit ==
    ASSUME Serial, TypeInv, NEW p \in Party, NEW s \in Slots, KeysOf(p),
           EncryptCommit(p, s)
    PROVE  KeysOf(p)'
  <1> USE DEF TypeInv, TypeOK
  <1> DEFINE c == call[p][s]
             new == Seal(p, c)
  <1>1. c \in EncryptCall /\ c.op = "encrypt"
    BY CallKinds DEF EncryptCommit
  <1>2. c.rs \in RatchetState /\ c.rs.snd \in Chain
    BY <1>1 DEF EncryptCall, SendingState
  <1>3. new.from = p /\ new.key = KeyAt(c.rs.snd)
    BY DEF Seal
  <1>4. /\ net' = net \cup {new}
        /\ ses'[p].phase = "ready" /\ ses'[p].rs.snd = Advance(c.rs.snd)
        /\ call'[p][s] = Idle /\ stale' = stale
    <2>1. SetSending(c.rs, Advance(c.rs.snd)).snd = Advance(c.rs.snd)
      BY <1>2, ChainFacts, SetChainType
    <2> QED
      BY <2>1 DEF EncryptCommit, Record, disk
  <1> HIDE DEF new
  <1>5. Unstarted(p)'
    BY <1>4 DEF Unstarted
  <1>6. ASSUME ~stale[p] PROVE Below(p)' /\ Distinct(p)' /\ CallsAgree(p)'
    <2>1. \A m \in net : m.from = p =>
             m.key.base = c.rs.snd.base /\ m.key.n < c.rs.snd.n /\ m.key.n \in Nat
      BY <1>1, <1>6 DEF KeysOf, Below, CallsAgree, Envelope, MessageKey
    <2>2. c.rs.snd.n \in Nat /\ Advance(c.rs.snd) \in Chain
      BY <1>2, ChainFacts DEF Chain
    <2>3. Below(p)'
      BY <1>3, <1>4, <2>1, <2>2, ChainFacts DEF Below, KeyAt, Advance
    <2>4. \A m \in net : m.from = p => m.key # new.key
      BY <1>3, <2>1, <2>2 DEF KeyAt
    <2>5. Distinct(p)'
      BY <1>4, <1>6, <2>4 DEF KeysOf, Distinct
    <2>6. CallsAgree(p)'
      BY <1>4 DEF Serial, CallsAgree, Idle
    <2> QED BY <2>3, <2>5, <2>6
  <1> QED
    BY <1>4, <1>5, <1>6 DEF KeysOf
LEMMA KeyEstablish ==
    ASSUME TypeInv, NEW p \in Party, KeysOf(p), ses[p].phase = "none",
           ses'[p].phase = "ready", net' = net,
           \A s \in Slots : call'[p][s] = call[p][s] \/ call'[p][s].op = "rotate"
    PROVE  KeysOf(p)'
  BY DEF KeysOf, Unstarted, Below, Distinct, CallsAgree, Idle

LEMMA KeyBegin ==
    ASSUME Serial, TypeInv, NEW p \in Party, NEW s \in Slots, KeysOf(p),
           \/ EncryptBegin(p, s)
           \/ \E m \in net, intact \in BOOLEAN : DecryptBegin(p, s, m, intact)
    PROVE  KeysOf(p)'
  <1> USE DEF TypeInv, TypeOK
  <1>1. ses[p].phase = "ready" /\ ses[p].rs \in RatchetState
    BY DEF EncryptBegin, DecryptBegin, GetRecvContext, HasSession, Session
  <1>2. UNCHANGED <<ses, net, stale>>
    BY DEF EncryptBegin, DecryptBegin, GetRecvContext, HasSession, disk
  <1>3. CASE EncryptBegin(p, s)
    <2>1. /\ call'[p][s].op = "encrypt"
          /\ call'[p][s].rs.snd = SendState(ses[p].rs).snd
      BY <1>3 DEF EncryptBegin, HasSession
    <2>2. ses[p].rs.snd # NoChain => call'[p][s].rs.snd = ses[p].rs.snd
      BY <1>1, <2>1, SendStateChain
    <2>3. CallsAgree(p)'
      BY <1>2, <2>1, <2>2 DEF Serial, CallsAgree
    <2> QED
      BY <1>1, <1>2, <2>3 DEF KeysOf, Unstarted, Below, Distinct
  <1>4. ASSUME NEW m \in net, NEW intact \in BOOLEAN, DecryptBegin(p, s, m, intact)
        PROVE  KeysOf(p)'
    <2>1. /\ call'[p][s].op = "lookup"
          /\ call'[p][s].rs.snd = ReceiveState(ses[p].rs, m).snd
      BY <1>4 DEF DecryptBegin, GetRecvContext, HasSession, Decrypting
    <2>2. call'[p][s].rs.snd = ses[p].rs.snd
      BY <1>1, <2>1, ReceiveStateType
    <2>3. CallsAgree(p)'
      BY <1>2, <2>1, <2>2 DEF Serial, CallsAgree
    <2> QED
      BY <1>1, <1>2, <2>3 DEF KeysOf, Unstarted, Below, Distinct
  <1> QED BY <1>3, <1>4

LEMMA KeyDecrypt ==
    ASSUME Serial, TypeInv, NEW p \in Party, NEW s \in Slots, KeysOf(p),
           DecryptLookup(p, s) \/ DecryptSkip(p, s) \/ DecryptOpen(p, s)
    PROVE  KeysOf(p)'
  <1>1. UNCHANGED <<net, stale>> /\ call[p][s].op \in {"lookup", "skip", "open"}
    BY DecryptKeepsSending DEF disk
  <1>2. ses[p].phase = "ready"
    BY <1>1 DEF KeysOf, Unstarted, Idle, TypeInv, TypeOK, Session
  <1>3. ses'[p].phase = "ready"
    BY <1>2, DecryptKeepsSending
  <1>4. Unstarted(p)'
    BY <1>3 DEF Unstarted
  <1>5. ASSUME ~stale[p] PROVE Below(p)' /\ Distinct(p)' /\ CallsAgree(p)'
    <2>1. call[p][s].rs.snd = ses[p].rs.snd
      BY <1>1, <1>5 DEF KeysOf, CallsAgree
    <2>2. ses'[p].rs.snd = ses[p].rs.snd
      BY <2>1, DecryptKeepsSending
    <2>3. Below(p)' /\ Distinct(p)'
      BY <1>1, <1>5, <2>2 DEF KeysOf, Below, Distinct
    <2>4. call'[p][s].op \in Active => call'[p][s].op # "encrypt" /\ call'[p][s].rs.snd = ses[p].rs.snd
      BY <2>1, DecryptKeepsSending DEF Active, Idle
    <2>5. CallsAgree(p)'
      BY <2>2, <2>4 DEF Serial, CallsAgree, Active
    <2> QED BY <2>3, <2>5
  <1> QED BY <1>1, <1>4, <1>5 DEF KeysOf

LEMMA KeyNext ==
    ASSUME Serial, TypeInv, KeyInv, [Next]_vars
    PROVE  KeyInv'
  <1> SUFFICES ASSUME NEW q \in Party PROVE KeysOf(q)'
    BY DEF KeyInv
  <1> USE DEF TypeInv, TypeOK
  <1>0. KeysOf(q)
    BY DEF KeyInv
  <1>1. CASE EstablishInitiatorSession
    <2>1. CASE q = "I"
      BY <1>0, <1>1, <2>1, KeyEstablish DEF EstablishInitiatorSession, Record
    <2>2. CASE q # "I"
      BY <1>0, <1>1, <2>2, KeyUntouched DEF EstablishInitiatorSession, disk
    <2> QED BY <2>1, <2>2
  <1>2. ASSUME NEW s \in Slots, CreateResponderSession(s)
        PROVE  KeysOf(q)'
    <2>1. CASE q = "R"
      BY <1>0, <1>2, <2>1, KeyEstablish DEF CreateResponderSession, Record
    <2>2. CASE q # "R"
      BY <1>0, <1>2, <2>2, KeyUntouched DEF CreateResponderSession, disk
    <2> QED BY <2>1, <2>2
  <1>3. ASSUME NEW s \in Slots, RotateDh(s)
        PROVE  KeysOf(q)'
    <2>1. CASE q = "R"
      <3>1. ses["R"].phase = "ready" /\ ses["R"].rs \in RatchetState
        BY <1>0, <1>3, <2>1 DEF RotateDh, KeysOf, Unstarted, Idle, Session
      <3>2. [ses["R"].rs EXCEPT !.self = "b1"].snd = ses["R"].rs.snd
        BY <3>1 DEF RatchetState
      <3>3. ses'["R"].phase = "ready" /\ ses'["R"].rs.snd = ses["R"].rs.snd
        BY <1>3, <2>1, <3>2 DEF RotateDh, Record
      <3>4. \A t \in Slots : call'["R"][t] = call["R"][t] \/ call'["R"][t].op \notin Active
        BY <1>3, <2>1 DEF RotateDh, Idle, Active
      <3>5. UNCHANGED <<net, stale>>
        BY <1>3 DEF RotateDh, disk
      <3> QED
        BY <1>0, <2>1, <3>1, <3>3, <3>4, <3>5, KeyUntouched
    <2>2. CASE q # "R"
      BY <1>0, <1>3, <2>2, KeyUntouched DEF RotateDh, disk
    <2> QED BY <2>1, <2>2
  <1>4. ASSUME NEW p \in Party, ExportSnapshot(p)
        PROVE  KeysOf(q)'
    BY <1>0, <1>4, KeyUntouched DEF ExportSnapshot
  <1>5. ASSUME NEW p \in Party, Restart(p)
        PROVE  KeysOf(q)'
    <2>1. CASE q # p
      BY <1>0, <1>5, <2>1, KeyUntouched DEF Restart
    <2>2. CASE q = p /\ stale'[p]
      BY <1>5, <2>2 DEF Restart, KeysOf, Unstarted
    <2>3. CASE q = p /\ ~stale'[p]
      <3>1. saved[p] = SnapshotOf(p) /\ ~stale[p]
        BY <1>5, <2>3, Zenon DEF Restart
      <3>2. ses' = [ses EXCEPT ![p] = saved[p].ses] /\ saved[p].ses.phase = "ready"
        BY <1>5 DEF Restart
      <3>3. ses'[p] = ses[p] /\ ses[p].phase = "ready"
        BY <3>1, <3>2 DEF SnapshotOf
      <3>4. \A t \in Slots : call'[p][t].op \notin Active
        BY <1>5 DEF Restart, Idle, Active
      <3>5. net' = net /\ stale'[p] = stale[p]
        BY <1>5, <2>3, <3>1 DEF Restart
      <3> QED
        BY <1>0, <2>3, <3>3, <3>4, <3>5, KeyUntouched
    <2> QED BY <2>1, <2>2, <2>3
  <1>6. ASSUME NEW p \in Party, NEW s \in Slots, EncryptCommit(p, s)
        PROVE  KeysOf(q)'
    <2>1. CASE q = p
      BY <1>0, <1>6, <2>1, KeyEncryptCommit
    <2>2. CASE q # p
      <3>1. \A m \in net' : m.from = q => m \in net
        BY <1>6, <2>2 DEF EncryptCommit, Seal
      <3> QED
        BY <1>0, <1>6, <2>2, <3>1, KeyUntouched DEF EncryptCommit, disk
    <2> QED BY <2>1, <2>2
  <1>7. ASSUME NEW p \in Party, NEW s \in Slots,
               \/ EncryptBegin(p, s)
               \/ \E m \in net, intact \in BOOLEAN : DecryptBegin(p, s, m, intact)
        PROVE  KeysOf(q)'
    <2>1. CASE q = p
      BY <1>0, <1>7, <2>1, KeyBegin
    <2>2. CASE q # p
      BY <1>0, <1>7, <2>2, KeyUntouched DEF EncryptBegin, DecryptBegin, GetRecvContext, HasSession, disk
    <2> QED BY <2>1, <2>2
  <1>8. ASSUME NEW p \in Party, NEW s \in Slots,
               DecryptLookup(p, s) \/ DecryptSkip(p, s) \/ DecryptOpen(p, s)
        PROVE  KeysOf(q)'
    <2>1. CASE q = p
      BY <1>0, <1>8, <2>1, KeyDecrypt
    <2>2. CASE q # p
      <3>1. /\ UNCHANGED <<net, stale>> /\ ses'[q] = ses[q]
            /\ \A t \in Slots : call'[q][t] = call[q][t]
        BY <1>8, <2>2, DecryptKeepsSending DEF disk
      <3> QED
        BY <1>0, <3>1, KeyUntouched
    <2> QED BY <2>1, <2>2
  <1>9. CASE UNCHANGED vars
    BY <1>0, <1>9, KeyUntouched DEF vars, disk
  <1> QED
    BY <1>1, <1>2, <1>3, <1>4, <1>5, <1>6, <1>7, <1>8, <1>9 DEF Next, CallStep

\* For callers that do not overlap their calls on a party, no two envelopes of
\* a session are sealed under the same AEAD key and nonce: not after lost,
\* duplicated, reordered or damaged packets, nor after a decrypt that threw,
\* nor after a restart from a snapshot that was up to date.
THEOREM AeadNeverReused ==
    ASSUME Serial
    PROVE  Spec => []NoAeadReuse
  <1>1. Init => TypeInv /\ RootInv /\ KeyInv
    BY TypeInit, RootInit, KeyInit
  <1>2. TypeInv /\ RootInv /\ KeyInv /\ [Next]_vars => (TypeInv /\ RootInv /\ KeyInv)'
    BY TypeNext, RootNext, KeyNext
  <1>3. TypeInv /\ RootInv /\ KeyInv => NoAeadReuse
    <2> SUFFICES ASSUME TypeInv, RootInv, KeyInv,
                        NEW m1 \in net, NEW m2 \in net,
                        AeadContext(m1) = AeadContext(m2), ~stale[m1.from]
                 PROVE  m1 = m2
      BY DEF NoAeadReuse
    <2>1. m1.key = m2.key
      BY DEF AeadContext
    <2>2. m1.from \in Party /\ m2.from \in Party
      BY DEF TypeInv, TypeOK, Envelope
    <2>3. m1.from = m2.from
      BY <2>1, <2>2 DEF RootInv, Party
    <2> QED
      BY <2>1, <2>2, <2>3 DEF KeyInv, KeysOf, Distinct
  <1> QED BY <1>1, <1>2, <1>3, PTL DEF Spec

----------------------------------------------------------------------------
(* Both ends of a direction are on one chain.                              *)
(*                                                                         *)
(* The initiator sends on the chain of the X3DH secret and never announces  *)
(* a key, so the responder never leaves that chain.  The responder's first  *)
(* send takes the step with the key it has then, and until it is rolled     *)
(* back announces no other; the initiator takes the same step when it first *)
(* sees that key, and stays.  What either has derived lies at or below the  *)
(* other's sending chain, because it was led there by an envelope.          *)

SharedBase == SharedChain.base

\* The base of the responder's sending chain behind the step with its key dh.
StepBase(dh) ==
    [root |-> << {dh, "a0"} >>,
     half |-> IF rank[dh] < rank["a0"] THEN "sending" ELSE "receiving"]

\* A ratchet state that p works with, has committed or has saved, given the
\* state of its peer and whether the peer was rolled back.
Fits(p, rs, peer, rolled) ==
    IF p = "I"
    THEN /\ rs.self = "a0" /\ rs.snd.base = SharedBase
         /\ rolled \/ /\ rs.rcv = NoChain /\ rs.root = << >> /\ rs.remote = "spk"
                   \/ /\ rs.rcv # NoChain /\ peer.snd # NoChain
                      /\ rs.remote = peer.self
                      /\ rs.rcv.base = peer.snd.base /\ rs.rcv.n <= peer.snd.n
    ELSE /\ rs.self \in {"b0", "b1"} /\ rs.remote = "a0"
         /\ rs.snd = NoChain => rs.root = << >>
         /\ rs.rcv # NoChain /\ rs.rcv.base = SharedBase
         /\ rolled \/ rs.rcv.n <= peer.snd.n

Fit(p, rs) == Fits(p, rs, ses[Peer(p)].rs, stale[Peer(p)])

FitStates ==
    \A p \in Party :
        /\ ses[p].phase = "none" => ses[p] = NoSession
        /\ ses[p].phase = "ready" => Fit(p, ses[p].rs)
        /\ saved[p].ses.phase = "ready" => Fit(p, saved[p].ses.rs)
        /\ \A s \in Slots : call[p][s].op \in Active => Fit(p, call[p][s].rs)

\* The initiator announces no key.
Silent ==
    /\ ~ses["I"].includeDh /\ ~saved["I"].ses.includeDh
    /\ \A s \in Slots : call["I"][s].op = "encrypt" => ~call["I"][s].includeDh

Headers ==
    /\ \A m \in net : m.n = m.key.n /\ (m.from = "I" => m.dh = NoDh)
    /\ \A p \in Party, s \in Slots :
          call[p][s].op \in {"lookup", "skip", "open"}
              => call[p][s].m \in net /\ call[p][s].m.from = Peer(p)

\* The responder that was not rolled back has one key since its first send.
OneKey ==
    /\ \A s \in Slots : call["R"][s].op = "rotate"
          => ses["R"].phase = "ready" /\ ses["R"].rs.snd = NoChain
    /\ ~stale["R"] =>
          /\ \A m \in net : m.from = "R" => m.dh \in {NoDh, ses["R"].rs.self}
          /\ ses["R"].rs.snd # NoChain
                => ses["R"].rs.snd.base = StepBase(ses["R"].rs.self)
          /\ \A s \in Slots :
                /\ call["R"][s].op \in Active => call["R"][s].rs.self = ses["R"].rs.self
                /\ call["R"][s].op = "encrypt"
                      => call["R"][s].rs.snd.base = StepBase(ses["R"].rs.self)

AgreeInv == FitStates /\ Silent /\ Headers /\ OneKey

\* What a step does to the chain a party sends on: nothing, or it goes on.
Onward(rs, rolled, next, rolledNext) ==
    rolledNext \/ /\ ~rolled
                  /\ rs.snd # NoChain => /\ next.snd # NoChain /\ next.self = rs.self
                                         /\ next.snd.base = rs.snd.base
                                         /\ rs.snd.n <= next.snd.n

LEMMA FitsKept ==
    ASSUME NEW p \in Party, NEW rs \in RatchetState, NEW peer \in RatchetState,
           NEW next \in RatchetState, NEW rolled \in BOOLEAN, NEW rolledNext \in BOOLEAN,
           Fits(p, rs, peer, rolled), Onward(peer, rolled, next, rolledNext)
    PROVE  Fits(p, rs, next, rolledNext)
  <1>1. CASE rolledNext
    BY <1>1 DEF Fits
  <1>2. CASE ~rolledNext
    <2>1. /\ ~rolled
          /\ peer.snd # NoChain => /\ next.snd # NoChain /\ next.self = peer.self
                                   /\ next.snd.base = peer.snd.base
                                   /\ peer.snd.n <= next.snd.n
      BY <1>2 DEF Onward
    <2>2. rs.rcv # NoChain => rs.rcv.n \in Nat
      BY DEF RatchetState, Chain
    <2>3. /\ peer.snd # NoChain => peer.snd.n \in Nat
          /\ next.snd # NoChain => next.snd.n \in Nat
      BY DEF RatchetState, Chain
    <2>4. CASE p = "I"
      <3>1. CASE rs.rcv = NoChain /\ rs.root = << >> /\ rs.remote = "spk"
        BY <2>4, <3>1 DEF Fits
      <3>2. CASE /\ rs.rcv # NoChain /\ peer.snd # NoChain /\ rs.remote = peer.self
                 /\ rs.rcv.base = peer.snd.base /\ rs.rcv.n <= peer.snd.n
        <4>1. rs.rcv.n <= next.snd.n
          BY <2>1, <2>2, <2>3, <3>2
        <4> QED BY <2>1, <2>4, <3>2, <4>1 DEF Fits
      <3> QED BY <2>1, <2>4, <3>1, <3>2 DEF Fits
    <2>5. CASE p # "I"
      <3>1. rs.rcv # NoChain /\ rs.rcv.n <= peer.snd.n
        BY <2>1, <2>5 DEF Fits
      <3>2. peer.snd # NoChain
        <4>1. NoChain.n = -1
          BY DEF NoChain
        <4> QED BY <2>2, <3>1, <4>1
      <3>3. rs.rcv.n <= next.snd.n
        BY <2>1, <2>2, <2>3, <3>1, <3>2
      <3> QED BY <2>5, <3>3 DEF Fits
    <2> QED BY <2>4, <2>5
  <1> QED BY <1>1, <1>2

LEMMA StatesTyped ==
    ASSUME TypeInv, NEW p \in Party
    PROVE  /\ Peer(p) \in Party /\ stale[p] \in BOOLEAN /\ ses[p] \in Session
           /\ ses[p].rs \in RatchetState /\ saved[p].ses.rs \in RatchetState
           /\ \A s \in Slots : call[p][s].op \in Active => call[p][s].rs \in RatchetState
  <1>1. Peer(p) \in Party
    BY DEF Peer, Party
  <1>2. ses[p] \in Session /\ saved[p].ses \in Session /\ stale[p] \in BOOLEAN
    BY DEF TypeInv, TypeOK, Snapshot
  <1>3. ses[p].rs \in RatchetState /\ saved[p].ses.rs \in RatchetState
    BY <1>2 DEF Session
  <1>4. ASSUME NEW s \in Slots, call[p][s].op \in Active
        PROVE  call[p][s].rs \in RatchetState
    <2>1. PICK c \in Call : c = call[p][s]
      BY DEF TypeInv, TypeOK
    <2>2. \/ c \in EncryptCall \/ c \in LookupCall \/ c \in SkipCall \/ c \in OpenCall
      BY <1>4, <2>1, CallKinds DEF Active
    <2> QED BY <2>1, <2>2 DEF EncryptCall, LookupCall, SkipCall, OpenCall, SendingState, ReceivingState
  <1> QED BY <1>1, <1>2, <1>3, <1>4

\* States that were there stay fit, and it is enough to check the new ones
\* against the peer's state before the step.
LEMMA FitUpdate ==
    ASSUME TypeInv, TypeInv', FitStates,
           \A q \in Party : Onward(ses[q].rs, stale[q], ses'[q].rs, stale'[q]),
           \A q \in Party : \/ ses'[q] = ses[q]
                            \/ ses'[q].phase = "ready" /\ Fit(q, ses'[q].rs),
           \A q \in Party : \/ saved'[q] = saved[q]
                            \/ saved'[q].ses.phase = "ready" => Fit(q, saved'[q].ses.rs),
           \A q \in Party, s \in Slots :
              \/ call'[q][s] = call[q][s]
              \/ call'[q][s].op \in Active => Fit(q, call'[q][s].rs)
    PROVE  FitStates'
  <1>1. ASSUME NEW q \in Party, NEW rs \in RatchetState, Fit(q, rs)
        PROVE  Fits(q, rs, ses'[Peer(q)].rs, stale'[Peer(q)])
    <2>1. PICK o \in Party : o = Peer(q)
      BY StatesTyped
    <2>2. ses[o].rs \in RatchetState /\ stale[o] \in BOOLEAN
      BY StatesTyped
    <2>3. ses'[o].rs \in RatchetState /\ stale'[o] \in BOOLEAN
      BY DEF TypeInv, TypeOK, Session
    <2>4. Fits(q, rs, ses[o].rs, stale[o])
      BY <1>1, <2>1 DEF Fit
    <2>5. Onward(ses[o].rs, stale[o], ses'[o].rs, stale'[o])
      OBVIOUS
    <2>6. Fits(q, rs, ses'[o].rs, stale'[o])
      BY <2>2, <2>3, <2>4, <2>5, FitsKept
    <2> QED BY <2>1, <2>6
  <1>2. ASSUME NEW q \in Party
        PROVE  /\ ses'[q].phase = "none" => ses'[q] = NoSession
               /\ ses'[q].phase = "ready" => Fit(q, ses'[q].rs)
               /\ saved'[q].ses.phase = "ready" => Fit(q, saved'[q].ses.rs)
               /\ \A s \in Slots : call'[q][s].op \in Active => Fit(q, call'[q][s].rs)
    BY DEF FitStates
  <1>3. ASSUME NEW q \in Party
        PROVE  /\ ses'[q].rs \in RatchetState /\ saved'[q].ses.rs \in RatchetState
               /\ \A s \in Slots : call'[q][s].op \in Active => call'[q][s].rs \in RatchetState
    <2>1. ses'[q] \in Session /\ saved'[q].ses \in Session
      BY DEF TypeInv, TypeOK, Snapshot
    <2>2. ASSUME NEW s \in Slots, call'[q][s].op \in Active
          PROVE  call'[q][s].rs \in RatchetState
      <3>1. PICK c \in Call : c = call'[q][s]
        BY DEF TypeInv, TypeOK
      <3>2. \/ c \in EncryptCall \/ c \in LookupCall \/ c \in SkipCall \/ c \in OpenCall
        BY <2>2, <3>1, CallKinds DEF Active
      <3> QED BY <3>1, <3>2 DEF EncryptCall, LookupCall, SkipCall, OpenCall, SendingState, ReceivingState
    <2> QED BY <2>1, <2>2 DEF Session
  <1>4. ASSUME NEW q \in Party
        PROVE  /\ ses'[q].phase = "none" => ses'[q] = NoSession
               /\ ses'[q].phase = "ready"
                     => Fits(q, ses'[q].rs, ses'[Peer(q)].rs, stale'[Peer(q)])
               /\ saved'[q].ses.phase = "ready"
                     => Fits(q, saved'[q].ses.rs, ses'[Peer(q)].rs, stale'[Peer(q)])
               /\ \A s \in Slots : call'[q][s].op \in Active
                     => Fits(q, call'[q][s].rs, ses'[Peer(q)].rs, stale'[Peer(q)])
    BY <1>1, <1>2, <1>3
  <1> QED BY <1>4, Zenon DEF FitStates, Fit

LEMMA OnwardSame ==
    ASSUME NEW rs \in RatchetState, NEW rolled \in BOOLEAN
    PROVE  Onward(rs, rolled, rs, rolled)
  <1>1. rs.snd # NoChain => rs.snd.n \in Nat
    BY DEF RatchetState, Chain
  <1> QED BY <1>1 DEF Onward

\* What the later steps of decryptPayload do to the call and the record.
LEMMA DecryptMoves ==
    ASSUME TypeInv, NEW p \in Party, NEW s \in Slots,
           DecryptLookup(p, s) \/ DecryptSkip(p, s) \/ DecryptOpen(p, s)
    PROVE  /\ UNCHANGED <<rank, net, disk>>
           /\ call[p][s].op \in {"lookup", "skip", "open"}
           /\ \A q \in Party, t \in Slots :
                 q # p \/ t # s => call'[q][t] = call[q][t]
           /\ \/ call'[p][s] = Idle
              \/ /\ call'[p][s].op \in {"skip", "open"} /\ UNCHANGED ses
                 /\ call'[p][s].m = call[p][s].m
                 /\ \/ call'[p][s].rs = call[p][s].rs
                    \/ /\ call[p][s].rs \in RatchetState /\ call[p][s].rs.rcv \in Chain
                       /\ call[p][s].rs.rcv.n <= call[p][s].m.n
                       /\ call'[p][s].rs = SetReceiving(call[p][s].rs,
                                                        Advance(call[p][s].rs.rcv))
           /\ \/ UNCHANGED ses
              \/ ses' = [ses EXCEPT ![p] = Record(call[p][s].rs, ses[p].includeDh)]
  <1>0. PICK c \in Call : c = call[p][s]
    BY DEF TypeInv, TypeOK
  <1>1. call \in [Party -> [Slots -> Call]]
    BY DEF TypeInv, TypeOK
  <1>2. ASSUME NEW d, call' = [call EXCEPT ![p][s] = d]
        PROVE  /\ call'[p][s] = d
               /\ \A q \in Party, t \in Slots : q # p \/ t # s => call'[q][t] = call[q][t]
    BY <1>1, <1>2
  <1>3. CASE Throw(p, s) /\ c.op \in {"lookup", "skip", "open"}
    BY <1>0, <1>2, <1>3 DEF Throw, disk
  <1>4. CASE DecryptLookup(p, s)
    <2>1. c.op = "lookup"
      BY <1>0, <1>4 DEF DecryptLookup
    <2>2. ASSUME NEW d, d.op \in {"skip", "open"}, d.rs = c.rs, d.m = c.m,
                 call' = [call EXCEPT ![p][s] = d], UNCHANGED <<rank, ses, net, disk>>
          PROVE  /\ UNCHANGED <<rank, net, disk, ses>>
                 /\ \A q \in Party, t \in Slots :
                       q # p \/ t # s => call'[q][t] = call[q][t]
                 /\ call'[p][s].op \in {"skip", "open"}
                 /\ call'[p][s].m = c.m /\ call'[p][s].rs = c.rs
      BY <1>2, <2>2
    <2>3. \/ Throw(p, s)
          \/ \E d : /\ d.op \in {"skip", "open"} /\ d.rs = c.rs /\ d.m = c.m
                    /\ call' = [call EXCEPT ![p][s] = d] /\ UNCHANGED <<rank, ses, net, disk>>
      <3>1. ASSUME NEW e, call' = [call EXCEPT ![p][s] =
                            [op |-> "open", rs |-> c.rs, m |-> c.m, intact |-> c.intact,
                             stored |-> TRUE, mk |-> e.mk]],
                   UNCHANGED <<rank, ses, net, history, disk>>
            PROVE  \E d : /\ d.op \in {"skip", "open"} /\ d.rs = c.rs /\ d.m = c.m
                          /\ call' = [call EXCEPT ![p][s] = d]
                          /\ UNCHANGED <<rank, ses, net, disk>>
        <4> WITNESS [op |-> "open", rs |-> c.rs, m |-> c.m, intact |-> c.intact,
                     stored |-> TRUE, mk |-> e.mk]
        <4> QED BY <3>1
      <3>2. ASSUME call' = [call EXCEPT ![p][s] =
                              Decrypting("skip", c.rs, c.m, c.intact, c.stored)],
                   UNCHANGED <<rank, ses, skipped, net, history, disk>>
            PROVE  \E d : /\ d.op \in {"skip", "open"} /\ d.rs = c.rs /\ d.m = c.m
                          /\ call' = [call EXCEPT ![p][s] = d]
                          /\ UNCHANGED <<rank, ses, net, disk>>
        <4> WITNESS Decrypting("skip", c.rs, c.m, c.intact, c.stored)
        <4> QED BY <3>2 DEF Decrypting
      <3> QED BY <1>0, <1>4, <3>1, <3>2, Zenon DEF DecryptLookup
    <2>4. CASE Throw(p, s)
      BY <1>3, <2>1, <2>4
    <2>5. CASE ~Throw(p, s)
      BY <1>0, <2>1, <2>2, <2>3, <2>5
    <2> QED BY <2>4, <2>5
  <1>5. CASE DecryptSkip(p, s)
    <2>1. c \in SkipCall /\ c.op = "skip"
      BY <1>0, <1>5, CallKinds DEF DecryptSkip
    <2>2. c.rs \in RatchetState /\ c.rs.rcv \in Chain
      BY <2>1 DEF SkipCall, ReceivingState
    <2>3. PICK r : r = SetReceiving(c.rs, Advance(c.rs.rcv))
      OBVIOUS
    <2>4. CASE /\ c.rs.rcv.n < c.m.n
               /\ call' = [call EXCEPT ![p][s] =
                             Decrypting("skip", r, c.m, c.intact, TRUE)]
               /\ UNCHANGED <<rank, ses, net, history, disk>>
      <3>1. c.rs.rcv.n <= c.m.n
        BY <2>1, <2>2, <2>4 DEF SkipCall, Envelope, Chain
      <3>2. call'[p][s] = Decrypting("skip", r, c.m, c.intact, TRUE)
            /\ \A q \in Party, t \in Slots : q # p \/ t # s => call'[q][t] = call[q][t]
        BY <1>2, <2>4
      <3>3. call'[p][s].op = "skip" /\ call'[p][s].m = c.m /\ call'[p][s].rs = r
        BY <3>2 DEF Decrypting
      <3> QED BY <1>0, <2>1, <2>2, <2>3, <2>4, <3>1, <3>2, <3>3
    <2>5. CASE /\ c.rs.rcv.n = c.m.n
               /\ call' = [call EXCEPT ![p][s] =
                             [op |-> "open", rs |-> r, m |-> c.m, intact |-> c.intact,
                              stored |-> c.stored, mk |-> KeyAt(c.rs.rcv)]]
               /\ UNCHANGED <<rank, ses, skipped, net, history, disk>>
      <3>1. c.rs.rcv.n <= c.m.n
        BY <2>1, <2>2, <2>5 DEF SkipCall, Envelope, Chain
      <3>2. call'[p][s] = [op |-> "open", rs |-> r, m |-> c.m, intact |-> c.intact,
                           stored |-> c.stored, mk |-> KeyAt(c.rs.rcv)]
            /\ \A q \in Party, t \in Slots : q # p \/ t # s => call'[q][t] = call[q][t]
        BY <1>2, <2>5
      <3>3. call'[p][s].op = "open" /\ call'[p][s].m = c.m /\ call'[p][s].rs = r
        BY <3>2
      <3> QED BY <1>0, <2>1, <2>2, <2>3, <2>5, <3>1, <3>2, <3>3
    <2> QED
      BY <1>0, <1>3, <1>5, <2>1, <2>3, <2>4, <2>5, Zenon DEF DecryptSkip
  <1>6. CASE DecryptOpen(p, s)
    <2>1. c.op = "open"
      BY <1>0, <1>6 DEF DecryptOpen, OpenAndCommit
    <2>2. CASE /\ ses' = [ses EXCEPT ![p] = Record(c.rs, ses[p].includeDh)]
               /\ call' = [call EXCEPT ![p][s] = Idle]
               /\ UNCHANGED <<rank, net, disk>>
      BY <1>0, <1>2, <2>1, <2>2
    <2> QED
      BY <1>0, <1>3, <1>6, <2>1, <2>2, Zenon DEF DecryptOpen, OpenAndCommit
  <1> QED BY <1>4, <1>5, <1>6

\* A step of one call that leaves the records alone.
LEMMA AgreeCall ==
    ASSUME TypeInv, TypeInv', AgreeInv, NEW p \in Party, NEW s \in Slots,
           UNCHANGED <<rank, ses, net, disk>>,
           \A q \in Party, t \in Slots : q # p \/ t # s => call'[q][t] = call[q][t],
           call'[p][s].op # "rotate",
           call'[p][s].op \in Active => Fit(p, call'[p][s].rs),
           p = "I" /\ call'[p][s].op = "encrypt" => ~call'[p][s].includeDh,
           call'[p][s].op \in {"lookup", "skip", "open"}
              => call'[p][s].m \in net /\ call'[p][s].m.from = Peer(p),
           p = "R" /\ ~stale["R"] =>
              /\ call'["R"][s].op \in Active => call'["R"][s].rs.self = ses["R"].rs.self
              /\ call'["R"][s].op = "encrypt"
                    => call'["R"][s].rs.snd.base = StepBase(ses["R"].rs.self)
    PROVE  AgreeInv'
  <1>1. UNCHANGED <<saved, stale>>
    BY DEF disk
  <1>2. \A q \in Party : Onward(ses[q].rs, stale[q], ses'[q].rs, stale'[q])
    BY <1>1, StatesTyped, OnwardSame
  <1>3. \A q \in Party, t \in Slots :
              \/ call'[q][t] = call[q][t]
              \/ call'[q][t].op \in Active => Fit(q, call'[q][t].rs)
    OBVIOUS
  <1>4. FitStates'
    BY <1>1, <1>2, <1>3, FitUpdate DEF AgreeInv
  <1>5. Silent'
    BY <1>1 DEF AgreeInv, Silent, Party
  <1>6. Headers'
    BY DEF AgreeInv, Headers, Peer
  <1>7. OneKey'
    BY <1>1 DEF AgreeInv, OneKey, Party, StepBase
  <1> QED BY <1>4, <1>5, <1>6, <1>7 DEF AgreeInv

\* The step a sender takes: the responder's first send has the chain of its key.
LEMMA SendStateStep ==
    ASSUME NEW rs \in RatchetState, rs.snd = NoChain, rs.root = << >>, rs.remote = "a0"
    PROVE  /\ SendState(rs).self = rs.self /\ SendState(rs).remote = "a0"
           /\ SendState(rs).rcv = rs.rcv
           /\ SendState(rs).snd.base = StepBase(rs.self)
  <1>1. Append(rs.root, {rs.self, "a0"}) = << {rs.self, "a0"} >>
    BY DEF RatchetState
  <1> QED BY <1>1 DEF SendState, RatchetStep, StepBase

\* The step a receiver takes: the initiator derives the same chain.
LEMMA ReceiveStateStep ==
    ASSUME TypeInv, NEW rs \in RatchetState, NEW m \in Envelope,
           rs.root = << >>, rs.self = "a0", m.dh \in {"b0", "b1"}, m.dh # rs.remote
    PROVE  /\ ReceiveState(rs, m).self = "a0" /\ ReceiveState(rs, m).remote = m.dh
           /\ ReceiveState(rs, m).rcv = [base |-> StepBase(m.dh), n |-> 0]
  <1>1. PICK dh \in DhKey : dh = m.dh /\ dh # "a0" /\ dh # NoDh
    BY DEF DhKey, NoDh
  <1>2. Append(rs.root, {"a0", dh}) = << {dh, "a0"} >>
    OBVIOUS
  <1>3. rank \in [DhKey -> Nat] /\ rank[dh] # rank["a0"]
    BY <1>1, RanksAssumption DEF TypeInv, TypeOK, DhKey
  <1>4. rank["a0"] < rank[dh] <=> ~(rank[dh] < rank["a0"])
    BY <1>3 DEF DhKey
  <1>5. ReceiveState(rs, m) = RatchetStep(rs, dh, "receiving")
    BY <1>1 DEF ReceiveState
  <1>6. PICK half : half = IF rank[dh] < rank["a0"] THEN "sending" ELSE "receiving"
    OBVIOUS
  <1>7. half = IF rank["a0"] < rank[dh] THEN "receiving" ELSE "sending"
    BY <1>4, <1>6
  <1>8. RatchetStep(rs, dh, "receiving").rcv
           = [base |-> [root |-> << {dh, "a0"} >>, half |-> half], n |-> 0]
    BY <1>2, <1>7 DEF RatchetStep
  <1>9. StepBase(m.dh) = [root |-> << {dh, "a0"} >>, half |-> half]
    BY <1>1, <1>6 DEF StepBase
  <1>10. /\ RatchetStep(rs, dh, "receiving").self = "a0"
         /\ RatchetStep(rs, dh, "receiving").remote = m.dh
    BY <1>1 DEF RatchetStep
  <1> QED BY <1>5, <1>8, <1>9, <1>10

LEMMA AgreeEncryptBegin ==
    ASSUME TypeInv, TypeInv', RootInv, AgreeInv,
           NEW p \in Party, NEW s \in Slots, EncryptBegin(p, s)
    PROVE  AgreeInv'
  <1>1. PICK rs \in RatchetState : rs = ses[p].rs
    BY StatesTyped
  <1>2. ses[p].phase = "ready"
    BY StatesTyped DEF EncryptBegin, HasSession, Session
  <1>3. call \in [Party -> [Slots -> Call]]
    BY DEF TypeInv, TypeOK
  <1>4. /\ call'[p][s].op = "encrypt" /\ call'[p][s].rs = SendState(rs)
        /\ call'[p][s].includeDh = (ses[p].includeDh \/ rs.snd = NoChain)
        /\ \A q \in Party, t \in Slots : q # p \/ t # s => call'[q][t] = call[q][t]
    BY <1>1, <1>3 DEF EncryptBegin
  <1>5. UNCHANGED <<rank, ses, net, disk>>
    BY DEF EncryptBegin
  <1>6. Fit(p, rs) /\ Rooted(p, rs.snd)
    BY <1>1, <1>2 DEF AgreeInv, FitStates, RootInv
  <1>7. CASE p = "I"
    <2>1. rs.snd # NoChain /\ SendState(rs) = rs
      BY <1>6, <1>7, SendStateChain DEF Rooted
    <2>2. ~ses["I"].includeDh
      BY DEF AgreeInv, Silent
    <2>3. Fit(p, call'[p][s].rs) /\ ~call'[p][s].includeDh
      BY <1>4, <1>6, <1>7, <2>1, <2>2
    <2> QED BY <1>4, <1>5, <1>7, <2>3, AgreeCall
  <1>8. CASE p = "R"
    <2>1. /\ rs.self \in {"b0", "b1"} /\ rs.remote = "a0" /\ rs.rcv # NoChain
          /\ rs.snd = NoChain => rs.root = << >>
      BY <1>6, <1>8 DEF Fit, Fits
    <2>2. CASE rs.snd # NoChain
      <3>1. SendState(rs) = rs
        BY <2>2, SendStateChain
      <3>2. ~stale["R"] => rs.snd.base = StepBase(rs.self)
        BY <1>1, <1>8, <2>2 DEF AgreeInv, OneKey
      <3> QED BY <1>1, <1>4, <1>5, <1>6, <1>8, <3>1, <3>2, AgreeCall
    <2>3. CASE rs.snd = NoChain
      <3>1. PICK r : r = SendState(rs)
        OBVIOUS
      <3>2. /\ r.self = rs.self /\ r.remote = "a0" /\ r.rcv = rs.rcv
            /\ r.snd.base = StepBase(rs.self)
        BY <2>1, <2>3, <3>1, SendStateStep
      <3>3. r.snd # NoChain
        BY <3>1, SendStateChain, ChainFacts
      <3>4. Fit(p, r)
        BY <1>6, <1>8, <2>1, <3>2, <3>3 DEF Fit, Fits
      <3> QED BY <1>1, <1>4, <1>5, <1>8, <3>1, <3>2, <3>4, AgreeCall
    <2> QED BY <2>2, <2>3
  <1> QED BY <1>7, <1>8 DEF Party

LEMMA AgreeDecryptBegin ==
    ASSUME TypeInv, TypeInv', KeyInv, AgreeInv, NEW p \in Party, NEW s \in Slots,
           NEW m \in net, NEW intact \in BOOLEAN, DecryptBegin(p, s, m, intact)
    PROVE  AgreeInv'
  <1>1. PICK rs \in RatchetState : rs = ses[p].rs
    BY StatesTyped
  <1>2. ses[p].phase = "ready" /\ m.from = Peer(p)
    BY StatesTyped DEF DecryptBegin, GetRecvContext, HasSession, Session
  <1>3. call \in [Party -> [Slots -> Call]] /\ m \in Envelope
    BY DEF TypeInv, TypeOK
  <1>4. PICK r : r = ReceiveState(rs, m)
    OBVIOUS
  <1>5. /\ call'[p][s].op = "lookup" /\ call'[p][s].rs = r /\ call'[p][s].m = m
        /\ \A q \in Party, t \in Slots : q # p \/ t # s => call'[q][t] = call[q][t]
    BY <1>1, <1>3, <1>4 DEF DecryptBegin, Decrypting
  <1>6. UNCHANGED <<rank, ses, net, disk>>
    BY DEF DecryptBegin
  <1>7. Fit(p, rs)
    BY <1>1, <1>2 DEF AgreeInv, FitStates
  <1>8. r.snd = rs.snd
    BY <1>3, <1>4, ReceiveStateType
  <1>9. CASE r = rs
    <2>1. p = "R" /\ ~stale["R"] => r.self = ses["R"].rs.self
      BY <1>1, <1>9
    <2> QED BY <1>2, <1>5, <1>6, <1>7, <1>9, <2>1, AgreeCall
  <1>10. CASE r # rs
    <2>1. m.dh # NoDh /\ m.dh # rs.remote
      BY <1>4, <1>10 DEF ReceiveState
    <2>2. p = "I"
      BY <1>2, <2>1 DEF AgreeInv, Headers, Party, Peer
    <2>3. r.self = "a0"
      BY <1>4, <1>7, <2>1, <2>2 DEF ReceiveState, RatchetStep, Fit, Fits
    <2>4. CASE stale["R"]
      <3>1. Fit(p, r)
        BY <1>7, <1>8, <2>2, <2>3, <2>4 DEF Fit, Fits, Peer
      <3> QED BY <1>2, <1>5, <1>6, <2>2, <3>1, AgreeCall
    <2>5. CASE ~stale["R"]
      <3>1. PICK peer \in RatchetState : peer = ses["R"].rs
        BY StatesTyped DEF Party
      <3>2. m.from = "R"
        BY <1>2, <2>2 DEF Peer
      <3>3. m.dh = peer.self
        BY <2>1, <2>5, <3>1, <3>2 DEF AgreeInv, OneKey
      <3>4. peer.snd # NoChain /\ ses["R"].phase # "none"
        BY <2>5, <3>1, <3>2 DEF KeyInv, KeysOf, Below, Unstarted, Party
      <3>5. peer.snd.base = StepBase(peer.self)
        BY <2>5, <3>1, <3>4 DEF AgreeInv, OneKey
      <3>6. ses["R"] \in Session
        BY StatesTyped DEF Party
      <3>7. ses["R"].phase = "ready"
        BY <3>4, <3>6 DEF Session
      <3>8. peer.self \in {"b0", "b1"}
        BY <3>1, <3>7 DEF AgreeInv, FitStates, Fit, Fits, Party
      <3>9. rs.self = "a0" /\ rs.rcv = NoChain /\ rs.root = << >>
        BY <1>7, <2>1, <2>2, <2>5, <3>1, <3>3 DEF Fit, Fits, Peer
      <3>10. r.remote = m.dh /\ r.rcv = [base |-> StepBase(m.dh), n |-> 0]
        BY <1>3, <1>4, <2>1, <3>3, <3>8, <3>9, ReceiveStateStep
      <3>11. r.rcv # NoChain /\ r.rcv.n <= peer.snd.n
        <4>1. peer.snd.n \in Nat
          BY <3>4 DEF RatchetState, Chain
        <4>2. r.rcv.n = 0
          BY <3>10
        <4> QED BY <4>1, <4>2 DEF NoChain
      <3>12. r.rcv.base = peer.snd.base
        BY <3>3, <3>5, <3>10
      <3>13. rs.snd.base = SharedBase
        BY <1>7, <2>2 DEF Fit, Fits
      <3>14. Fits("I", r, peer, stale["R"])
        BY <1>8, <2>3, <3>3, <3>4, <3>10, <3>11, <3>12, <3>13 DEF Fits
      <3>15. Fit(p, r)
        BY <2>2, <3>1, <3>14 DEF Fit, Peer
      <3> QED BY <1>2, <1>5, <1>6, <2>2, <3>15, AgreeCall
    <2> QED BY <2>4, <2>5
  <1> QED BY <1>9, <1>10

\* A call that has not ended belongs to an established session and has its own
\* key, and the sending chain of the record if that has one.
LEMMA CallOfRecord ==
    ASSUME TypeInv, KeyInv, AgreeInv, NEW p \in Party, NEW s \in Slots,
           call[p][s].op \in Active
    PROVE  /\ ses[p].phase = "ready" /\ Fit(p, ses[p].rs) /\ Fit(p, call[p][s].rs)
           /\ ~stale[p] => /\ call[p][s].rs.self = ses[p].rs.self
                           /\ ses[p].rs.snd # NoChain => call[p][s].rs.snd = ses[p].rs.snd
  <1>1. ses[p].phase # "none" /\ ses[p] \in Session
    BY StatesTyped DEF KeyInv, KeysOf, Unstarted, Active, Idle
  <1>2. ses[p].phase = "ready"
    BY <1>1 DEF Session
  <1>3. Fit(p, ses[p].rs) /\ Fit(p, call[p][s].rs)
    BY <1>2 DEF AgreeInv, FitStates
  <1>4. ~stale[p] => call[p][s].rs.self = ses[p].rs.self
    <2>1. CASE p = "I"
      BY <1>3, <2>1 DEF Fit, Fits
    <2>2. CASE p = "R"
      BY <2>2 DEF AgreeInv, OneKey
    <2> QED BY <2>1, <2>2 DEF Party
  <1>5. ~stale[p] /\ ses[p].rs.snd # NoChain => call[p][s].rs.snd = ses[p].rs.snd
    BY DEF KeyInv, KeysOf, CallsAgree, Active
  <1> QED BY <1>2, <1>3, <1>4, <1>5

LEMMA AgreeEncryptCommit ==
    ASSUME Serial, TypeInv, TypeInv', KeyInv, AgreeInv,
           NEW p \in Party, NEW s \in Slots, EncryptCommit(p, s)
    PROVE  AgreeInv'
  <1>1. PICK c \in Call : c = call[p][s]
    BY DEF TypeInv, TypeOK
  <1>2. c.op = "encrypt" /\ call[p][s].op \in Active
    BY <1>1 DEF EncryptCommit, Active
  <1>3. c \in EncryptCall
    BY <1>2, CallKinds
  <1>4. c.rs \in RatchetState /\ c.rs.snd \in Chain /\ c.rs.snd.n \in Nat
    BY <1>3 DEF EncryptCall, SendingState, Chain
  <1>5. PICK r : r = SetSending(c.rs, Advance(c.rs.snd))
    OBVIOUS
  <1>6. /\ r.snd = Advance(c.rs.snd) /\ r.root = c.rs.root /\ r.rcv = c.rs.rcv
        /\ r.self = c.rs.self /\ r.remote = c.rs.remote
    BY <1>4, <1>5 DEF SetSending, RatchetState
  <1>7. /\ r.snd.base = c.rs.snd.base /\ c.rs.snd.n <= r.snd.n
        /\ r.snd # NoChain /\ c.rs.snd # NoChain
    <2>1. r.snd.n = c.rs.snd.n + 1 /\ r.snd.base = c.rs.snd.base
      BY <1>6 DEF Advance
    <2>2. r.snd # NoChain /\ c.rs.snd # NoChain
      BY <1>4, <1>6, ChainFacts
    <2> QED BY <1>4, <2>1, <2>2
  <1>8. ses \in [Party -> Session] /\ call \in [Party -> [Slots -> Call]]
    BY DEF TypeInv, TypeOK
  <1>9. /\ ses'[p] = Record(r, FALSE)
        /\ \A q \in Party : q # p => ses'[q] = ses[q]
        /\ call'[p][s] = Idle
        /\ \A q \in Party, t \in Slots : q # p \/ t # s => call'[q][t] = call[q][t]
    BY <1>1, <1>5, <1>8 DEF EncryptCommit
  <1>10. ses'[p].rs = r /\ ses'[p].phase = "ready" /\ ses'[p].includeDh = FALSE
    BY <1>9 DEF Record
  <1>11. UNCHANGED <<rank, saved, stale>> /\ net' = net \cup {Seal(p, c)}
    BY <1>1 DEF EncryptCommit, disk
  <1>12. /\ ses[p].phase = "ready" /\ Fit(p, c.rs)
         /\ ~stale[p] => /\ c.rs.self = ses[p].rs.self
                         /\ ses[p].rs.snd # NoChain => c.rs.snd = ses[p].rs.snd
    BY <1>1, <1>2, CallOfRecord
  <1>13. Fit(p, r)
    BY <1>6, <1>7, <1>12 DEF Fit, Fits
  <1>14. ASSUME NEW q \in Party PROVE Onward(ses[q].rs, stale[q], ses'[q].rs, stale'[q])
    <2>1. CASE q # p
      BY <1>9, <1>11, <2>1, StatesTyped, OnwardSame
    <2>2. CASE q = p
      BY <1>6, <1>7, <1>10, <1>11, <1>12, <2>2, StatesTyped DEF Onward
    <2> QED BY <2>1, <2>2
  <1>15. \A q \in Party : \/ ses'[q] = ses[q]
                          \/ ses'[q].phase = "ready" /\ Fit(q, ses'[q].rs)
    BY <1>9, <1>10, <1>13
  <1>16. \A q \in Party, t \in Slots :
            call'[q][t] = call[q][t] \/ call'[q][t].op \notin Active
    BY <1>9 DEF Idle, Active
  <1>17. FitStates'
    BY <1>11, <1>14, <1>15, <1>16, FitUpdate DEF AgreeInv
  <1>18. Silent'
    <2>1. ~ses'["I"].includeDh
      BY <1>9, <1>10 DEF AgreeInv, Silent, Party
    <2> QED BY <1>11, <1>16, <2>1 DEF AgreeInv, Silent, Party, Active
  <1>19. Seal(p, c).n = Seal(p, c).key.n /\ Seal(p, c).from = p
         /\ Seal(p, c).dh = IF c.includeDh THEN c.rs.self ELSE NoDh
    BY DEF Seal, KeyAt
  <1>20. Headers'
    <2>1. p = "I" => ~c.includeDh
      BY <1>1, <1>2 DEF AgreeInv, Silent
    <2>2. \A m \in net' : m.n = m.key.n /\ (m.from = "I" => m.dh = NoDh)
      BY <1>11, <1>19, <2>1 DEF AgreeInv, Headers
    <2>3. \A q \in Party, t \in Slots :
             call'[q][t].op \in {"lookup", "skip", "open"} => call'[q][t] = call[q][t]
      BY <1>16 DEF Active
    <2> QED BY <1>11, <2>2, <2>3 DEF AgreeInv, Headers
  <1>21. OneKey'
    <2>1. CASE p = "I"
      <3>1. ses'["R"] = ses["R"] /\ \A t \in Slots : call'["R"][t] = call["R"][t]
        BY <1>9, <2>1 DEF Party
      <3>2. \A m \in net' : m.from = "R" => m \in net
        BY <1>11, <1>19, <2>1
      <3> QED BY <1>11, <3>1, <3>2 DEF AgreeInv, OneKey, StepBase
    <2>2. CASE p = "R"
      <3>1. \A t \in Slots : call'["R"][t] = Idle
        BY <1>9, <2>2 DEF Serial
      <3>2. ~stale["R"] => /\ c.rs.self = ses["R"].rs.self
                           /\ c.rs.snd.base = StepBase(c.rs.self)
        BY <1>1, <1>2, <1>12, <2>2 DEF AgreeInv, OneKey
      <3>3. ~stale["R"] => \A m \in net' : m.from = "R" => m.dh \in {NoDh, r.self}
        BY <1>6, <1>11, <1>19, <3>2 DEF AgreeInv, OneKey
      <3>4. ~stale["R"] => r.snd.base = StepBase(r.self)
        BY <1>6, <1>7, <3>2
      <3>5. ses'["R"].rs = r /\ stale'["R"] = stale["R"]
        BY <1>10, <1>11, <2>2
      <3>6. \A t \in Slots : call'["R"][t].op \notin Active \cup {"rotate", "encrypt"}
        BY <3>1 DEF Idle, Active
      <3>7. ~stale'["R"] => /\ \A m \in net' : m.from = "R" => m.dh \in {NoDh, ses'["R"].rs.self}
                            /\ ses'["R"].rs.snd.base = StepBase(ses'["R"].rs.self)
        BY <3>3, <3>4, <3>5
      <3> QED BY <1>11, <3>6, <3>7 DEF OneKey, StepBase
    <2> QED BY <2>1, <2>2 DEF Party
  <1> QED BY <1>17, <1>18, <1>20, <1>21 DEF AgreeInv

LEMMA AgreeDecrypt ==
    ASSUME Serial, TypeInv, TypeInv', KeyInv, AgreeInv, NEW p \in Party, NEW s \in Slots,
           DecryptLookup(p, s) \/ DecryptSkip(p, s) \/ DecryptOpen(p, s)
    PROVE  AgreeInv'
  <1>1. PICK c \in Call : c = call[p][s]
    BY DEF TypeInv, TypeOK
  <1>2. c.op \in {"lookup", "skip", "open"} /\ UNCHANGED <<rank, net, disk>>
        /\ \A q \in Party, t \in Slots : q # p \/ t # s => call'[q][t] = call[q][t]
    BY <1>1, DecryptMoves
  <1>3. call[p][s].op \in Active
    BY <1>1, <1>2 DEF Active
  <1>4. /\ ses[p].phase = "ready" /\ Fit(p, ses[p].rs) /\ Fit(p, c.rs)
        /\ ~stale[p] => /\ c.rs.self = ses[p].rs.self
                        /\ ses[p].rs.snd # NoChain => c.rs.snd = ses[p].rs.snd
    BY <1>1, <1>3, CallOfRecord
  <1>5. c.m \in net /\ c.m.from = Peer(p)
    BY <1>1, <1>2 DEF AgreeInv, Headers
  <1>6. CASE UNCHANGED ses /\ call'[p][s] = Idle
    BY <1>2, <1>6, AgreeCall DEF Idle, Active
  <1>7. ASSUME NEW r, UNCHANGED ses, call'[p][s].op \in {"skip", "open"},
               call'[p][s].m = c.m, call'[p][s].rs = r, Fit(p, r), r.self = c.rs.self
        PROVE  AgreeInv'
    <2>1. call'[p][s].op # "encrypt" /\ call'[p][s].op # "rotate"
      BY <1>7
    <2> QED BY <1>2, <1>4, <1>5, <1>7, <2>1, AgreeCall
  <1>8. ASSUME c.rs \in RatchetState, c.rs.rcv \in Chain, c.rs.rcv.n <= c.m.n
        PROVE  /\ Fit(p, SetReceiving(c.rs, Advance(c.rs.rcv)))
               /\ SetReceiving(c.rs, Advance(c.rs.rcv)).self = c.rs.self
    <2>1. PICK r : r = SetReceiving(c.rs, Advance(c.rs.rcv))
      OBVIOUS
    <2>2. /\ r.rcv = Advance(c.rs.rcv) /\ r.root = c.rs.root /\ r.snd = c.rs.snd
          /\ r.self = c.rs.self /\ r.remote = c.rs.remote
      BY <1>8, <2>1 DEF SetReceiving, RatchetState
    <2>3. r.rcv # NoChain /\ c.rs.rcv # NoChain
      BY <1>8, <2>2, ChainFacts
    <2>4. r.rcv.n = c.rs.rcv.n + 1 /\ r.rcv.base = c.rs.rcv.base
      BY <2>2 DEF Advance
    <2>5. PICK o \in Party : o = Peer(p)
      BY StatesTyped
    <2>6. ASSUME ~stale[o] PROVE r.rcv.n <= ses[o].rs.snd.n
      <3>1. ses[o].rs.snd # NoChain /\ c.m.key.n < ses[o].rs.snd.n
        BY <1>5, <2>5, <2>6 DEF KeyInv, KeysOf, Below
      <3>2. c.m.n = c.m.key.n
        BY <1>5 DEF AgreeInv, Headers
      <3>3. ses[o].rs \in RatchetState
        BY StatesTyped
      <3>4. ses[o].rs.snd.n \in Nat /\ c.rs.rcv.n \in Nat
        BY <1>8, <3>1, <3>3 DEF RatchetState, Chain
      <3>5. c.m \in Envelope
        BY <1>5 DEF TypeInv, TypeOK
      <3>6. c.m.n \in Nat
        BY <3>5 DEF Envelope
      <3> QED BY <1>8, <2>4, <3>1, <3>2, <3>4, <3>6
    <2>7. Fits(p, c.rs, ses[o].rs, stale[o])
      BY <1>4, <2>5 DEF Fit
    <2>8. Fits(p, r, ses[o].rs, stale[o])
      BY <2>2, <2>3, <2>4, <2>6, <2>7 DEF Fits
    <2> QED BY <2>1, <2>2, <2>5, <2>8 DEF Fit
  <1>9. CASE ~UNCHANGED ses
    <2>1. ses' = [ses EXCEPT ![p] = Record(c.rs, ses[p].includeDh)] /\ call'[p][s] = Idle
      BY <1>1, <1>9, DecryptMoves
    <2>2. ses \in [Party -> Session]
      BY DEF TypeInv, TypeOK
    <2>3. /\ ses'[p].rs = c.rs /\ ses'[p].phase = "ready"
          /\ ses'[p].includeDh = ses[p].includeDh
          /\ \A q \in Party : q # p => ses'[q] = ses[q]
      BY <2>1, <2>2 DEF Record
    <2>4. UNCHANGED <<rank, net, saved, stale>>
      BY <1>2 DEF disk
    <2>5. ~stale[p] => c.rs.snd = ses[p].rs.snd /\ c.rs.self = ses[p].rs.self
      BY <1>1, <1>2, <1>4 DEF KeyInv, KeysOf, CallsAgree
    <2>6. ASSUME NEW q \in Party PROVE Onward(ses[q].rs, stale[q], ses'[q].rs, stale'[q])
      <3>1. Onward(ses[q].rs, stale[q], ses[q].rs, stale[q])
        BY StatesTyped, OnwardSame
      <3> QED BY <2>3, <2>4, <2>5, <3>1 DEF Onward
    <2>7. \A q \in Party : \/ ses'[q] = ses[q]
                           \/ ses'[q].phase = "ready" /\ Fit(q, ses'[q].rs)
      BY <1>4, <2>3
    <2>8. \A q \in Party, t \in Slots :
              call'[q][t] = call[q][t] \/ call'[q][t] = Idle
      BY <1>2, <2>1
    <2>9. Idle.op = "idle" /\ "idle" \notin Active
      BY DEF Idle, Active
    <2>10. FitStates'
      BY <2>4, <2>6, <2>7, <2>8, <2>9, FitUpdate DEF AgreeInv
    <2>11. Silent'
      BY <2>3, <2>4, <2>8, <2>9 DEF AgreeInv, Silent, Party
    <2>12. Headers'
      BY <2>4, <2>8, <2>9 DEF AgreeInv, Headers
    <2>13. OneKey'
      <3>1. CASE p = "I"
        <4>1. ses'["R"] = ses["R"] /\ \A t \in Slots : call'["R"][t] = call["R"][t]
          BY <1>2, <2>3, <3>1 DEF Party
        <4> QED BY <2>4, <4>1 DEF AgreeInv, OneKey, StepBase
      <3>2. CASE p = "R"
        <4>1. \A t \in Slots : call'["R"][t] = Idle
          BY <2>1, <3>2 DEF Serial
        <4> QED BY <2>3, <2>4, <2>5, <2>9, <3>2, <4>1 DEF AgreeInv, OneKey, StepBase
      <3> QED BY <3>1, <3>2 DEF Party
    <2> QED BY <2>10, <2>11, <2>12, <2>13 DEF AgreeInv
  <1> QED BY <1>1, <1>4, <1>6, <1>7, <1>8, <1>9, DecryptMoves

LEMMA AgreeEstablish ==
    ASSUME Serial, TypeInv, TypeInv', RootInv, KeyInv, AgreeInv,
           \/ EstablishInitiatorSession
           \/ \E s \in Slots : CreateResponderSession(s) \/ RotateDh(s)
    PROVE  AgreeInv'
  <1>1. ses \in [Party -> Session] /\ call \in [Party -> [Slots -> Call]]
    BY DEF TypeInv, TypeOK
  <1>2. UNCHANGED <<rank, net, saved, stale>>
    BY DEF EstablishInitiatorSession, CreateResponderSession, RotateDh, disk
  <1>3. Idle.op = "idle"
    BY DEF Idle
  \* A record that had no sending chain is replaced by a fit one.
  <1>4. ASSUME NEW p \in Party, \A q \in Party : q # p => ses'[q] = ses[q],
               ses[p].rs.snd = NoChain, ses'[p].phase = "ready", Fit(p, ses'[p].rs),
               \A q \in Party, t \in Slots :
                  call'[q][t] = call[q][t] \/ call'[q][t].op \in {"idle", "rotate"}
        PROVE  FitStates'
    <2>1. ASSUME NEW q \in Party PROVE Onward(ses[q].rs, stale[q], ses'[q].rs, stale'[q])
      <3>1. Onward(ses[q].rs, stale[q], ses[q].rs, stale[q])
        BY StatesTyped, OnwardSame
      <3> QED BY <1>2, <1>4, <3>1 DEF Onward
    <2> QED BY <1>2, <1>4, <2>1, FitUpdate DEF AgreeInv, Active
  <1>5. CASE EstablishInitiatorSession
    <2>1. /\ ses'["I"].rs = InitializeAsInitiator /\ ses'["I"].phase = "ready"
          /\ ~ses'["I"].includeDh /\ UNCHANGED call
          /\ \A q \in Party : q # "I" => ses'[q] = ses[q]
      BY <1>1, <1>5 DEF EstablishInitiatorSession, Record, Party
    <2>2. ses["I"].rs.snd = NoChain
      BY <1>5 DEF EstablishInitiatorSession, AgreeInv, FitStates, NoSession, Party
    <2>3. Fit("I", InitializeAsInitiator)
      BY DEF Fit, Fits, InitializeAsInitiator, SharedBase
    <2>4. FitStates'
      BY <1>4, <2>1, <2>2, <2>3 DEF Party
    <2>5. Silent' /\ Headers'
      BY <1>2, <2>1 DEF AgreeInv, Silent, Headers
    <2>6. OneKey'
      BY <1>2, <2>1 DEF AgreeInv, OneKey, StepBase, Party
    <2> QED BY <2>4, <2>5, <2>6 DEF AgreeInv
  <1>6. ASSUME NEW s \in Slots, NEW r, NEW op \in {"idle", "rotate"},
               ses["R"].rs.snd = NoChain, r.snd = NoChain, Fit("R", r),
               ses'["R"].rs = r, ses'["R"].phase = "ready",
               \A q \in Party : q # "R" => ses'[q] = ses[q],
               call'["R"][s].op = op,
               \A q \in Party, t \in Slots : q # "R" \/ t # s => call'[q][t] = call[q][t],
               ~stale["R"] => \A m \in net : m.from # "R"
        PROVE  AgreeInv'
    <2>1. \A q \in Party, t \in Slots :
              call'[q][t] = call[q][t] \/ call'[q][t].op \in {"idle", "rotate"}
      BY <1>6
    <2>2. FitStates'
      BY <1>4, <1>6, <2>1 DEF Party
    <2>3. ses'["I"] = ses["I"] /\ \A t \in Slots : call'["I"][t] = call["I"][t]
      BY <1>6 DEF Party
    <2>4. Silent'
      BY <1>2, <2>3 DEF AgreeInv, Silent
    <2>5. Headers'
      BY <1>2, <2>1 DEF AgreeInv, Headers
    <2>6. \A t \in Slots : call'["R"][t].op \in {"idle", "rotate"}
      BY <1>6 DEF Serial
    <2>7. OneKey'
      BY <1>2, <1>6, <2>6 DEF OneKey, Active
    <2> QED BY <2>2, <2>4, <2>5, <2>7 DEF AgreeInv
  <1>7. ASSUME NEW s \in Slots, CreateResponderSession(s) PROVE AgreeInv'
    <2>1. /\ ses'["R"].rs = InitializeAsResponder /\ ses'["R"].phase = "ready"
          /\ call'["R"][s].op = "rotate"
          /\ \A q \in Party : q # "R" => ses'[q] = ses[q]
          /\ \A q \in Party, t \in Slots : q # "R" \/ t # s => call'[q][t] = call[q][t]
      BY <1>1, <1>7 DEF CreateResponderSession, Record, Party
    <2>2. ses["R"].rs.snd = NoChain /\ \A m \in net : m.from # "R"
      BY <1>7 DEF CreateResponderSession, AgreeInv, FitStates, NoSession, Party,
         KeyInv, KeysOf, Unstarted
    <2>3. ses["I"].rs.snd # NoChain /\ ses["I"].rs \in RatchetState
      BY <1>7, StatesTyped DEF CreateResponderSession, RootInv, Rooted, Party
    <2>4. ses["I"].rs.snd.n \in Nat
      BY <2>3 DEF RatchetState, Chain
    <2>5. 0 <= ses["I"].rs.snd.n
      BY <2>4
    <2>6. SharedChain # NoChain
      BY ChainFacts
    <2>7. Fit("R", InitializeAsResponder)
      BY <2>5, <2>6 DEF Fit, Fits, InitializeAsResponder, SharedBase, Peer, SharedChain
    <2>8. InitializeAsResponder.snd = NoChain
      BY DEF InitializeAsResponder
    <2> QED BY <1>6, <2>1, <2>2, <2>7, <2>8
  <1>8. ASSUME NEW s \in Slots, RotateDh(s) PROVE AgreeInv'
    <2>1. PICK rs \in RatchetState : rs = ses["R"].rs
      BY StatesTyped DEF Party
    <2>2. PICK r : r = [rs EXCEPT !.self = "b1"]
      OBVIOUS
    <2>3. /\ r.snd = rs.snd /\ r.rcv = rs.rcv /\ r.root = rs.root
          /\ r.remote = rs.remote /\ r.self = "b1"
      BY <2>2 DEF RatchetState
    <2>4. /\ ses'["R"].rs = r /\ ses'["R"].phase = "ready" /\ call'["R"][s].op = "idle"
          /\ \A q \in Party : q # "R" => ses'[q] = ses[q]
          /\ \A q \in Party, t \in Slots : q # "R" \/ t # s => call'[q][t] = call[q][t]
      BY <1>1, <1>3, <1>8, <2>1, <2>2 DEF RotateDh, Record, Party
    <2>5. ses["R"].phase = "ready" /\ rs.snd = NoChain
      BY <1>8, <2>1 DEF RotateDh, AgreeInv, OneKey
    <2>6. Fit("R", rs)
      BY <2>1, <2>5 DEF AgreeInv, FitStates, Party
    <2>7. Fit("R", r)
      BY <2>3, <2>6 DEF Fit, Fits
    <2>8. ~stale["R"] => \A m \in net : m.from # "R"
      BY <2>1, <2>5 DEF KeyInv, KeysOf, Below, Party
    <2> QED BY <1>6, <2>1, <2>3, <2>4, <2>5, <2>7, <2>8
  <1> QED BY <1>5, <1>7, <1>8

LEMMA AgreeSnapshot ==
    ASSUME TypeInv, TypeInv', AgreeInv, NEW p \in Party, ExportSnapshot(p) \/ Restart(p)
    PROVE  AgreeInv'
  <1>1. /\ ses \in [Party -> Session] /\ call \in [Party -> [Slots -> Call]]
        /\ saved \in [Party -> Snapshot] /\ stale \in [Party -> BOOLEAN]
    BY DEF TypeInv, TypeOK
  <1>2. UNCHANGED <<rank, net>>
    BY DEF ExportSnapshot, Restart
  <1>3. CASE ExportSnapshot(p)
    <2>1. UNCHANGED <<ses, call, stale>>
      BY <1>3 DEF ExportSnapshot
    <2>2. /\ saved'[p].ses = ses[p]
          /\ \A q \in Party : q # p => saved'[q] = saved[q]
      BY <1>1, <1>3 DEF ExportSnapshot, SnapshotOf
    <2>3. \A q \in Party : Onward(ses[q].rs, stale[q], ses'[q].rs, stale'[q])
      BY <2>1, StatesTyped, OnwardSame
    <2>4. \A q \in Party : \/ saved'[q] = saved[q]
                           \/ saved'[q].ses.phase = "ready" => Fit(q, saved'[q].ses.rs)
      BY <2>2 DEF AgreeInv, FitStates
    <2>5. FitStates'
      BY <2>1, <2>3, <2>4, FitUpdate DEF AgreeInv
    <2>6. Silent'
      BY <2>1, <2>2 DEF AgreeInv, Silent, Party
    <2>7. Headers' /\ OneKey'
      BY <1>2, <2>1 DEF AgreeInv, Headers, OneKey, StepBase
    <2> QED BY <2>5, <2>6, <2>7 DEF AgreeInv
  <1>4. CASE Restart(p)
    <2>1. saved[p].ses.phase = "ready" /\ UNCHANGED saved
      BY <1>4 DEF Restart
    <2>2. /\ ses'[p] = saved[p].ses /\ \A q \in Party : q # p => ses'[q] = ses[q]
          /\ \A t \in Slots : call'[p][t] = Idle
          /\ \A q \in Party, t \in Slots : q # p => call'[q][t] = call[q][t]
          /\ \A q \in Party : q # p => stale'[q] = stale[q]
      BY <1>1, <1>4 DEF Restart
    <2>3. ~stale'[p] => ~stale[p] /\ ses'[p] = ses[p]
      <3>1. stale'[p] = (stale[p] \/ saved[p] # SnapshotOf(p))
        BY <1>1, <1>4, Zenon DEF Restart
      <3>2. saved[p] = SnapshotOf(p) => saved[p].ses = ses[p]
        BY DEF SnapshotOf
      <3> QED BY <2>2, <3>1, <3>2
    <2>4. ASSUME NEW q \in Party PROVE Onward(ses[q].rs, stale[q], ses'[q].rs, stale'[q])
      <3>1. Onward(ses[q].rs, stale[q], ses[q].rs, stale[q])
        BY StatesTyped, OnwardSame
      <3> QED BY <2>2, <2>3, <3>1 DEF Onward
    <2>5. \A q \in Party : \/ ses'[q] = ses[q]
                           \/ ses'[q].phase = "ready" /\ Fit(q, ses'[q].rs)
      BY <2>1, <2>2 DEF AgreeInv, FitStates
    <2>6. Idle.op = "idle" /\ "idle" \notin Active
      BY DEF Idle, Active
    <2>7. \A q \in Party, t \in Slots : call'[q][t] = call[q][t] \/ call'[q][t] = Idle
      BY <2>2
    <2>8. FitStates'
      BY <2>1, <2>4, <2>5, <2>6, <2>7, FitUpdate DEF AgreeInv
    <2>9. Silent'
      BY <2>1, <2>2, <2>6, <2>7 DEF AgreeInv, Silent, Party
    <2>10. Headers'
      BY <1>2, <2>6, <2>7 DEF AgreeInv, Headers
    <2>11. OneKey'
      <3>1. CASE p # "R"
        <4>1. /\ ses'["R"] = ses["R"] /\ stale'["R"] = stale["R"]
              /\ \A t \in Slots : call'["R"][t] = call["R"][t]
          BY <2>2, <3>1 DEF Party
        <4> QED BY <1>2, <4>1 DEF AgreeInv, OneKey, StepBase
      <3>2. CASE p = "R"
        <4>1. \A t \in Slots : call'["R"][t].op = "idle"
          BY <2>2, <2>6, <3>2
        <4> QED BY <1>2, <2>3, <2>6, <3>2, <4>1 DEF AgreeInv, OneKey, StepBase
      <3> QED BY <3>1, <3>2
    <2> QED BY <2>8, <2>9, <2>10, <2>11 DEF AgreeInv
  <1> QED BY <1>3, <1>4

LEMMA AgreeInit == Init => AgreeInv
  BY DEF Init, AgreeInv, FitStates, Silent, Headers, OneKey, NoSession, Idle, Active, Party

LEMMA AgreeNext ==
    ASSUME Serial, TypeInv, TypeInv', RootInv, KeyInv, AgreeInv, [Next]_vars
    PROVE  AgreeInv'
  <1>1. CASE UNCHANGED vars
    <2>1. UNCHANGED <<rank, ses, call, net, saved, stale>>
      BY <1>1 DEF vars, disk
    <2>2. \A q \in Party : Onward(ses[q].rs, stale[q], ses'[q].rs, stale'[q])
      BY <2>1, StatesTyped, OnwardSame
    <2>3. FitStates'
      BY <2>1, <2>2, FitUpdate DEF AgreeInv
    <2> QED BY <2>1, <2>3 DEF AgreeInv, Silent, Headers, OneKey, StepBase
  <1>2. CASE Next
    BY <1>2, AgreeEstablish, AgreeSnapshot, AgreeEncryptBegin, AgreeEncryptCommit,
       AgreeDecryptBegin, AgreeDecrypt DEF Next, CallStep
  <1> QED BY <1>1, <1>2

\* For callers that do not overlap their calls on a party, the chain one end
\* sends on is the chain the other end receives on, and the receiver is not
\* ahead, whatever the transport loses, repeats, reorders or damages: the lazy
\* step of the responder's first send and the step on the first header with its
\* key give one chain, and a restart from a current snapshot does not part them.
THEOREM EndsOnOneChain ==
    ASSUME Serial
    PROVE  Spec => []ChainAgreement
  <1> DEFINE Inv == TypeInv /\ RootInv /\ KeyInv /\ AgreeInv
  <1>1. Init => Inv
    BY TypeInit, RootInit, KeyInit, AgreeInit
  <1>2. Inv /\ [Next]_vars => Inv'
    BY TypeNext, RootNext, KeyNext, AgreeNext
  <1>3. Inv => ChainAgreement
    <2> SUFFICES ASSUME TypeInv, AgreeInv, NEW p \in Party,
                        ses[p].rs.snd # NoChain, ses[Peer(p)].rs.rcv # NoChain, ~stale[p]
                 PROVE  /\ ses[p].rs.snd.base = ses[Peer(p)].rs.rcv.base
                        /\ ses[Peer(p)].rs.rcv.n <= ses[p].rs.snd.n
      BY DEF ChainAgreement
    <2>1. PICK o \in Party : o = Peer(p)
      BY StatesTyped
    <2>2. ses[p] \in Session /\ ses[o] \in Session
      BY StatesTyped
    <2>3. ses[p] # NoSession /\ ses[o] # NoSession
      BY <2>1 DEF NoSession
    <2>4. ses[p].phase = "ready" /\ ses[o].phase = "ready"
      BY <2>2, <2>3 DEF AgreeInv, FitStates, Session
    <2>5. Fit(p, ses[p].rs) /\ Fit(o, ses[o].rs)
      BY <2>4 DEF AgreeInv, FitStates
    <2> QED BY <2>1, <2>5 DEF Fit, Fits, Peer, Party
  <1> QED BY <1>1, <1>2, <1>3, PTL DEF Spec

----------------------------------------------------------------------------
(* No plaintext is returned twice.                                         *)
(*                                                                         *)
(* A message key is a place on a chain, and the chains a receiver moves to  *)
(* have ever longer roots: Precedes orders the keys it derives.  What it    *)
(* has used and what it keeps in the store precede its receiving chain and  *)
(* are different; a decrypt in progress has moved on from the record, and   *)
(* has not touched the store unless it says so.                             *)

Reading == {"lookup", "skip", "open"}

Precedes(k, chain) ==
    \/ Len(k.base.root) < Len(chain.base.root)
    \/ k.base = chain.base /\ k.n < chain.n

NotAfter(chain, next) ==
    \/ Len(chain.base.root) < Len(next.base.root)
    \/ chain.base = next.base /\ chain.n <= next.n

Heard(p) == {m \in net : m.from = Peer(p) /\ m.id \in got[p]}

Used(p) == {m.key : m \in Heard(p)}

\* rs is the record's state, c a call in progress.
Once(rs, store, used, c) ==
    /\ Len(rs.rcv.base.root) <= Len(rs.root)
    /\ \A k \in used : Precedes(k, rs.rcv)
    /\ \A e \in store : e.mk \notin used
    /\ \A e, f \in store : e.mk = f.mk => e = f
    /\ (c.op \in Reading /\ c.stored) \/ \A e \in store : Precedes(e.mk, rs.rcv)
    /\ c.op = "encrypt" => c.rs.rcv = rs.rcv /\ Len(rs.root) <= Len(c.rs.root)
    /\ c.op \in Reading =>
          /\ Len(c.rs.rcv.base.root) <= Len(c.rs.root)
          /\ NotAfter(rs.rcv, c.rs.rcv)
          /\ \A e \in store : Precedes(e.mk, c.rs.rcv)
    /\ c.op = "open" =>
          /\ Precedes(c.mk, c.rs.rcv)
          /\ c.mk \notin used /\ \A e \in store : e.mk # c.mk

OnceOf(p) ==
    ~tainted[p] /\ ~stale[p] =>
        /\ twice[p] = {}
        /\ \A s \in Slots : Once(ses[p].rs, skipped[p], Used(p), call[p][s])

\* Envelopes are numbered, and what was returned was sent.
Numbered ==
    /\ \A m \in net : m.id < Cardinality(SentBy(m.from))
    /\ \A m1, m2 \in net : m1.from = m2.from /\ m1.id = m2.id => m1 = m2
    /\ \A p \in Party : \A i \in got[p] : \E m \in net : m.from = Peer(p) /\ m.id = i

OnceInv == Numbered /\ \A p \in Party : OnceOf(p)

LEMMA Places ==
    ASSUME NEW c \in Chain \cup {NoChain}
    PROVE  c.base \in Base /\ c.n \in Int /\ Len(c.base.root) \in Nat
  <1>1. c.base \in Base /\ c.n \in Int
    <2>1. << >> \in Root
      BY DEF Root
    <2>2. CASE c \in Chain
      BY <2>2 DEF Chain
    <2>3. CASE c = NoChain
      BY <2>1, <2>3 DEF NoChain, Base
    <2> QED BY <2>2, <2>3
  <1>2. c.base.root \in Seq(SUBSET DhKey)
    BY <1>1 DEF Base, Root
  <1> QED BY <1>1, <1>2, LenProperties

\* The order of the keys along a receiver's chains.
LEMMA PlaceOrder ==
    ASSUME NEW k \in Chain \cup {NoChain}, NEW c \in Chain \cup {NoChain},
           NEW d \in Chain \cup {NoChain}
    PROVE  /\ Precedes(k, c) /\ NotAfter(c, d) => Precedes(k, d)
           /\ NotAfter(k, c) /\ NotAfter(c, d) => NotAfter(k, d)
           /\ NotAfter(c, c) /\ ~Precedes(c, c)
  <1>1. /\ k.base \in Base /\ k.n \in Int /\ Len(k.base.root) \in Nat
        /\ c.base \in Base /\ c.n \in Int /\ Len(c.base.root) \in Nat
        /\ d.base \in Base /\ d.n \in Int /\ Len(d.base.root) \in Nat
    BY Places
  <1>2. PICK i \in Nat, j \in Nat, l \in Nat :
           i = Len(k.base.root) /\ j = Len(c.base.root) /\ l = Len(d.base.root)
    BY <1>1
  <1>3. PICK x \in Int, y \in Int, z \in Int : x = k.n /\ y = c.n /\ z = d.n
    BY <1>1
  <1>4. k.base = c.base => i = j
    BY <1>2
  <1>5. c.base = d.base => j = l
    BY <1>2
  <1>6. /\ Precedes(k, c) <=> i < j \/ (k.base = c.base /\ x < y)
        /\ Precedes(k, d) <=> i < l \/ (k.base = d.base /\ x < z)
        /\ Precedes(c, c) <=> j < j \/ (c.base = c.base /\ y < y)
        /\ NotAfter(k, c) <=> i < j \/ (k.base = c.base /\ x <= y)
        /\ NotAfter(c, d) <=> j < l \/ (c.base = d.base /\ y <= z)
        /\ NotAfter(k, d) <=> i < l \/ (k.base = d.base /\ x <= z)
        /\ NotAfter(c, c) <=> j < j \/ (c.base = c.base /\ y <= y)
    BY <1>2, <1>3 DEF Precedes, NotAfter
  <1> QED BY <1>4, <1>5, <1>6

LEMMA PlaceAdvance ==
    ASSUME NEW c \in Chain
    PROVE  /\ Advance(c) \in Chain /\ KeyAt(c) = c
           /\ Precedes(c, Advance(c)) /\ NotAfter(c, Advance(c))
  <1>1. Advance(c) \in Chain
    BY ChainFacts
  <1>2. KeyAt(c) = c
    BY DEF KeyAt, Chain
  <1>3. c.n \in Nat
    BY DEF Chain
  <1>4. Advance(c).base = c.base /\ Advance(c).n = c.n + 1
    BY DEF Advance
  <1> QED BY <1>1, <1>2, <1>3, <1>4 DEF Precedes, NotAfter

\* The state a decrypt works with is the record's, or on a chain behind one
\* more ratchet step.
LEMMA ReceiveStateMoves ==
    ASSUME NEW rs \in RatchetState, NEW m \in Envelope,
           Len(rs.rcv.base.root) <= Len(rs.root)
    PROVE  /\ ReceiveState(rs, m) \in RatchetState
           /\ Len(ReceiveState(rs, m).rcv.base.root) <= Len(ReceiveState(rs, m).root)
           /\ NotAfter(rs.rcv, ReceiveState(rs, m).rcv)
  <1>1. PICK r : r = ReceiveState(rs, m)
    OBVIOUS
  <1>2. r \in RatchetState
    BY <1>1, ReceiveStateType
  <1>3. rs.rcv \in Chain \cup {NoChain} /\ rs.root \in Seq(SUBSET DhKey)
    BY DEF RatchetState, Root
  <1>4. CASE m.dh # NoDh /\ m.dh # rs.remote
    <2>1. PICK elt : elt = {rs.self, m.dh}
      OBVIOUS
    <2>2. m.dh \in DhKey /\ rs.self \in DhKey
      BY <1>4 DEF Envelope, RatchetState
    <2>3. elt \in SUBSET DhKey
      BY <2>1, <2>2
    <2>4. r.root = Append(rs.root, elt) /\ r.rcv.base.root = Append(rs.root, elt)
      BY <1>1, <1>4, <2>1 DEF ReceiveState, RatchetStep
    <2>5. Len(Append(rs.root, elt)) = Len(rs.root) + 1 /\ Len(rs.root) \in Nat
      BY <1>3, <2>3, AppendProperties, LenProperties
    <2>6. Len(rs.rcv.base.root) \in Nat
      BY <1>3, Places
    <2>7. NotAfter(rs.rcv, r.rcv) /\ Len(r.rcv.base.root) <= Len(r.root)
      BY <2>4, <2>5, <2>6 DEF NotAfter
    <2> QED BY <1>1, <1>2, <2>7
  <1>5. CASE ~(m.dh # NoDh /\ m.dh # rs.remote)
    <2>1. r = rs
      BY <1>1, <1>5 DEF ReceiveState
    <2> QED BY <1>1, <1>2, <1>3, <2>1, PlaceOrder
  <1> QED BY <1>4, <1>5

LEMMA OnceBegins ==
    ASSUME NEW rs \in RatchetState, NEW store \in SUBSET Entry, NEW used \in SUBSET MessageKey,
           NEW c, c.op \notin Reading, Once(rs, store, used, c)
    PROVE  /\ Once(rs, store, used, Idle) /\ Once(rs, store, used, [op |-> "rotate"])
           /\ \A m \in Envelope, intact \in BOOLEAN :
                 Once(rs, store, used,
                      Decrypting("lookup", ReceiveState(rs, m), m, intact, FALSE))
           /\ \A includeDh \in BOOLEAN :
                 Once(rs, store, used,
                      [op |-> "encrypt", rs |-> SendState(rs), includeDh |-> includeDh])
  <1>1. /\ Len(rs.rcv.base.root) <= Len(rs.root)
        /\ \A k \in used : Precedes(k, rs.rcv)
        /\ \A e \in store : e.mk \notin used
        /\ \A e, f \in store : e.mk = f.mk => e = f
        /\ \A e \in store : Precedes(e.mk, rs.rcv)
    BY DEF Once
  <1>2. Once(rs, store, used, Idle) /\ Once(rs, store, used, [op |-> "rotate"])
    BY <1>1 DEF Once, Idle, Reading
  <1>3. ASSUME NEW m \in Envelope, NEW intact \in BOOLEAN
        PROVE  Once(rs, store, used, Decrypting("lookup", ReceiveState(rs, m), m, intact, FALSE))
    <2>1. PICK r : r = ReceiveState(rs, m)
      OBVIOUS
    <2>2. PICK d : d = Decrypting("lookup", r, m, intact, FALSE)
      OBVIOUS
    <2>3. d.op = "lookup" /\ d.rs = r /\ ~d.stored
      BY <2>2 DEF Decrypting
    <2>4. /\ r \in RatchetState /\ Len(r.rcv.base.root) <= Len(r.root)
          /\ NotAfter(rs.rcv, r.rcv)
      BY <1>1, <2>1, ReceiveStateMoves
    <2>5. rs.rcv \in Chain \cup {NoChain} /\ r.rcv \in Chain \cup {NoChain}
      BY <2>4 DEF RatchetState
    <2>6. \A e \in store : e.mk \in Chain
      BY ChainFacts DEF Entry
    <2>7. \A e \in store : Precedes(e.mk, r.rcv)
      BY <1>1, <2>4, <2>5, <2>6, PlaceOrder
    <2>8. Once(rs, store, used, d)
      BY <1>1, <2>3, <2>4, <2>7 DEF Once, Reading
    <2> QED BY <2>1, <2>2, <2>8
  <1>4. ASSUME NEW includeDh \in BOOLEAN
        PROVE  Once(rs, store, used,
                    [op |-> "encrypt", rs |-> SendState(rs), includeDh |-> includeDh])
    <2>1. PICK r : r = SendState(rs)
      OBVIOUS
    <2>2. r.rcv = rs.rcv
      BY <2>1, SendStateType
    <2>3. rs.root \in Seq(SUBSET DhKey) /\ Len(rs.root) \in Nat
      BY LenProperties DEF RatchetState, Root
    <2>4. Len(rs.root) <= Len(r.root)
      <3>1. CASE rs.snd # NoChain
        BY <2>1, <2>3, <3>1 DEF SendState
      <3>2. CASE rs.snd = NoChain
        <4>1. PICK elt : elt = {rs.self, rs.remote}
          OBVIOUS
        <4>2. elt \in SUBSET DhKey
          BY <4>1 DEF RatchetState
        <4>3. r.root = Append(rs.root, elt)
          BY <2>1, <3>2, <4>1 DEF SendState, RatchetStep
        <4>4. Len(r.root) = Len(rs.root) + 1
          BY <2>3, <4>2, <4>3, AppendProperties
        <4> QED BY <2>3, <4>4
      <3> QED BY <3>1, <3>2
    <2> QED BY <1>1, <2>1, <2>2, <2>4 DEF Once, Reading
  <1> QED BY <1>2, <1>3, <1>4

\* A decrypt that throws without having touched the store.
LEMMA OnceThrows ==
    ASSUME NEW rs \in RatchetState, NEW store \in SUBSET Entry, NEW used \in SUBSET MessageKey,
           NEW c, ~(c.op \in Reading /\ c.stored), Once(rs, store, used, c)
    PROVE  Once(rs, store, used, Idle)
  BY DEF Once, Idle, Reading

\* A key that was stored is taken.
LEMMA OnceTakes ==
    ASSUME NEW rs \in RatchetState, NEW store \in SUBSET Entry, NEW used \in SUBSET MessageKey,
           NEW c, c.op = "lookup", Once(rs, store, used, c),
           NEW found \in SUBSET store, NEW e \in found, NEW d,
           d.op = "open", d.rs = c.rs, d.stored, d.mk = e.mk
    PROVE  Once(rs, store \ found, used, d)
  <1>1. e \in store
    OBVIOUS
  <1>2. \A x \in store \ found : x \in store /\ x # e
    OBVIOUS
  <1> QED BY <1>1, <1>2 DEF Once, Reading

LEMMA OnceGoesOn ==
    ASSUME NEW rs \in RatchetState, NEW store \in SUBSET Entry, NEW used \in SUBSET MessageKey,
           NEW c, c.op = "lookup", Once(rs, store, used, c),
           NEW d, d.op = "skip", d.rs = c.rs, d.stored = c.stored
    PROVE  Once(rs, store, used, d)
  BY DEF Once, Reading

\* The next key of the chain is stored.
LEMMA OnceStores ==
    ASSUME NEW rs \in RatchetState, NEW store \in SUBSET Entry, NEW used \in SUBSET MessageKey,
           NEW c, c.op = "skip", c.rs \in ReceivingState, Once(rs, store, used, c),
           NEW d, d.op = "skip", d.rs = SetReceiving(c.rs, Advance(c.rs.rcv)), d.stored
    PROVE  Once(rs, SkippedSet(store, c.rs.remote, c.rs.rcv.n, KeyAt(c.rs.rcv)), used, d)
  <1>1. PICK k \in Chain : k = c.rs.rcv
    BY DEF ReceivingState
  <1>2. /\ Advance(k) \in Chain /\ KeyAt(k) = k
        /\ Precedes(k, Advance(k)) /\ NotAfter(k, Advance(k))
    BY PlaceAdvance
  <1>3. d.rs.rcv = Advance(k) /\ d.rs.root = c.rs.root
    BY <1>1 DEF SetReceiving, ReceivingState, RatchetState
  <1>4. rs.rcv \in Chain \cup {NoChain}
    BY DEF RatchetState
  <1>5. \A e \in store : e.mk \in Chain
    BY ChainFacts DEF Entry
  <1>6. \A e \in store : Precedes(e.mk, k)
    BY <1>1 DEF Once, Reading
  <1>7. \A e \in store : Precedes(e.mk, Advance(k)) /\ e.mk # k
    BY <1>2, <1>5, <1>6, PlaceOrder
  <1>8. NotAfter(rs.rcv, k)
    BY <1>1 DEF Once, Reading
  <1>9. NotAfter(rs.rcv, Advance(k))
    BY <1>2, <1>4, <1>8, PlaceOrder
  <1>10. k \notin used
    <2>1. SUFFICES ASSUME k \in used PROVE FALSE
      OBVIOUS
    <2>2. Precedes(k, rs.rcv)
      BY <2>1 DEF Once
    <2> QED BY <1>4, <1>8, <2>2, PlaceOrder
  <1>11. PICK new : new = [dh |-> c.rs.remote, n |-> k.n, mk |-> k]
    OBVIOUS
  <1>12. PICK next : next = SkippedSet(store, c.rs.remote, k.n, k)
    OBVIOUS
  <1>13. \A e \in next : e \in store \/ e = new
    BY <1>11, <1>12 DEF SkippedSet
  <1>14. Len(d.rs.rcv.base.root) <= Len(d.rs.root)
    <2>1. d.rs.rcv.base = c.rs.rcv.base
      BY <1>1, <1>3 DEF Advance
    <2>2. Len(c.rs.rcv.base.root) <= Len(c.rs.root)
      BY DEF Once, Reading
    <2> QED BY <1>3, <2>1, <2>2
  <1>15. \A e \in next : Precedes(e.mk, Advance(k)) /\ e.mk \notin used
    BY <1>2, <1>7, <1>10, <1>11, <1>13 DEF Once
  <1>16. \A e, f \in next : e.mk = f.mk => e = f
    BY <1>7, <1>11, <1>13 DEF Once
  <1>17. Once(rs, next, used, d)
    BY <1>3, <1>9, <1>14, <1>15, <1>16 DEF Once, Reading
  <1> QED BY <1>1, <1>2, <1>12, <1>17

\* The message's own key is derived.
LEMMA OnceDerives ==
    ASSUME NEW rs \in RatchetState, NEW store \in SUBSET Entry, NEW used \in SUBSET MessageKey,
           NEW c, c.op = "skip", c.rs \in ReceivingState, Once(rs, store, used, c),
           NEW d, d.op = "open", d.rs = SetReceiving(c.rs, Advance(c.rs.rcv)),
           d.stored = c.stored, d.mk = KeyAt(c.rs.rcv)
    PROVE  Once(rs, store, used, d)
  <1>1. PICK k \in Chain : k = c.rs.rcv
    BY DEF ReceivingState
  <1>2. /\ Advance(k) \in Chain /\ KeyAt(k) = k
        /\ Precedes(k, Advance(k)) /\ NotAfter(k, Advance(k))
    BY PlaceAdvance
  <1>3. d.rs.rcv = Advance(k) /\ d.rs.root = c.rs.root
    BY <1>1 DEF SetReceiving, ReceivingState, RatchetState
  <1>4. rs.rcv \in Chain \cup {NoChain}
    BY DEF RatchetState
  <1>5. \A e \in store : e.mk \in Chain
    BY ChainFacts DEF Entry
  <1>6. \A e \in store : Precedes(e.mk, k)
    BY <1>1 DEF Once, Reading
  <1>7. \A e \in store : Precedes(e.mk, Advance(k)) /\ e.mk # k
    BY <1>2, <1>5, <1>6, PlaceOrder
  <1>8. NotAfter(rs.rcv, k)
    BY <1>1 DEF Once, Reading
  <1>9. NotAfter(rs.rcv, Advance(k))
    BY <1>2, <1>4, <1>8, PlaceOrder
  <1>10. k \notin used
    <2>1. SUFFICES ASSUME k \in used PROVE FALSE
      OBVIOUS
    <2>2. Precedes(k, rs.rcv)
      BY <2>1 DEF Once
    <2> QED BY <1>4, <1>8, <2>2, PlaceOrder
  <1>11. Len(d.rs.rcv.base.root) <= Len(d.rs.root)
    <2>1. d.rs.rcv.base = c.rs.rcv.base
      BY <1>1, <1>3 DEF Advance
    <2>2. Len(c.rs.rcv.base.root) <= Len(c.rs.root)
      BY DEF Once, Reading
    <2> QED BY <1>3, <2>1, <2>2
  <1> QED BY <1>1, <1>2, <1>3, <1>7, <1>9, <1>10, <1>11 DEF Once, Reading

\* The decrypt commits its state and its key is used.
LEMMA OnceCommits ==
    ASSUME NEW rs \in RatchetState, NEW store \in SUBSET Entry, NEW used \in SUBSET MessageKey,
           NEW c, c.op = "open", c.rs \in RatchetState, Once(rs, store, used, c)
    PROVE  Once(c.rs, store, used \cup {c.mk}, Idle)
  <1>1. rs.rcv \in Chain \cup {NoChain} /\ c.rs.rcv \in Chain \cup {NoChain}
    BY DEF RatchetState
  <1>2. \A k \in used : k \in Chain
    BY ChainFacts
  <1>3. \A k \in used : Precedes(k, c.rs.rcv)
    BY <1>1, <1>2, PlaceOrder DEF Once, Reading
  <1> QED BY <1>3 DEF Once, Reading, Idle

\* An encryption commits: the receiving chain stays.
LEMMA OnceSends ==
    ASSUME NEW rs \in RatchetState, NEW store \in SUBSET Entry, NEW used \in SUBSET MessageKey,
           NEW c, c.op = "encrypt", c.rs \in RatchetState, c.rs.snd \in Chain,
           Once(rs, store, used, c)
    PROVE  Once(SetSending(c.rs, Advance(c.rs.snd)), store, used, Idle)
  <1>1. PICK r : r = SetSending(c.rs, Advance(c.rs.snd))
    OBVIOUS
  <1>2. r.rcv = c.rs.rcv /\ r.root = c.rs.root
    BY <1>1 DEF SetSending, RatchetState
  <1>3. c.rs.rcv = rs.rcv /\ Len(rs.root) <= Len(c.rs.root)
        /\ Len(rs.rcv.base.root) <= Len(rs.root)
    BY DEF Once
  <1>4. Len(rs.rcv.base.root) \in Nat /\ Len(rs.root) \in Nat /\ Len(c.rs.root) \in Nat
    BY Places, LenProperties DEF RatchetState, Root
  <1>5. Len(r.rcv.base.root) <= Len(r.root)
    BY <1>2, <1>3, <1>4
  <1>6. Once(r, store, used, Idle)
    BY <1>2, <1>3, <1>5 DEF Once, Reading, Idle
  <1> QED BY <1>1, <1>6

\* What changes the envelopes sent and the plaintexts returned.
LEMMA SentOrReturned ==
    ASSUME [Next]_vars
    PROVE  \/ UNCHANGED <<net, got>>
           \/ \E p \in Party, s \in Slots :
                 \/ EncryptCommit(p, s)
                 \/ /\ call[p][s].op = "open" /\ call[p][s].mk = call[p][s].m.key
                    /\ got' = [got EXCEPT ![p] = @ \cup {call[p][s].m.id}]
                    /\ UNCHANGED net
  <1>1. CASE UNCHANGED vars
    BY <1>1 DEF vars, history
  <1>2. CASE EstablishInitiatorSession \/ \E s \in Slots : CreateResponderSession(s) \/ RotateDh(s)
    BY <1>2 DEF EstablishInitiatorSession, CreateResponderSession, RotateDh, history
  <1>3. CASE \E p \in Party : ExportSnapshot(p) \/ Restart(p)
    BY <1>3 DEF ExportSnapshot, Restart, history
  <1>4. ASSUME NEW p \in Party, NEW s \in Slots,
               \/ EncryptBegin(p, s) \/ DecryptLookup(p, s) \/ DecryptSkip(p, s)
               \/ \E m \in net, intact \in BOOLEAN : DecryptBegin(p, s, m, intact)
        PROVE  UNCHANGED <<net, got>>
    BY <1>4 DEF EncryptBegin, DecryptLookup, DecryptSkip, DecryptBegin, Throw, history
  <1>5. ASSUME NEW p \in Party, NEW s \in Slots, DecryptOpen(p, s)
        PROVE  \/ UNCHANGED <<net, got>>
               \/ /\ call[p][s].op = "open" /\ call[p][s].mk = call[p][s].m.key
                  /\ got' = [got EXCEPT ![p] = @ \cup {call[p][s].m.id}]
                  /\ UNCHANGED net
    BY <1>5 DEF DecryptOpen, OpenAndCommit, Throw
  <1> QED
    BY <1>1, <1>2, <1>3, <1>4, <1>5 DEF Next, CallStep

LEMMA NumberedNext ==
    ASSUME TypeInv, AgreeInv, Numbered, [Next]_vars
    PROVE  Numbered'
  <1>1. CASE UNCHANGED <<net, got>>
    BY <1>1 DEF Numbered, SentBy
  <1>2. ASSUME NEW p \in Party, NEW s \in Slots, EncryptCommit(p, s)
        PROVE  Numbered'
    <2>1. PICK x : x = Seal(p, call[p][s])
      OBVIOUS
    <2>2. net' = net \cup {x} /\ UNCHANGED got
      BY <1>2, <2>1 DEF EncryptCommit, history
    <2>3. x.from = p /\ x.id = Cardinality(SentBy(p))
      BY <2>1 DEF Seal
    <2>4. \A q \in Party : IsFiniteSet(SentBy(q)) /\ Cardinality(SentBy(q)) \in Nat
      BY FS_Subset, FS_CardinalityType DEF SentBy, TypeInv
    <2>5. \A m \in net : m.from = p => m.id < Cardinality(SentBy(p)) /\ m.id \in Nat /\ m.id # x.id
      <3>1. \A m \in net : m.id \in Nat
        BY DEF TypeInv, TypeOK, Envelope
      <3> QED BY <2>3, <2>4, <3>1 DEF Numbered
    <2>6. x \notin SentBy(p)
      BY <2>5 DEF SentBy
    <2>7. Cardinality(SentBy(p) \cup {x}) = Cardinality(SentBy(p)) + 1
      BY <2>4, <2>6, FS_AddElement
    <2>8. \A q \in Party : q # p => SentBy(q)' = SentBy(q)
      BY <2>2, <2>3 DEF SentBy
    <2>9. \A m \in net' : m.id < Cardinality(SentBy(m.from)')
      <3> SUFFICES ASSUME NEW m \in net' PROVE m.id < Cardinality(SentBy(m.from)')
        OBVIOUS
      <3>0. m.from = p => Cardinality(SentBy(m.from)') = Cardinality(SentBy(p)) + 1
        <4>1. m.from = p => SentBy(m.from)' = SentBy(p) \cup {x}
          BY <2>2, <2>3 DEF SentBy
        <4> QED BY <2>7, <4>1
      <3>1. CASE m = x
        BY <2>3, <2>4, <3>0, <3>1
      <3>2. CASE m \in net /\ m.from = p
        <4>1. m.id < Cardinality(SentBy(p)) /\ m.id \in Nat
          BY <2>5, <3>2
        <4> QED BY <2>4, <3>0, <3>2, <4>1
      <3>3. CASE m \in net /\ m.from # p
        <4>1. m.from \in Party
          BY <3>3 DEF TypeInv, TypeOK, Envelope
        <4>2. SentBy(m.from)' = SentBy(m.from)
          BY <2>8, <3>3, <4>1
        <4>3. m.id < Cardinality(SentBy(m.from))
          BY <3>3 DEF Numbered
        <4> QED BY <4>2, <4>3
      <3> QED BY <2>2, <3>1, <3>2, <3>3
    <2>10. \A m1, m2 \in net' : m1.from = m2.from /\ m1.id = m2.id => m1 = m2
      BY <2>2, <2>3, <2>5 DEF Numbered
    <2>11. \A q \in Party : \A i \in got'[q] : \E m \in net' : m.from = Peer(q) /\ m.id = i
      BY <2>2 DEF Numbered
    <2> QED BY <2>9, <2>10, <2>11 DEF Numbered
  <1>3. ASSUME NEW p \in Party, NEW s \in Slots, call[p][s].op = "open",
               got' = [got EXCEPT ![p] = @ \cup {call[p][s].m.id}], UNCHANGED net
        PROVE  Numbered'
    <2>1. call[p][s].m \in net /\ call[p][s].m.from = Peer(p)
      BY <1>3 DEF AgreeInv, Headers
    <2>2. got \in [Party -> SUBSET Nat]
      BY DEF TypeInv, TypeOK
    <2>3. \A q \in Party : \A i \in got'[q] : i \in got[q] \/ (q = p /\ i = call[p][s].m.id)
      BY <1>3, <2>2
    <2> QED BY <1>3, <2>1, <2>3 DEF Numbered, SentBy
  <1> QED BY <1>1, <1>2, <1>3, SentOrReturned

LEMMA UsedTyped ==
    ASSUME TypeInv, NEW p \in Party
    PROVE  Used(p) \in SUBSET MessageKey /\ skipped[p] \in SUBSET Entry /\ Heard(p) \subseteq Envelope
  BY DEF TypeInv, TypeOK, Used, Heard, Envelope

\* An envelope just sent has not been returned.
LEMMA HeardKept ==
    ASSUME TypeInv, Numbered, NEW p \in Party, got'[p] = got[p],
           \/ net' = net
           \/ \E q \in Party, s \in Slots : EncryptCommit(q, s)
    PROVE  Heard(p)' = Heard(p) /\ Used(p)' = Used(p)
  <1>1. CASE net' = net
    BY <1>1 DEF Heard, Used
  <1>2. ASSUME NEW q \in Party, NEW s \in Slots, EncryptCommit(q, s)
        PROVE  Heard(p)' = Heard(p)
    <2>1. PICK x : x = Seal(q, call[q][s])
      OBVIOUS
    <2>2. net' = net \cup {x}
      BY <1>2, <2>1 DEF EncryptCommit
    <2>3. x.from = q /\ x.id = Cardinality(SentBy(q))
      BY <2>1 DEF Seal
    <2>4. Cardinality(SentBy(q)) \in Nat
      BY FS_Subset, FS_CardinalityType DEF SentBy, TypeInv
    <2>5. \A m \in net : m.from = q => m.id # x.id
      <3>1. \A m \in net : m.id \in Nat
        BY DEF TypeInv, TypeOK, Envelope
      <3> QED BY <2>3, <2>4, <3>1 DEF Numbered
    <2>6. ~(x.from = Peer(p) /\ x.id \in got[p])
      BY <2>3, <2>5 DEF Numbered
    <2> QED BY <2>2, <2>6 DEF Heard
  <1>3. Heard(p)' = Heard(p)
    BY <1>1, <1>2
  <1> QED BY <1>3 DEF Used

LEMMA HeardMore ==
    ASSUME TypeInv, AgreeInv, Numbered, NEW p \in Party, NEW s \in Slots,
           call[p][s].op = "open",
           got' = [got EXCEPT ![p] = @ \cup {call[p][s].m.id}], net' = net
    PROVE  /\ Heard(p)' = Heard(p) \cup {call[p][s].m}
           /\ Used(p)' = Used(p) \cup {call[p][s].m.key}
           /\ call[p][s].m.id \in got[p] => call[p][s].m.key \in Used(p)
  <1>1. call[p][s].m \in net /\ call[p][s].m.from = Peer(p)
    BY DEF AgreeInv, Headers
  <1>2. got'[p] = got[p] \cup {call[p][s].m.id}
    BY DEF TypeInv, TypeOK
  <1>3. \A m \in net : m.from = Peer(p) /\ m.id = call[p][s].m.id => m = call[p][s].m
    BY <1>1 DEF Numbered
  <1>4. Heard(p)' = Heard(p) \cup {call[p][s].m}
    BY <1>1, <1>2, <1>3 DEF Heard
  <1>5. Used(p)' = Used(p) \cup {call[p][s].m.key}
    BY <1>4 DEF Used
  <1>6. call[p][s].m.id \in got[p] => call[p][s].m.key \in Used(p)
    BY <1>1 DEF Used, Heard
  <1> QED BY <1>4, <1>5, <1>6

\* What the later steps of decryptPayload do at the party that takes them: it
\* throws, takes a stored key, goes on to skip, stores the next key, derives
\* the message's own, or commits.
Throws(p, s) ==
    /\ call'[p][s] = Idle /\ tainted'[p] = (tainted[p] \/ call[p][s].stored)
    /\ UNCHANGED <<ses, skipped, got, twice>>

Takes(p, s) ==
    /\ call[p][s].op = "lookup" /\ tainted'[p] = tainted[p]
    /\ \E e \in SkippedAt(skipped[p], call[p][s].rs.remote, call[p][s].m.n) :
          /\ call'[p][s].op = "open" /\ call'[p][s].rs = call[p][s].rs
          /\ call'[p][s].stored /\ call'[p][s].mk = e.mk
    /\ skipped'[p] = skipped[p] \ SkippedAt(skipped[p], call[p][s].rs.remote, call[p][s].m.n)
    /\ UNCHANGED <<ses, got, twice>>

GoesOn(p, s) ==
    /\ call[p][s].op = "lookup" /\ tainted'[p] = tainted[p]
    /\ call'[p][s].op = "skip" /\ call'[p][s].rs = call[p][s].rs
    /\ call'[p][s].stored = call[p][s].stored
    /\ UNCHANGED <<ses, skipped, got, twice>>

Stores(p, s) ==
    /\ call[p][s].op = "skip" /\ call[p][s].rs \in ReceivingState /\ tainted'[p] = tainted[p]
    /\ call'[p][s].op = "skip" /\ call'[p][s].stored
    /\ call'[p][s].rs = SetReceiving(call[p][s].rs, Advance(call[p][s].rs.rcv))
    /\ skipped'[p] = SkippedSet(skipped[p], call[p][s].rs.remote, call[p][s].rs.rcv.n,
                                KeyAt(call[p][s].rs.rcv))
    /\ UNCHANGED <<ses, got, twice>>

Derives(p, s) ==
    /\ call[p][s].op = "skip" /\ call[p][s].rs \in ReceivingState /\ tainted'[p] = tainted[p]
    /\ call'[p][s].op = "open" /\ call'[p][s].stored = call[p][s].stored
    /\ call'[p][s].rs = SetReceiving(call[p][s].rs, Advance(call[p][s].rs.rcv))
    /\ call'[p][s].mk = KeyAt(call[p][s].rs.rcv)
    /\ UNCHANGED <<ses, skipped, got, twice>>

Commits(p, s) ==
    /\ call[p][s].op = "open" /\ call[p][s].rs \in RatchetState
    /\ call[p][s].mk = call[p][s].m.key
    /\ call'[p][s] = Idle /\ tainted'[p] = tainted[p]
    /\ ses'[p].rs = call[p][s].rs
    /\ got' = [got EXCEPT ![p] = @ \cup {call[p][s].m.id}]
    /\ twice'[p] = twice[p] \cup (got[p] \cap {call[p][s].m.id})
    /\ UNCHANGED skipped

LEMMA DecryptKinds ==
    ASSUME TypeInv, NEW p \in Party, NEW s \in Slots,
           DecryptLookup(p, s) \/ DecryptSkip(p, s) \/ DecryptOpen(p, s)
    PROVE  /\ \/ Throws(p, s) \/ Takes(p, s) \/ GoesOn(p, s)
              \/ Stores(p, s) \/ Derives(p, s) \/ Commits(p, s)
           /\ UNCHANGED <<net, stale>>
           /\ \A q \in Party : q # p =>
                 /\ ses'[q] = ses[q] /\ skipped'[q] = skipped[q] /\ got'[q] = got[q]
                 /\ twice'[q] = twice[q] /\ tainted'[q] = tainted[q]
                 /\ \A t \in Slots : call'[q][t] = call[q][t]
  <1>0. PICK c \in Call : c = call[p][s]
    BY DEF TypeInv, TypeOK
  <1>1. /\ call \in [Party -> [Slots -> Call]] /\ ses \in [Party -> Session]
        /\ skipped \in [Party -> SUBSET Entry] /\ got \in [Party -> SUBSET Nat]
        /\ twice \in [Party -> SUBSET Nat] /\ tainted \in [Party -> BOOLEAN]
    BY DEF TypeInv, TypeOK
  <1>2. ASSUME NEW d, call' = [call EXCEPT ![p][s] = d]
        PROVE  /\ call'[p][s] = d
               /\ \A q \in Party, t \in Slots : q # p => call'[q][t] = call[q][t]
    BY <1>1, <1>2
  <1>3. UNCHANGED <<net, stale>>
    BY DecryptMoves DEF disk
  <1>4. CASE Throw(p, s)
    BY <1>1, <1>2, <1>3, <1>4 DEF Throw, Throws
  <1>5. ASSUME UNCHANGED <<ses, history>>,
               NEW v, skipped' = [skipped EXCEPT ![p] = v] \/ (v = skipped[p] /\ UNCHANGED skipped),
               NEW d, call' = [call EXCEPT ![p][s] = d]
        PROVE  /\ skipped'[p] = v /\ call'[p][s] = d /\ tainted'[p] = tainted[p]
               /\ UNCHANGED <<ses, got, twice>>
               /\ \A q \in Party : q # p =>
                     /\ ses'[q] = ses[q] /\ skipped'[q] = skipped[q] /\ got'[q] = got[q]
                     /\ twice'[q] = twice[q] /\ tainted'[q] = tainted[q]
                     /\ \A t \in Slots : call'[q][t] = call[q][t]
    BY <1>1, <1>2, <1>5 DEF history
  <1>6. CASE DecryptLookup(p, s)
    <2>1. PICK found : found = SkippedAt(skipped[p], c.rs.remote, c.m.n)
      OBVIOUS
    <2>2. ASSUME NEW e \in found, c.op = "lookup",
                 skipped' = [skipped EXCEPT ![p] = @ \ found],
                 call' = [call EXCEPT ![p][s] =
                            [op |-> "open", rs |-> c.rs, m |-> c.m, intact |-> c.intact,
                             stored |-> TRUE, mk |-> e.mk]],
                 UNCHANGED <<rank, ses, net, history, disk>>
          PROVE  /\ Takes(p, s)
                 /\ \A q \in Party : q # p =>
                     /\ ses'[q] = ses[q] /\ skipped'[q] = skipped[q] /\ got'[q] = got[q]
                     /\ twice'[q] = twice[q] /\ tainted'[q] = tainted[q]
                     /\ \A t \in Slots : call'[q][t] = call[q][t]
      <3>1. PICK d : d = [op |-> "open", rs |-> c.rs, m |-> c.m, intact |-> c.intact,
                          stored |-> TRUE, mk |-> e.mk]
        OBVIOUS
      <3>2. d.op = "open" /\ d.rs = c.rs /\ d.stored /\ d.mk = e.mk
        BY <3>1
      <3>3. UNCHANGED <<ses, history>> /\ skipped' = [skipped EXCEPT ![p] = skipped[p] \ found]
            /\ call' = [call EXCEPT ![p][s] = d]
        BY <2>2, <3>1
      <3>4. /\ skipped'[p] = skipped[p] \ found /\ call'[p][s] = d /\ tainted'[p] = tainted[p]
            /\ UNCHANGED <<ses, got, twice>>
            /\ \A q \in Party : q # p =>
                     /\ ses'[q] = ses[q] /\ skipped'[q] = skipped[q] /\ got'[q] = got[q]
                     /\ twice'[q] = twice[q] /\ tainted'[q] = tainted[q]
                     /\ \A t \in Slots : call'[q][t] = call[q][t]
        BY <1>5, <3>3
      <3>5. Takes(p, s)
        BY <1>0, <2>1, <2>2, <3>2, <3>4 DEF Takes
      <3> QED BY <3>4, <3>5
    <2>3. ASSUME c.op = "lookup",
                 call' = [call EXCEPT ![p][s] =
                            Decrypting("skip", c.rs, c.m, c.intact, c.stored)],
                 UNCHANGED <<rank, ses, skipped, net, history, disk>>
          PROVE  /\ GoesOn(p, s)
                 /\ \A q \in Party : q # p =>
                     /\ ses'[q] = ses[q] /\ skipped'[q] = skipped[q] /\ got'[q] = got[q]
                     /\ twice'[q] = twice[q] /\ tainted'[q] = tainted[q]
                     /\ \A t \in Slots : call'[q][t] = call[q][t]
      <3>1. PICK d : d = Decrypting("skip", c.rs, c.m, c.intact, c.stored)
        OBVIOUS
      <3>2. d.op = "skip" /\ d.rs = c.rs /\ d.stored = c.stored
        BY <3>1 DEF Decrypting
      <3>3. UNCHANGED <<ses, history>> /\ call' = [call EXCEPT ![p][s] = d] /\ UNCHANGED skipped
        BY <2>3, <3>1
      <3>4. /\ call'[p][s] = d /\ tainted'[p] = tainted[p]
            /\ UNCHANGED <<ses, got, twice>>
            /\ \A q \in Party : q # p =>
                     /\ ses'[q] = ses[q] /\ skipped'[q] = skipped[q] /\ got'[q] = got[q]
                     /\ twice'[q] = twice[q] /\ tainted'[q] = tainted[q]
                     /\ \A t \in Slots : call'[q][t] = call[q][t]
        BY <1>5, <3>3
      <3>5. GoesOn(p, s)
        BY <1>0, <2>3, <3>2, <3>3, <3>4 DEF GoesOn
      <3> QED BY <3>4, <3>5
    <2>4. \/ Throw(p, s)
          \/ /\ c.op = "lookup" /\ UNCHANGED <<rank, ses, net, history, disk>>
             /\ \/ /\ skipped' = [skipped EXCEPT ![p] = @ \ found]
                   /\ \E e \in found : call' = [call EXCEPT ![p][s] =
                            [op |-> "open", rs |-> c.rs, m |-> c.m, intact |-> c.intact,
                             stored |-> TRUE, mk |-> e.mk]]
                \/ /\ call' = [call EXCEPT ![p][s] =
                            Decrypting("skip", c.rs, c.m, c.intact, c.stored)]
                   /\ UNCHANGED skipped
      BY <1>0, <1>6, <2>1, Zenon DEF DecryptLookup
    <2> QED BY <1>3, <1>4, <2>2, <2>3, <2>4
  <1>7. CASE DecryptSkip(p, s)
    <2>1. c \in SkipCall /\ c.op = "skip"
      BY <1>0, <1>7, CallKinds DEF DecryptSkip
    <2>2. c.rs \in ReceivingState
      BY <2>1 DEF SkipCall
    <2>3. PICK r : r = SetReceiving(c.rs, Advance(c.rs.rcv))
      OBVIOUS
    <2>4. CASE /\ skipped' = [skipped EXCEPT ![p] =
                                 SkippedSet(@, c.rs.remote, c.rs.rcv.n, KeyAt(c.rs.rcv))]
               /\ call' = [call EXCEPT ![p][s] = Decrypting("skip", r, c.m, c.intact, TRUE)]
               /\ UNCHANGED <<rank, ses, net, history, disk>>
      <3>1. PICK d : d = Decrypting("skip", r, c.m, c.intact, TRUE)
        OBVIOUS
      <3>2. d.op = "skip" /\ d.rs = r /\ d.stored
        BY <3>1 DEF Decrypting
      <3>3. UNCHANGED <<ses, history>> /\ call' = [call EXCEPT ![p][s] = d]
            /\ skipped' = [skipped EXCEPT ![p] =
                   SkippedSet(skipped[p], c.rs.remote, c.rs.rcv.n, KeyAt(c.rs.rcv))]
        BY <2>4, <3>1
      <3> QED BY <1>0, <1>3, <1>5, <2>1, <2>2, <2>3, <3>2, <3>3 DEF Stores
    <2>5. CASE /\ call' = [call EXCEPT ![p][s] =
                             [op |-> "open", rs |-> r, m |-> c.m, intact |-> c.intact,
                              stored |-> c.stored, mk |-> KeyAt(c.rs.rcv)]]
               /\ UNCHANGED <<rank, ses, skipped, net, history, disk>>
      <3>1. PICK d : d = [op |-> "open", rs |-> r, m |-> c.m, intact |-> c.intact,
                          stored |-> c.stored, mk |-> KeyAt(c.rs.rcv)]
        OBVIOUS
      <3>2. d.op = "open" /\ d.rs = r /\ d.stored = c.stored /\ d.mk = KeyAt(c.rs.rcv)
        BY <3>1
      <3> QED BY <1>0, <1>3, <1>5, <2>1, <2>2, <2>3, <2>5, <3>1, <3>2 DEF Derives
    <2> QED
      BY <1>0, <1>3, <1>4, <1>7, <2>3, <2>4, <2>5, Zenon DEF DecryptSkip
  <1>8. CASE DecryptOpen(p, s)
    <2>1. c \in OpenCall /\ c.op = "open"
      BY <1>0, <1>8, CallKinds DEF DecryptOpen, OpenAndCommit
    <2>2. c.rs \in RatchetState
      BY <2>1 DEF OpenCall, ReceivingState
    <2>3. CASE /\ c.mk = c.m.key
               /\ ses' = [ses EXCEPT ![p] = Record(c.rs, ses[p].includeDh)]
               /\ got' = [got EXCEPT ![p] = @ \cup {c.m.id}]
               /\ twice' = [twice EXCEPT ![p] = @ \cup (got[p] \cap {c.m.id})]
               /\ call' = [call EXCEPT ![p][s] = Idle]
               /\ UNCHANGED <<rank, skipped, net, tainted, disk>>
      <3>1. ses'[p].rs = c.rs /\ twice'[p] = twice[p] \cup (got[p] \cap {c.m.id})
            /\ \A q \in Party : q # p => /\ ses'[q] = ses[q] /\ got'[q] = got[q]
                                         /\ twice'[q] = twice[q]
        BY <1>1, <2>3 DEF Record
      <3>2. call'[p][s] = Idle
            /\ \A q \in Party, t \in Slots : q # p => call'[q][t] = call[q][t]
        BY <1>2, <2>3
      <3> QED BY <1>0, <1>3, <2>1, <2>2, <2>3, <3>1, <3>2 DEF Commits
    <2> QED
      BY <1>0, <1>3, <1>4, <1>8, <2>3, Zenon DEF DecryptOpen, OpenAndCommit
  <1> QED BY <1>6, <1>7, <1>8

LEMMA OnceUntouched ==
    ASSUME NEW p \in Party, OnceOf(p), ses'[p].rs = ses[p].rs, skipped'[p] = skipped[p],
           Used(p)' = Used(p), twice'[p] = twice[p], tainted'[p] = tainted[p],
           stale'[p] = stale[p], \A s \in Slots : call'[p][s] = call[p][s]
    PROVE  OnceOf(p)'
  BY DEF OnceOf

LEMMA OnceDecrypt ==
    ASSUME Serial, TypeInv, AgreeInv, Numbered, NEW p \in Party, NEW s \in Slots,
           DecryptLookup(p, s) \/ DecryptSkip(p, s) \/ DecryptOpen(p, s), OnceOf(p)
    PROVE  OnceOf(p)'
  <1> SUFFICES ASSUME ~tainted'[p], ~stale'[p]
               PROVE  /\ twice'[p] = {}
                      /\ \A t \in Slots : Once(ses'[p].rs, skipped'[p], Used(p)', call'[p][t])
    BY DEF OnceOf
  <1>1. PICK c \in Call : c = call[p][s]
    BY DEF TypeInv, TypeOK
  <1>2. PICK rs \in RatchetState : rs = ses[p].rs
    BY StatesTyped
  <1>3. PICK store \in SUBSET Entry : store = skipped[p]
    BY UsedTyped
  <1>4. PICK used \in SUBSET MessageKey : used = Used(p)
    BY UsedTyped
  <1>5. UNCHANGED <<net, stale>> /\ c.op \in Reading
    BY <1>1, DecryptKinds, DecryptMoves DEF Reading
  <1>6. ~tainted[p] /\ ~stale[p]
    BY <1>5, DecryptKinds DEF Throws, Takes, GoesOn, Stores, Derives, Commits
  <1>7. twice[p] = {} /\ Once(rs, store, used, c)
    BY <1>1, <1>2, <1>3, <1>4, <1>6 DEF OnceOf
  <1>8. SUFFICES twice'[p] = {} /\ Once(ses'[p].rs, skipped'[p], Used(p)', call'[p][s])
    BY DEF Serial
  <1>9. got'[p] = got[p] => Used(p)' = used
    BY <1>4, <1>5, HeardKept
  <1>10. CASE Throws(p, s)
    <2>1. ~c.stored
      BY <1>1, <1>10 DEF Throws
    <2>2. Once(rs, store, used, Idle)
      BY <1>7, <2>1, OnceThrows
    <2> QED BY <1>2, <1>3, <1>7, <1>9, <1>10, <2>2 DEF Throws
  <1>11. CASE Takes(p, s)
    <2>1. PICK d : d = call'[p][s]
      OBVIOUS
    <2>2. PICK found \in SUBSET store : found = SkippedAt(skipped[p], c.rs.remote, c.m.n)
      BY <1>3 DEF SkippedAt
    <2>3. PICK e \in found : d.op = "open" /\ d.rs = c.rs /\ d.stored /\ d.mk = e.mk
      BY <1>1, <1>11, <2>1, <2>2 DEF Takes
    <2>4. c.op = "lookup" /\ skipped'[p] = store \ found /\ UNCHANGED <<ses, got, twice>>
      BY <1>1, <1>3, <1>11, <2>2 DEF Takes
    <2>5. Once(rs, store \ found, used, d)
      BY <1>7, <2>3, <2>4, OnceTakes
    <2> QED BY <1>2, <1>7, <1>9, <2>1, <2>4, <2>5
  <1>12. CASE GoesOn(p, s)
    <2>1. PICK d : d = call'[p][s]
      OBVIOUS
    <2>2. /\ c.op = "lookup" /\ d.op = "skip" /\ d.rs = c.rs /\ d.stored = c.stored
          /\ UNCHANGED <<ses, skipped, got, twice>>
      BY <1>1, <1>12, <2>1 DEF GoesOn
    <2>3. Once(rs, store, used, d)
      BY <1>7, <2>2, OnceGoesOn
    <2> QED BY <1>2, <1>3, <1>7, <1>9, <2>1, <2>2, <2>3
  <1>13. CASE Stores(p, s)
    <2>1. PICK d : d = call'[p][s]
      OBVIOUS
    <2>2. /\ c.op = "skip" /\ c.rs \in ReceivingState /\ d.op = "skip" /\ d.stored
          /\ d.rs = SetReceiving(c.rs, Advance(c.rs.rcv))
          /\ skipped'[p] = SkippedSet(store, c.rs.remote, c.rs.rcv.n, KeyAt(c.rs.rcv))
          /\ UNCHANGED <<ses, got, twice>>
      BY <1>1, <1>3, <1>13, <2>1 DEF Stores
    <2>3. Once(rs, SkippedSet(store, c.rs.remote, c.rs.rcv.n, KeyAt(c.rs.rcv)), used, d)
      BY <1>7, <2>2, OnceStores
    <2> QED BY <1>2, <1>7, <1>9, <2>1, <2>2, <2>3
  <1>14. CASE Derives(p, s)
    <2>1. PICK d : d = call'[p][s]
      OBVIOUS
    <2>2. /\ c.op = "skip" /\ c.rs \in ReceivingState /\ d.op = "open" /\ d.stored = c.stored
          /\ d.rs = SetReceiving(c.rs, Advance(c.rs.rcv)) /\ d.mk = KeyAt(c.rs.rcv)
          /\ UNCHANGED <<ses, skipped, got, twice>>
      BY <1>1, <1>14, <2>1 DEF Derives
    <2>3. Once(rs, store, used, d)
      BY <1>7, <2>2, OnceDerives
    <2> QED BY <1>2, <1>3, <1>7, <1>9, <2>1, <2>2, <2>3
  <1>15. CASE Commits(p, s)
    <2>1. /\ c.op = "open" /\ c.rs \in RatchetState /\ c.mk = c.m.key
          /\ call'[p][s] = Idle /\ ses'[p].rs = c.rs /\ UNCHANGED skipped
          /\ got' = [got EXCEPT ![p] = @ \cup {call[p][s].m.id}]
          /\ twice'[p] = twice[p] \cup (got[p] \cap {c.m.id})
      BY <1>1, <1>15 DEF Commits
    <2>2. Used(p)' = used \cup {c.mk} /\ (c.m.id \in got[p] => c.mk \in used)
      BY <1>1, <1>4, <1>5, <2>1, HeardMore
    <2>3. Once(c.rs, store, used \cup {c.mk}, Idle)
      BY <1>7, <2>1, OnceCommits
    <2>4. c.mk \notin used
      BY <1>7, <2>1 DEF Once
    <2>5. twice'[p] = {}
      BY <1>7, <2>1, <2>2, <2>4
    <2> QED BY <1>3, <2>1, <2>2, <2>3, <2>5
  <1> QED BY <1>10, <1>11, <1>12, <1>13, <1>14, <1>15, DecryptKinds

\* Once depends on the record's receiving chain and root only.
LEMMA OnceSameChain ==
    ASSUME NEW rs, NEW next, NEW store, NEW used, NEW c, Once(rs, store, used, c),
           next.rcv = rs.rcv, next.root = rs.root
    PROVE  Once(next, store, used, c)
  BY DEF Once

LEMMA OnceEstablish ==
    ASSUME Serial, TypeInv, KeyInv, AgreeInv, Numbered, \A p \in Party : OnceOf(p),
           \/ EstablishInitiatorSession
           \/ \E s \in Slots : CreateResponderSession(s) \/ RotateDh(s)
    PROVE  \A p \in Party : OnceOf(p)'
  <1>1. ses \in [Party -> Session] /\ call \in [Party -> [Slots -> Call]]
    BY DEF TypeInv, TypeOK
  <1>2. UNCHANGED <<net, skipped, got, twice, tainted, stale>>
    BY DEF EstablishInitiatorSession, CreateResponderSession, RotateDh, disk, history
  <1>3. \A q \in Party : Used(q)' = Used(q)
    BY <1>2, HeardKept
  <1>4. Idle.op \notin Reading /\ "rotate" \notin Reading
    BY DEF Idle, Reading
  <1>5. CASE EstablishInitiatorSession
    <2>1. /\ ses'["I"].rs = InitializeAsInitiator /\ UNCHANGED call /\ ses'["R"] = ses["R"]
      BY <1>1, <1>5 DEF EstablishInitiatorSession, Record, Party
    <2>2. ses["I"].rs = NoSession.rs
      BY <1>5 DEF EstablishInitiatorSession, AgreeInv, FitStates, Party
    <2>3. InitializeAsInitiator.rcv = NoSession.rs.rcv /\ InitializeAsInitiator.root = NoSession.rs.root
      BY DEF InitializeAsInitiator, NoSession
    <2>4. ASSUME OnceOf("I") PROVE OnceOf("I")'
      BY <1>2, <1>3, <2>1, <2>2, <2>3, <2>4, OnceSameChain DEF OnceOf, Party
    <2>5. OnceOf("R")'
      BY <1>2, <1>3, <2>1, OnceUntouched DEF Party
    <2> QED BY <2>4, <2>5 DEF Party
  <1>6. ASSUME NEW s \in Slots, NEW d \in {Idle, [op |-> "rotate"]}, NEW r \in RatchetState,
               ses'["R"].rs = r, call'["R"][s] = d, call["R"][s].op \notin Reading,
               ses'["I"] = ses["I"], \A t \in Slots : call'["I"][t] = call["I"][t],
               Len(r.rcv.base.root) <= Len(r.root), NotAfter(ses["R"].rs.rcv, r.rcv)
        PROVE  \A p \in Party : OnceOf(p)'
    <2>1. OnceOf("I")'
      BY <1>2, <1>3, <1>6, OnceUntouched DEF Party
    <2>2. ASSUME ~tainted["R"], ~stale["R"]
          PROVE  twice["R"] = {} /\ Once(r, skipped["R"], Used("R"), d)
      <3>1. PICK rs \in RatchetState : rs = ses["R"].rs
        BY StatesTyped DEF Party
      <3>2. PICK store \in SUBSET Entry, used \in SUBSET MessageKey :
               store = skipped["R"] /\ used = Used("R")
        BY UsedTyped DEF Party
      <3>3. twice["R"] = {} /\ Once(rs, store, used, call["R"][s])
        BY <2>2, <3>1, <3>2 DEF OnceOf, Party
      <3>4. Once(rs, store, used, Idle)
        BY <1>6, <3>3, OnceBegins
      <3>5. rs.rcv \in Chain \cup {NoChain} /\ r.rcv \in Chain \cup {NoChain}
        BY DEF RatchetState
      <3>6. (\A e \in store : e.mk \in Chain) /\ \A k \in used : k \in Chain
        BY ChainFacts DEF Entry
      <3>7. /\ \A k \in used : Precedes(k, r.rcv)
            /\ \A e \in store : Precedes(e.mk, r.rcv)
        BY <1>4, <1>6, <3>1, <3>4, <3>5, <3>6, PlaceOrder DEF Once
      <3>8. d.op \notin Reading /\ d.op # "encrypt" /\ d.op # "open"
        BY <1>6 DEF Idle, Reading
      <3>9. Once(r, store, used, d)
        BY <1>6, <3>4, <3>7, <3>8 DEF Once
      <3> QED BY <3>2, <3>3, <3>9
    <2>3. OnceOf("R")'
      BY <1>2, <1>3, <1>6, <2>2 DEF OnceOf, Serial, Party
    <2> QED BY <2>1, <2>3 DEF Party
  <1>7. ASSUME NEW s \in Slots, CreateResponderSession(s) PROVE \A p \in Party : OnceOf(p)'
    <2>1. /\ ses'["R"].rs = InitializeAsResponder /\ call'["R"][s] = [op |-> "rotate"]
          /\ ses'["I"] = ses["I"] /\ \A t \in Slots : call'["I"][t] = call["I"][t]
          /\ call["R"][s] = Idle
      BY <1>1, <1>7 DEF CreateResponderSession, Record, Party
    <2>2. ses["R"].rs.rcv = NoChain
      BY <1>7 DEF CreateResponderSession, AgreeInv, FitStates, Party, NoSession
    <2>3. InitializeAsResponder \in RatchetState
      BY InitialStates
    <2>4. InitializeAsResponder.rcv = SharedChain /\ InitializeAsResponder.root = << >>
      BY DEF InitializeAsResponder
    <2>5. Len(SharedChain.base.root) <= Len(<< >>) /\ NotAfter(NoChain, SharedChain)
      BY DEF SharedChain, NoChain, NotAfter
    <2> QED BY <1>4, <1>6, <2>1, <2>2, <2>3, <2>4, <2>5
  <1>8. ASSUME NEW s \in Slots, RotateDh(s) PROVE \A p \in Party : OnceOf(p)'
    <2>1. PICK rs \in RatchetState : rs = ses["R"].rs
      BY StatesTyped DEF Party
    <2>2. PICK r : r = [rs EXCEPT !.self = "b1"]
      OBVIOUS
    <2>3. r.rcv = rs.rcv /\ r.root = rs.root
      BY <2>2 DEF RatchetState
    <2>4. /\ ses'["R"].rs = r /\ call'["R"][s] = Idle
          /\ ses'["I"] = ses["I"] /\ \A t \in Slots : call'["I"][t] = call["I"][t]
          /\ call["R"][s] = [op |-> "rotate"]
      BY <1>1, <1>8, <2>1, <2>2 DEF RotateDh, Record, Party
    <2>5. OnceOf("I")'
      BY <1>2, <1>3, <2>4, OnceUntouched DEF Party
    <2>6. ASSUME ~tainted["R"], ~stale["R"]
          PROVE  twice["R"] = {} /\ Once(r, skipped["R"], Used("R"), Idle)
      <3>1. PICK store \in SUBSET Entry, used \in SUBSET MessageKey :
               store = skipped["R"] /\ used = Used("R")
        BY UsedTyped DEF Party
      <3>2. twice["R"] = {} /\ Once(rs, store, used, call["R"][s])
        BY <2>1, <2>6, <3>1 DEF OnceOf, Party
      <3>3. Once(rs, store, used, Idle)
        BY <1>4, <2>4, <3>2, OnceBegins
      <3>4. Once(r, store, used, Idle)
        BY <2>3, <3>3, OnceSameChain
      <3> QED BY <3>1, <3>2, <3>4
    <2>7. OnceOf("R")'
      BY <1>2, <1>3, <2>4, <2>6 DEF OnceOf, Serial, Party
    <2> QED BY <2>5, <2>7 DEF Party
  <1> QED BY <1>5, <1>7, <1>8

LEMMA OnceBegin ==
    ASSUME Serial, TypeInv, Numbered, NEW p \in Party, NEW s \in Slots, OnceOf(p),
           \/ EncryptBegin(p, s)
           \/ \E m \in net, intact \in BOOLEAN : DecryptBegin(p, s, m, intact)
    PROVE  OnceOf(p)'
  <1>1. UNCHANGED <<ses, skipped, net, got, twice, tainted, stale>> /\ call[p][s] = Idle
    BY DEF EncryptBegin, DecryptBegin, history, disk
  <1>2. Used(p)' = Used(p)
    BY <1>1, HeardKept
  <1>3. PICK rs \in RatchetState : rs = ses[p].rs
    BY StatesTyped
  <1>4. PICK store \in SUBSET Entry, used \in SUBSET MessageKey :
           store = skipped[p] /\ used = Used(p)
    BY UsedTyped
  <1>5. ses[p].includeDh \in BOOLEAN
    BY StatesTyped DEF Session
  <1>6. call \in [Party -> [Slots -> Call]] /\ net \subseteq Envelope
    BY DEF TypeInv, TypeOK
  <1>7. \/ \E m \in Envelope, intact \in BOOLEAN :
              call'[p][s] = Decrypting("lookup", ReceiveState(rs, m), m, intact, FALSE)
        \/ \E includeDh \in BOOLEAN :
              call'[p][s] = [op |-> "encrypt", rs |-> SendState(rs), includeDh |-> includeDh]
    <2>1. CASE EncryptBegin(p, s)
      BY <1>3, <1>5, <1>6, <2>1 DEF EncryptBegin
    <2>2. ASSUME NEW m \in net, NEW intact \in BOOLEAN, DecryptBegin(p, s, m, intact)
          PROVE  call'[p][s] = Decrypting("lookup", ReceiveState(rs, m), m, intact, FALSE)
      BY <1>3, <1>6, <2>2 DEF DecryptBegin
    <2> QED BY <1>6, <2>1, <2>2
  <1>8. ASSUME ~tainted[p], ~stale[p]
        PROVE  twice[p] = {} /\ Once(rs, store, used, call'[p][s])
    <2>1. twice[p] = {} /\ Once(rs, store, used, Idle)
      BY <1>1, <1>3, <1>4, <1>8 DEF OnceOf
    <2>2. Idle.op \notin Reading
      BY DEF Idle, Reading
    <2>3. /\ \A m \in Envelope, intact \in BOOLEAN :
                Once(rs, store, used, Decrypting("lookup", ReceiveState(rs, m), m, intact, FALSE))
          /\ \A includeDh \in BOOLEAN :
                Once(rs, store, used,
                     [op |-> "encrypt", rs |-> SendState(rs), includeDh |-> includeDh])
      BY <2>1, <2>2, OnceBegins
    <2> QED BY <1>7, <2>1, <2>3, Zenon
  <1> QED BY <1>1, <1>2, <1>3, <1>4, <1>8 DEF OnceOf, Serial

LEMMA OnceEncryptCommit ==
    ASSUME Serial, TypeInv, Numbered, NEW p \in Party, NEW s \in Slots,
           EncryptCommit(p, s), OnceOf(p)
    PROVE  OnceOf(p)'
  <1>1. UNCHANGED <<skipped, got, twice, tainted, stale>>
    BY DEF EncryptCommit, history, disk
  <1>2. Used(p)' = Used(p)
    BY <1>1, HeardKept
  <1>3. PICK c \in Call : c = call[p][s]
    BY DEF TypeInv, TypeOK
  <1>4. c \in EncryptCall /\ c.op = "encrypt"
    BY <1>3, CallKinds DEF EncryptCommit
  <1>5. c.rs \in RatchetState /\ c.rs.snd \in Chain
    BY <1>4 DEF EncryptCall, SendingState
  <1>6. PICK r : r = SetSending(c.rs, Advance(c.rs.snd))
    OBVIOUS
  <1>7. ses'[p].rs = r /\ call'[p][s] = Idle
    BY <1>3, <1>6 DEF EncryptCommit, Record, TypeInv, TypeOK
  <1>8. PICK rs \in RatchetState : rs = ses[p].rs
    BY StatesTyped
  <1>9. PICK store \in SUBSET Entry, used \in SUBSET MessageKey :
           store = skipped[p] /\ used = Used(p)
    BY UsedTyped
  <1>10. ASSUME ~tainted[p], ~stale[p]
         PROVE  twice[p] = {} /\ Once(r, store, used, Idle)
    <2>1. twice[p] = {} /\ Once(rs, store, used, c)
      BY <1>3, <1>8, <1>9, <1>10 DEF OnceOf
    <2> QED BY <1>4, <1>5, <1>6, <2>1, OnceSends
  <1> QED BY <1>1, <1>2, <1>7, <1>9, <1>10 DEF OnceOf, Serial

\* A restart from a snapshot that is up to date changes nothing but the call
\* in progress, which had not touched the store.
LEMMA OnceRestart ==
    ASSUME TypeInv, Numbered, NEW p \in Party, Restart(p), OnceOf(p)
    PROVE  OnceOf(p)'
  <1> SUFFICES ASSUME ~tainted'[p], ~stale'[p]
               PROVE  /\ twice'[p] = {}
                      /\ \A t \in Slots : Once(ses'[p].rs, skipped'[p], Used(p)', call'[p][t])
    BY DEF OnceOf
  <1>1. /\ ses \in [Party -> Session] /\ skipped \in [Party -> SUBSET Entry]
        /\ call \in [Party -> [Slots -> Call]] /\ tainted \in [Party -> BOOLEAN]
        /\ stale \in [Party -> BOOLEAN]
    BY DEF TypeInv, TypeOK
  <1>2. ~tainted[p] /\ ~stale[p] /\ ~Uncommitted(p) /\ saved[p] = SnapshotOf(p)
    BY <1>1 DEF Restart
  <1>3. ses'[p] = ses[p] /\ skipped'[p] = skipped[p] /\ UNCHANGED <<net, got, twice>>
    BY <1>1, <1>2 DEF Restart, SnapshotOf
  <1>4. \A t \in Slots : call'[p][t] = Idle
    BY <1>1 DEF Restart
  <1>5. Used(p)' = Used(p)
    BY <1>3, HeardKept
  <1>6. PICK rs \in RatchetState : rs = ses[p].rs
    BY StatesTyped
  <1>7. PICK store \in SUBSET Entry, used \in SUBSET MessageKey :
           store = skipped[p] /\ used = Used(p)
    BY UsedTyped
  <1>8. ASSUME NEW t \in Slots PROVE Once(rs, store, used, Idle)
    <2>1. Once(rs, store, used, call[p][t])
      BY <1>2, <1>6, <1>7 DEF OnceOf
    <2>2. ~(call[p][t].op \in Reading /\ call[p][t].stored)
      BY <1>2 DEF Uncommitted, Reading
    <2> QED BY <2>1, <2>2, OnceThrows
  <1> QED BY <1>2, <1>3, <1>4, <1>5, <1>6, <1>7, <1>8 DEF OnceOf

\* What a step of one party leaves alone at the other.
LEMMA OthersKept ==
    ASSUME TypeInv, Numbered, NEW p \in Party, NEW q \in Party, q # p,
           \/ ExportSnapshot(p) \/ Restart(p)
           \/ \E s \in Slots :
                 \/ EncryptBegin(p, s) \/ CallStep(p, s)
                 \/ \E m \in net, intact \in BOOLEAN : DecryptBegin(p, s, m, intact)
    PROVE  /\ ses'[q] = ses[q] /\ skipped'[q] = skipped[q] /\ Heard(q)' = Heard(q)
           /\ Used(q)' = Used(q) /\ twice'[q] = twice[q] /\ tainted'[q] = tainted[q]
           /\ stale'[q] = stale[q] /\ \A t \in Slots : call'[q][t] = call[q][t]
  <1>1. /\ ses \in [Party -> Session] /\ skipped \in [Party -> SUBSET Entry]
        /\ call \in [Party -> [Slots -> Call]] /\ tainted \in [Party -> BOOLEAN]
        /\ stale \in [Party -> BOOLEAN]
    BY DEF TypeInv, TypeOK
  <1>2. CASE ExportSnapshot(p)
    BY <1>2, HeardKept DEF ExportSnapshot, history
  <1>3. CASE Restart(p)
    BY <1>1, <1>3, HeardKept DEF Restart
  <1>4. ASSUME NEW s \in Slots,
               \/ EncryptBegin(p, s)
               \/ \E m \in net, intact \in BOOLEAN : DecryptBegin(p, s, m, intact)
        PROVE  /\ UNCHANGED <<ses, skipped, net, got, twice, tainted, stale>>
               /\ \A t \in Slots : call'[q][t] = call[q][t]
    BY <1>1, <1>4 DEF EncryptBegin, DecryptBegin, history, disk
  <1>5. ASSUME NEW s \in Slots, EncryptCommit(p, s)
        PROVE  /\ ses'[q] = ses[q] /\ UNCHANGED <<skipped, got, twice, tainted, stale>>
               /\ \A t \in Slots : call'[q][t] = call[q][t]
    BY <1>1, <1>5 DEF EncryptCommit, history, disk
  <1>6. ASSUME NEW s \in Slots,
               DecryptLookup(p, s) \/ DecryptSkip(p, s) \/ DecryptOpen(p, s)
        PROVE  /\ UNCHANGED <<net, stale>>
               /\ ses'[q] = ses[q] /\ skipped'[q] = skipped[q] /\ got'[q] = got[q]
               /\ twice'[q] = twice[q] /\ tainted'[q] = tainted[q]
               /\ \A t \in Slots : call'[q][t] = call[q][t]
    BY <1>6, DecryptKinds
  <1>7. CASE \E s \in Slots :
                \/ EncryptBegin(p, s)
                \/ \E m \in net, intact \in BOOLEAN : DecryptBegin(p, s, m, intact)
    BY <1>4, <1>7, HeardKept
  <1>8. CASE \E s \in Slots : CallStep(p, s)
    BY <1>5, <1>6, <1>8, HeardKept DEF CallStep
  <1> QED BY <1>2, <1>3, <1>7, <1>8

LEMMA OnceInit == Init => OnceInv
  <1> SUFFICES ASSUME Init PROVE OnceInv
    OBVIOUS
  <1>1. Numbered
    BY DEF Init, Numbered
  <1>2. \A p \in Party : Used(p) = {}
    BY DEF Init, Used, Heard
  <1>3. Once(NoSession.rs, {}, {}, Idle)
    BY DEF Once, NoSession, NoChain, Idle, Reading
  <1>4. \A p \in Party : OnceOf(p)
    BY <1>2, <1>3 DEF Init, OnceOf
  <1> QED BY <1>1, <1>4 DEF OnceInv

LEMMA OnceNext ==
    ASSUME Serial, TypeInv, KeyInv, AgreeInv, OnceInv, [Next]_vars
    PROVE  OnceInv'
  <1>1. Numbered' /\ Numbered /\ \A p \in Party : OnceOf(p)
    BY NumberedNext DEF OnceInv
  <1>2. SUFFICES \A p \in Party : OnceOf(p)'
    BY <1>1 DEF OnceInv
  <1>3. CASE UNCHANGED vars
    BY <1>1, <1>3, HeardKept, OnceUntouched DEF vars, history, disk
  <1>4. CASE EstablishInitiatorSession \/ \E s \in Slots : CreateResponderSession(s) \/ RotateDh(s)
    BY <1>1, <1>4, OnceEstablish
  <1>5. ASSUME NEW p \in Party, NEW q \in Party, q # p,
               \/ ExportSnapshot(p) \/ Restart(p)
               \/ \E s \in Slots :
                     \/ EncryptBegin(p, s) \/ CallStep(p, s)
                     \/ \E m \in net, intact \in BOOLEAN : DecryptBegin(p, s, m, intact)
        PROVE  OnceOf(q)'
    BY <1>1, <1>5, OthersKept, OnceUntouched
  <1>6. ASSUME NEW p \in Party, ExportSnapshot(p) PROVE OnceOf(p)'
    BY <1>1, <1>6, HeardKept, OnceUntouched DEF ExportSnapshot, history
  <1>7. ASSUME NEW p \in Party, Restart(p) PROVE OnceOf(p)'
    BY <1>1, <1>7, OnceRestart
  <1>8. ASSUME NEW p \in Party, NEW s \in Slots,
               \/ EncryptBegin(p, s) \/ CallStep(p, s)
               \/ \E m \in net, intact \in BOOLEAN : DecryptBegin(p, s, m, intact)
        PROVE  OnceOf(p)'
    BY <1>1, <1>8, OnceBegin, OnceEncryptCommit, OnceDecrypt DEF CallStep
  <1>9. ASSUME NEW p \in Party, ExportSnapshot(p) \/ Restart(p)
        PROVE  \A q \in Party : OnceOf(q)'
    BY <1>5, <1>6, <1>7, <1>9
  <1>10. ASSUME NEW p \in Party, NEW s \in Slots,
                \/ EncryptBegin(p, s) \/ CallStep(p, s)
                \/ \E m \in net, intact \in BOOLEAN : DecryptBegin(p, s, m, intact)
         PROVE  \A q \in Party : OnceOf(q)'
    BY <1>5, <1>8, <1>10
  <1> QED BY <1>3, <1>4, <1>9, <1>10 DEF Next

\* For callers that do not overlap their calls on a party, decryptPayload
\* returns no plaintext a second time, however often and in whatever order the
\* transport presents the envelopes, as long as no decrypt ended half-way and
\* the receiver was not rolled back.
THEOREM PlaintextsOnce ==
    ASSUME Serial
    PROVE  Spec => []AtMostOnceUntainted
  <1> DEFINE Inv == TypeInv /\ RootInv /\ KeyInv /\ AgreeInv /\ OnceInv
  <1>1. Init => Inv
    BY TypeInit, RootInit, KeyInit, AgreeInit, OnceInit
  <1>2. Inv /\ [Next]_vars => Inv'
    BY TypeNext, RootNext, KeyNext, AgreeNext, OnceNext
  <1>3. Inv => AtMostOnceUntainted
    BY DEF OnceInv, OnceOf, AtMostOnceUntainted
  <1> QED BY <1>1, <1>2, <1>3, PTL DEF Spec

----------------------------------------------------------------------------
(* Nothing is lost on the way.                                             *)
(*                                                                         *)
(* While neither end is rolled back and no decrypt ended half-way, all keys *)
(* below the receiving chain are accounted for: in the store, used, or in   *)
(* the hands of the decrypt in progress.                                    *)

Complete(rs, store, heard, opened) ==
    /\ \A e \in store : /\ e.dh = rs.remote /\ e.n < rs.rcv.n
                        /\ e.mk = [base |-> rs.rcv.base, n |-> e.n]
    /\ \A i \in 0 .. rs.rcv.n - 1 :
          i \in opened \/ (\E e \in store : e.n = i) \/ (\E m \in heard : m.n = i)

Filled(rs, store, heard, c) ==
    /\ (c.op \in Reading /\ c.stored) \/ Complete(rs, store, heard, {})
    /\ c.op = "encrypt" => c.rs.rcv = rs.rcv /\ c.rs.remote = rs.remote
    /\ c.op \in {"lookup", "skip"} => Complete(c.rs, store, heard, {})
    /\ c.op = "open" => Complete(c.rs, store, heard, {c.mk.n})

FilledOf(p) ==
    ~tainted[p] /\ ~stale[p] /\ ~stale[Peer(p)] =>
        \A s \in Slots : Filled(ses[p].rs, skipped[p], Heard(p), call[p][s])

FillInv == \A p \in Party : FilledOf(p)

\* Complete depends on the receiving chain and the remote key only.
LEMMA CompleteSame ==
    ASSUME NEW rs, NEW next, NEW store, NEW heard, NEW opened,
           Complete(rs, store, heard, opened), next.rcv = rs.rcv, next.remote = rs.remote
    PROVE  Complete(next, store, heard, opened)
  BY DEF Complete

\* Before there is a receiving chain the store is empty.
LEMMA CompleteFresh ==
    ASSUME NEW rs, NEW next, NEW store \in SUBSET Entry, NEW heard,
           Complete(rs, store, heard, {}), rs.rcv = NoChain,
           next.rcv = NoChain \/ next.rcv.n = 0
    PROVE  Complete(next, store, heard, {})
  <1>0. rs.rcv.n = -1
    BY DEF NoChain
  <1>1. \A e \in store : e.n < -1
    BY <1>0 DEF Complete
  <1>2. store = {}
    <2> SUFFICES ASSUME NEW e \in store PROVE FALSE
      OBVIOUS
    <2>1. PICK i \in Nat : i = e.n
      BY DEF Entry
    <2> QED BY <1>1, <2>1
  <1>3. next.rcv.n = -1 \/ next.rcv.n = 0
    BY DEF NoChain
  <1>4. 0 .. next.rcv.n - 1 = {}
    BY <1>3
  <1> QED BY <1>2, <1>4 DEF Complete

LEMMA FilledIdle ==
    ASSUME NEW rs, NEW store, NEW heard, Complete(rs, store, heard, {})
    PROVE  Filled(rs, store, heard, Idle) /\ Filled(rs, store, heard, [op |-> "rotate"])
  BY DEF Filled, Idle, Reading

\* The state a decrypt works with while the peer has not been rolled back: the
\* record's, or the first receiving chain.
LEMMA FilledBegins ==
    ASSUME TypeInv, AgreeInv, NEW p \in Party, ~stale[Peer(p)], ses[p].phase = "ready",
           NEW m \in net, m.from = Peer(p), Complete(ses[p].rs, skipped[p], Heard(p), {})
    PROVE  Complete(ReceiveState(ses[p].rs, m), skipped[p], Heard(p), {})
  <1>1. PICK rs \in RatchetState : rs = ses[p].rs
    BY StatesTyped
  <1>2. PICK store \in SUBSET Entry : store = skipped[p]
    BY UsedTyped
  <1>0. Peer(p) \in Party /\ stale[Peer(p)] = FALSE
    BY StatesTyped DEF TypeInv, TypeOK
  <1>3. Fits(p, rs, ses[Peer(p)].rs, FALSE)
    BY <1>0, <1>1 DEF AgreeInv, FitStates, Fit
  <1>4. CASE ReceiveState(rs, m) = rs
    BY <1>1, <1>4
  <1>5. CASE ReceiveState(rs, m) # rs
    <2>1. m.dh # NoDh /\ m.dh # rs.remote
      BY <1>5 DEF ReceiveState
    <2>2. p = "I"
      BY <2>1 DEF AgreeInv, Headers, Peer, Party
    <2>3. m.dh = ses["R"].rs.self
      BY <2>1, <2>2 DEF AgreeInv, OneKey, Peer
    <2>4. rs.rcv = NoChain
      BY <1>3, <2>1, <2>2, <2>3 DEF Fits, Peer
    <2>5. ReceiveState(rs, m).rcv.n = 0
      BY <2>1 DEF ReceiveState, RatchetStep
    <2> QED BY <1>1, <1>2, <2>4, <2>5, CompleteFresh
  <1> QED BY <1>1, <1>4, <1>5

\* A stored key is taken: it is in the hands of the call.
LEMMA FilledTakes ==
    ASSUME NEW rs, NEW store \in SUBSET Entry, NEW heard, NEW c, c.op = "lookup",
           Filled(rs, store, heard, c), NEW n, NEW found, found = SkippedAt(store, c.rs.remote, n),
           NEW e \in found, NEW d, d.op = "open", d.rs = c.rs, d.stored, d.mk = e.mk
    PROVE  Filled(rs, store \ found, heard, d)
  <1>1. Complete(c.rs, store, heard, {})
    BY DEF Filled
  <1>0. e \in store /\ e.n = n
    BY DEF SkippedAt
  <1>2. d.mk.n = n
    <2>1. e.mk = [base |-> c.rs.rcv.base, n |-> n]
      BY <1>0, <1>1 DEF Complete
    <2> QED BY <2>1
  <1>3. \A x \in store : x \in store \ found \/ x.n = n
    BY DEF SkippedAt
  <1>4. Complete(c.rs, store \ found, heard, {n})
    BY <1>1, <1>3 DEF Complete
  <1> QED BY <1>2, <1>4 DEF Filled, Reading

\* The next key of the chain is stored, or derived for the message.
LEMMA FilledAdvances ==
    ASSUME NEW rs, NEW store \in SUBSET Entry, NEW heard, NEW c, c.op = "skip",
           c.rs \in ReceivingState, Filled(rs, store, heard, c),
           NEW d, d.rs = SetReceiving(c.rs, Advance(c.rs.rcv))
    PROVE  /\ d.op = "skip" /\ d.stored =>
                 Filled(rs, SkippedSet(store, c.rs.remote, c.rs.rcv.n, KeyAt(c.rs.rcv)), heard, d)
           /\ d.op = "open" /\ d.stored = c.stored /\ d.mk = KeyAt(c.rs.rcv) =>
                 Filled(rs, store, heard, d)
  <1>1. PICK k \in Chain : k = c.rs.rcv
    BY DEF ReceivingState
  <1>2. PICK l \in Nat : l = k.n
    BY DEF Chain
  <1>3. d.rs.rcv = Advance(k) /\ d.rs.remote = c.rs.remote
    BY <1>1 DEF SetReceiving, ReceivingState, RatchetState
  <1>4. d.rs.rcv.base = k.base /\ d.rs.rcv.n = l + 1
    BY <1>2, <1>3 DEF Advance
  <1>5. /\ \A e \in store : /\ e.dh = c.rs.remote /\ e.n < l
                            /\ e.mk = [base |-> k.base, n |-> e.n]
        /\ \A i \in 0 .. l - 1 : (\E e \in store : e.n = i) \/ (\E m \in heard : m.n = i)
    BY <1>1, <1>2 DEF Filled, Complete
  <1>6. \A e \in store : e.n \in Nat
    BY DEF Entry
  <1>7. \A i \in 0 .. l : i = l \/ i \in 0 .. l - 1
    OBVIOUS
  <1>8. d.rs.rcv.n - 1 = l
    BY <1>4
  <1>9. KeyAt(k) = k /\ k = [base |-> k.base, n |-> l]
    BY <1>2 DEF KeyAt, Chain
  <1>10. \A e \in store : e.n < l + 1 /\ e.n # l
    <2> SUFFICES ASSUME NEW e \in store PROVE e.n < l + 1 /\ e.n # l
      OBVIOUS
    <2>1. PICK i \in Nat : i = e.n
      BY <1>6
    <2>2. i < l
      BY <1>5, <2>1
    <2> QED BY <2>1, <2>2
  <1>11. PICK new : new = [dh |-> c.rs.remote, n |-> l, mk |-> k]
    OBVIOUS
  <1>12. SkippedSet(store, c.rs.remote, c.rs.rcv.n, KeyAt(c.rs.rcv)) = store \cup {new}
    <2>1. SkippedAt(store, c.rs.remote, l) = {}
      BY <1>10 DEF SkippedAt
    <2> QED BY <1>1, <1>2, <1>9, <1>11, <2>1 DEF SkippedSet
  <1>13. Complete(d.rs, store \cup {new}, heard, {})
    <2>1. \A e \in store \cup {new} : /\ e.dh = d.rs.remote /\ e.n < d.rs.rcv.n
                                      /\ e.mk = [base |-> d.rs.rcv.base, n |-> e.n]
      BY <1>3, <1>4, <1>5, <1>9, <1>10, <1>11
    <2>2. \A i \in 0 .. l : \/ \E e \in store \cup {new} : e.n = i
                            \/ \E m \in heard : m.n = i
      BY <1>5, <1>7, <1>11
    <2> QED BY <1>8, <2>1, <2>2 DEF Complete
  <1>14. Complete(d.rs, store, heard, {l})
    <2>1. \A e \in store : /\ e.dh = d.rs.remote /\ e.n < d.rs.rcv.n
                           /\ e.mk = [base |-> d.rs.rcv.base, n |-> e.n]
      BY <1>3, <1>4, <1>5, <1>10
    <2>2. \A i \in 0 .. l : i \in {l} \/ (\E e \in store : e.n = i) \/ \E m \in heard : m.n = i
      BY <1>5, <1>7
    <2> QED BY <1>8, <2>1, <2>2 DEF Complete
  <1>15. d.op = "skip" /\ d.stored => Filled(rs, store \cup {new}, heard, d)
    BY <1>13 DEF Filled, Reading
  <1>16. d.op = "open" /\ d.stored = c.stored /\ d.mk = k => Filled(rs, store, heard, d)
    BY <1>2, <1>14 DEF Filled, Reading
  <1> QED BY <1>1, <1>9, <1>12, <1>15, <1>16

\* The key in the hands of the call is the message's, and is now used.
LEMMA FilledCommits ==
    ASSUME NEW rs, NEW store, NEW heard, NEW c, c.op = "open", NEW m, m.n = c.mk.n,
           Filled(rs, store, heard, c)
    PROVE  Filled(c.rs, store, heard \cup {m}, Idle)
  <1>1. Complete(c.rs, store, heard, {c.mk.n})
    BY DEF Filled
  <1>2. Complete(c.rs, store, heard \cup {m}, {})
    BY <1>1 DEF Complete
  <1> QED BY <1>2, FilledIdle

LEMMA FilledUntouched ==
    ASSUME NEW p \in Party, FilledOf(p), ses'[p].rs = ses[p].rs, skipped'[p] = skipped[p],
           Heard(p)' = Heard(p), tainted'[p] = tainted[p],
           ~stale'[p] => ~stale[p], ~stale'[Peer(p)] => ~stale[Peer(p)],
           \A s \in Slots : call'[p][s] = call[p][s]
    PROVE  FilledOf(p)'
  BY DEF FilledOf

LEMMA FilledDecrypt ==
    ASSUME Serial, TypeInv, AgreeInv, Numbered, NEW p \in Party, NEW s \in Slots,
           DecryptLookup(p, s) \/ DecryptSkip(p, s) \/ DecryptOpen(p, s), FilledOf(p)
    PROVE  FilledOf(p)'
  <1> SUFFICES ASSUME ~tainted'[p], ~stale'[p], ~stale'[Peer(p)]
               PROVE  \A t \in Slots : Filled(ses'[p].rs, skipped'[p], Heard(p)', call'[p][t])
    BY DEF FilledOf
  <1>1. PICK c \in Call : c = call[p][s]
    BY DEF TypeInv, TypeOK
  <1>2. PICK rs \in RatchetState : rs = ses[p].rs
    BY StatesTyped
  <1>3. PICK store \in SUBSET Entry : store = skipped[p]
    BY UsedTyped
  <1>4. PICK heard : heard = Heard(p)
    OBVIOUS
  <1>5. UNCHANGED <<net, stale>> /\ c.op \in Reading
    BY <1>1, DecryptKinds, DecryptMoves DEF Reading
  <1>6. ~tainted[p] /\ ~stale[p] /\ ~stale[Peer(p)]
    BY <1>5, DecryptKinds DEF Throws, Takes, GoesOn, Stores, Derives, Commits
  <1>7. Filled(rs, store, heard, c)
    BY <1>1, <1>2, <1>3, <1>4, <1>6 DEF FilledOf
  <1>8. SUFFICES Filled(ses'[p].rs, skipped'[p], Heard(p)', call'[p][s])
    BY DEF Serial
  <1>9. got'[p] = got[p] => Heard(p)' = heard
    BY <1>4, <1>5, HeardKept
  <1>10. CASE Throws(p, s)
    <2>1. Complete(rs, store, heard, {})
      BY <1>1, <1>7, <1>10 DEF Throws, Filled
    <2>2. Filled(rs, store, heard, Idle)
      BY <2>1, FilledIdle
    <2> QED BY <1>2, <1>3, <1>9, <1>10, <2>2 DEF Throws
  <1>11. CASE Takes(p, s)
    <2>1. PICK d : d = call'[p][s]
      OBVIOUS
    <2>2. PICK found : found = SkippedAt(store, c.rs.remote, c.m.n)
      OBVIOUS
    <2>3. PICK e \in found : d.op = "open" /\ d.rs = c.rs /\ d.stored /\ d.mk = e.mk
      BY <1>1, <1>3, <1>11, <2>1, <2>2 DEF Takes
    <2>4. c.op = "lookup" /\ skipped'[p] = store \ found /\ UNCHANGED <<ses, got>>
      BY <1>1, <1>3, <1>11, <2>2 DEF Takes
    <2>5. Filled(rs, store \ found, heard, d)
      BY <1>7, <2>2, <2>3, <2>4, FilledTakes
    <2> QED BY <1>2, <1>9, <2>1, <2>4, <2>5
  <1>12. CASE GoesOn(p, s)
    <2>1. PICK d : d = call'[p][s]
      OBVIOUS
    <2>2. /\ c.op = "lookup" /\ d.op = "skip" /\ d.rs = c.rs /\ d.stored = c.stored
          /\ UNCHANGED <<ses, skipped, got>>
      BY <1>1, <1>12, <2>1 DEF GoesOn
    <2>3. Filled(rs, store, heard, d)
      BY <1>7, <2>2 DEF Filled, Reading
    <2> QED BY <1>2, <1>3, <1>9, <2>1, <2>2, <2>3
  <1>13. CASE Stores(p, s)
    <2>1. PICK d : d = call'[p][s]
      OBVIOUS
    <2>2. /\ c.op = "skip" /\ c.rs \in ReceivingState /\ d.op = "skip" /\ d.stored
          /\ d.rs = SetReceiving(c.rs, Advance(c.rs.rcv))
          /\ skipped'[p] = SkippedSet(store, c.rs.remote, c.rs.rcv.n, KeyAt(c.rs.rcv))
          /\ UNCHANGED <<ses, got>>
      BY <1>1, <1>3, <1>13, <2>1 DEF Stores
    <2>3. Filled(rs, SkippedSet(store, c.rs.remote, c.rs.rcv.n, KeyAt(c.rs.rcv)), heard, d)
      BY <1>7, <2>2, FilledAdvances
    <2> QED BY <1>2, <1>9, <2>1, <2>2, <2>3
  <1>14. CASE Derives(p, s)
    <2>1. PICK d : d = call'[p][s]
      OBVIOUS
    <2>2. /\ c.op = "skip" /\ c.rs \in ReceivingState /\ d.op = "open" /\ d.stored = c.stored
          /\ d.rs = SetReceiving(c.rs, Advance(c.rs.rcv)) /\ d.mk = KeyAt(c.rs.rcv)
          /\ UNCHANGED <<ses, skipped, got>>
      BY <1>1, <1>14, <2>1 DEF Derives
    <2>3. Filled(rs, store, heard, d)
      BY <1>7, <2>2, FilledAdvances
    <2> QED BY <1>2, <1>3, <1>9, <2>1, <2>2, <2>3
  <1>15. CASE Commits(p, s)
    <2>1. /\ c.op = "open" /\ c.mk = c.m.key
          /\ call'[p][s] = Idle /\ ses'[p].rs = c.rs /\ UNCHANGED skipped
          /\ got' = [got EXCEPT ![p] = @ \cup {call[p][s].m.id}]
      BY <1>1, <1>15 DEF Commits
    <2>2. Heard(p)' = heard \cup {c.m}
      BY <1>1, <1>4, <1>5, <2>1, HeardMore
    <2>3. c.m.n = c.mk.n
      BY <1>1, <2>1 DEF AgreeInv, Headers
    <2>4. Filled(c.rs, store, heard \cup {c.m}, Idle)
      BY <1>7, <2>1, <2>3, FilledCommits
    <2> QED BY <1>3, <2>1, <2>2, <2>4
  <1> QED BY <1>10, <1>11, <1>12, <1>13, <1>14, <1>15, DecryptKinds

LEMMA FilledBegin ==
    ASSUME Serial, TypeInv, AgreeInv, Numbered, NEW p \in Party, NEW s \in Slots, FilledOf(p),
           \/ EncryptBegin(p, s)
           \/ \E m \in net, intact \in BOOLEAN : DecryptBegin(p, s, m, intact)
    PROVE  FilledOf(p)'
  <1> SUFFICES ASSUME ~tainted'[p], ~stale'[p], ~stale'[Peer(p)]
               PROVE  \A t \in Slots : Filled(ses'[p].rs, skipped'[p], Heard(p)', call'[p][t])
    BY DEF FilledOf
  <1>1. UNCHANGED <<ses, skipped, net, got, tainted, stale>> /\ call[p][s] = Idle
    BY DEF EncryptBegin, DecryptBegin, history, disk
  <1>2. Heard(p)' = Heard(p)
    BY <1>1, HeardKept
  <1>3. Complete(ses[p].rs, skipped[p], Heard(p), {})
    <2>1. Filled(ses[p].rs, skipped[p], Heard(p), Idle)
      BY <1>1 DEF FilledOf
    <2> QED BY <2>1 DEF Filled, Idle, Reading
  <1>4. call \in [Party -> [Slots -> Call]] /\ ses[p] \in Session
    BY DEF TypeInv, TypeOK
  <1>5. SUFFICES Filled(ses[p].rs, skipped[p], Heard(p), call'[p][s])
    BY <1>1, <1>2 DEF Serial
  <1>6. CASE EncryptBegin(p, s)
    <2>1. PICK rs \in RatchetState : rs = ses[p].rs
      BY StatesTyped
    <2>2. SendState(rs).rcv = rs.rcv /\ SendState(rs).remote = rs.remote
      BY DEF SendState, RatchetStep
    <2>3. PICK d : d = call'[p][s]
      OBVIOUS
    <2>4. d.op = "encrypt" /\ d.rs = SendState(rs)
      BY <1>4, <1>6, <2>1, <2>3 DEF EncryptBegin
    <2> QED BY <1>3, <2>1, <2>2, <2>3, <2>4 DEF Filled, Reading
  <1>7. ASSUME NEW m \in net, NEW intact \in BOOLEAN, DecryptBegin(p, s, m, intact)
        PROVE  Filled(ses[p].rs, skipped[p], Heard(p), call'[p][s])
    <2>1. PICK d : d = call'[p][s]
      OBVIOUS
    <2>2. d.op = "lookup" /\ d.rs = ReceiveState(ses[p].rs, m)
      BY <1>4, <1>7, <2>1 DEF DecryptBegin, Decrypting
    <2>3. m.from = Peer(p) /\ ses[p].phase = "ready"
      BY <1>4, <1>7 DEF DecryptBegin, GetRecvContext, HasSession, Session
    <2>4. Complete(d.rs, skipped[p], Heard(p), {})
      BY <1>1, <1>3, <2>2, <2>3, FilledBegins
    <2> QED BY <1>3, <2>1, <2>2, <2>4 DEF Filled, Reading
  <1> QED BY <1>6, <1>7

LEMMA FilledEncryptCommit ==
    ASSUME Serial, TypeInv, Numbered, NEW p \in Party, NEW s \in Slots,
           EncryptCommit(p, s), FilledOf(p)
    PROVE  FilledOf(p)'
  <1> SUFFICES ASSUME ~tainted'[p], ~stale'[p], ~stale'[Peer(p)]
               PROVE  \A t \in Slots : Filled(ses'[p].rs, skipped'[p], Heard(p)', call'[p][t])
    BY DEF FilledOf
  <1>1. UNCHANGED <<skipped, got, tainted, stale>>
    BY DEF EncryptCommit, history, disk
  <1>2. Heard(p)' = Heard(p)
    BY <1>1, HeardKept
  <1>3. PICK c \in Call : c = call[p][s]
    BY DEF TypeInv, TypeOK
  <1>4. c \in EncryptCall /\ c.op = "encrypt"
    BY <1>3, CallKinds DEF EncryptCommit
  <1>5. c.rs \in RatchetState
    BY <1>4 DEF EncryptCall, SendingState
  <1>6. PICK r : r = SetSending(c.rs, Advance(c.rs.snd))
    OBVIOUS
  <1>7. ses'[p].rs = r /\ call'[p][s] = Idle
    BY <1>3, <1>6 DEF EncryptCommit, Record, TypeInv, TypeOK
  <1>8. r.rcv = c.rs.rcv /\ r.remote = c.rs.remote
    BY <1>5, <1>6 DEF SetSending, RatchetState
  <1>9. Filled(ses[p].rs, skipped[p], Heard(p), c)
    BY <1>1, <1>3 DEF FilledOf
  <1>10. /\ Complete(ses[p].rs, skipped[p], Heard(p), {})
         /\ c.rs.rcv = ses[p].rs.rcv /\ c.rs.remote = ses[p].rs.remote
    BY <1>4, <1>9 DEF Filled, Reading
  <1>11. Complete(r, skipped[p], Heard(p), {})
    BY <1>8, <1>10, CompleteSame
  <1>12. Filled(r, skipped[p], Heard(p), Idle)
    BY <1>11, FilledIdle
  <1> QED BY <1>1, <1>2, <1>7, <1>12 DEF Serial

LEMMA FilledRestart ==
    ASSUME TypeInv, Numbered, NEW p \in Party, Restart(p), FilledOf(p)
    PROVE  FilledOf(p)'
  <1> SUFFICES ASSUME ~tainted'[p], ~stale'[p], ~stale'[Peer(p)]
               PROVE  \A t \in Slots : Filled(ses'[p].rs, skipped'[p], Heard(p)', call'[p][t])
    BY DEF FilledOf
  <1>1. /\ ses \in [Party -> Session] /\ skipped \in [Party -> SUBSET Entry]
        /\ call \in [Party -> [Slots -> Call]] /\ tainted \in [Party -> BOOLEAN]
        /\ stale \in [Party -> BOOLEAN] /\ Peer(p) \in Party /\ Peer(p) # p
    BY DEF TypeInv, TypeOK, Peer, Party
  <1>2. /\ ~tainted[p] /\ ~stale[p] /\ ~stale[Peer(p)] /\ ~Uncommitted(p)
        /\ saved[p] = SnapshotOf(p)
    BY <1>1 DEF Restart
  <1>3. ses'[p] = ses[p] /\ skipped'[p] = skipped[p] /\ UNCHANGED <<net, got>>
    BY <1>1, <1>2 DEF Restart, SnapshotOf
  <1>4. \A t \in Slots : call'[p][t] = Idle
    BY <1>1 DEF Restart
  <1>5. Heard(p)' = Heard(p)
    BY <1>3, HeardKept
  <1>6. ASSUME NEW t \in Slots PROVE Filled(ses[p].rs, skipped[p], Heard(p), Idle)
    <2>1. Filled(ses[p].rs, skipped[p], Heard(p), call[p][t])
      BY <1>2 DEF FilledOf
    <2>2. ~(call[p][t].op \in Reading /\ call[p][t].stored)
      BY <1>2 DEF Uncommitted, Reading
    <2>3. Complete(ses[p].rs, skipped[p], Heard(p), {})
      BY <2>1, <2>2 DEF Filled
    <2> QED BY <2>3, FilledIdle
  <1> QED BY <1>3, <1>4, <1>5, <1>6

LEMMA FilledEstablish ==
    ASSUME Serial, TypeInv, KeyInv, AgreeInv, Numbered, FillInv,
           \/ EstablishInitiatorSession
           \/ \E s \in Slots : CreateResponderSession(s) \/ RotateDh(s)
    PROVE  FillInv'
  <1>1. ses \in [Party -> Session] /\ call \in [Party -> [Slots -> Call]]
    BY DEF TypeInv, TypeOK
  <1>2. UNCHANGED <<net, skipped, got, tainted, stale>>
    BY DEF EstablishInitiatorSession, CreateResponderSession, RotateDh, disk, history
  <1>3. \A q \in Party : Heard(q)' = Heard(q)
    BY <1>2, HeardKept
  <1>4. ASSUME NEW p \in Party, NEW s \in Slots, call[p][s].op \notin Reading,
               call'[p][s] \in {Idle, [op |-> "rotate"]},
               Complete(ses[p].rs, skipped[p], Heard(p), {})
                   => Complete(ses'[p].rs, skipped[p], Heard(p), {})
        PROVE  FilledOf(p)'
    <2> SUFFICES ASSUME ~tainted[p], ~stale[p], ~stale[Peer(p)]
                 PROVE  Filled(ses'[p].rs, skipped[p], Heard(p), call'[p][s])
      BY <1>2, <1>3 DEF FilledOf, Serial
    <2>1. Filled(ses[p].rs, skipped[p], Heard(p), call[p][s])
      BY DEF FillInv, FilledOf
    <2>2. Complete(ses'[p].rs, skipped[p], Heard(p), {})
      BY <1>4, <2>1 DEF Filled
    <2> QED BY <1>4, <2>2, FilledIdle
  <1>5. Idle.op \notin Reading /\ "rotate" \notin Reading
    BY DEF Idle, Reading
  <1>6. CASE EstablishInitiatorSession
    <2>1. /\ ses'["I"].rs = InitializeAsInitiator /\ UNCHANGED call /\ ses'["R"] = ses["R"]
      BY <1>1, <1>6 DEF EstablishInitiatorSession, Record, Party
    <2>2. ses["I"].rs = NoSession.rs /\ \A s \in Slots : call["I"][s] = Idle
      BY <1>6 DEF EstablishInitiatorSession, AgreeInv, FitStates, KeyInv, KeysOf, Unstarted, Party
    <2>3. /\ InitializeAsInitiator.rcv = NoSession.rs.rcv
          /\ InitializeAsInitiator.remote = NoSession.rs.remote
      BY DEF InitializeAsInitiator, NoSession
    <2>4. Complete(ses["I"].rs, skipped["I"], Heard("I"), {})
              => Complete(ses'["I"].rs, skipped["I"], Heard("I"), {})
      BY <2>1, <2>2, <2>3, CompleteSame
    <2>5. PICK s \in Slots : TRUE
      BY SlotsAssumption
    <2>6. FilledOf("I")'
      BY <1>4, <1>5, <2>1, <2>2, <2>4, <2>5 DEF Party
    <2>7. FilledOf("R")'
      BY <1>2, <1>3, <2>1, FilledUntouched DEF FillInv, Party
    <2> QED BY <2>6, <2>7 DEF FillInv, Party
  <1>7. ASSUME NEW s \in Slots, CreateResponderSession(s) PROVE FillInv'
    <2>1. /\ ses'["R"].rs = InitializeAsResponder /\ call'["R"][s] = [op |-> "rotate"]
          /\ ses'["I"] = ses["I"] /\ \A t \in Slots : call'["I"][t] = call["I"][t]
          /\ call["R"][s] = Idle
      BY <1>1, <1>7 DEF CreateResponderSession, Record, Party
    <2>2. ses["R"].rs.rcv = NoChain
      BY <1>7 DEF CreateResponderSession, AgreeInv, FitStates, Party, NoSession
    <2>3. InitializeAsResponder.rcv.n = 0
      BY DEF InitializeAsResponder, SharedChain
    <2>4. skipped["R"] \in SUBSET Entry
      BY UsedTyped DEF Party
    <2>5. Complete(ses["R"].rs, skipped["R"], Heard("R"), {})
              => Complete(ses'["R"].rs, skipped["R"], Heard("R"), {})
      BY <2>1, <2>2, <2>3, <2>4, CompleteFresh
    <2>6. FilledOf("R")'
      BY <1>4, <1>5, <2>1, <2>5 DEF Party
    <2>7. FilledOf("I")'
      BY <1>2, <1>3, <2>1, FilledUntouched DEF FillInv, Party
    <2> QED BY <2>6, <2>7 DEF FillInv, Party
  <1>8. ASSUME NEW s \in Slots, RotateDh(s) PROVE FillInv'
    <2>1. PICK rs \in RatchetState : rs = ses["R"].rs
      BY StatesTyped DEF Party
    <2>2. PICK r : r = [rs EXCEPT !.self = "b1"]
      OBVIOUS
    <2>3. r.rcv = rs.rcv /\ r.remote = rs.remote
      BY <2>2 DEF RatchetState
    <2>4. /\ ses'["R"].rs = r /\ call'["R"][s] = Idle
          /\ ses'["I"] = ses["I"] /\ \A t \in Slots : call'["I"][t] = call["I"][t]
          /\ call["R"][s] = [op |-> "rotate"]
      BY <1>1, <1>8, <2>1, <2>2 DEF RotateDh, Record, Party
    <2>5. Complete(ses["R"].rs, skipped["R"], Heard("R"), {})
              => Complete(ses'["R"].rs, skipped["R"], Heard("R"), {})
      BY <2>1, <2>3, <2>4, CompleteSame
    <2>6. FilledOf("R")'
      BY <1>4, <1>5, <2>4, <2>5 DEF Party
    <2>7. FilledOf("I")'
      BY <1>2, <1>3, <2>4, FilledUntouched DEF FillInv, Party
    <2> QED BY <2>6, <2>7 DEF FillInv, Party
  <1> QED BY <1>6, <1>7, <1>8

LEMMA FillInit == Init => FillInv
  <1> SUFFICES ASSUME Init PROVE FillInv
    OBVIOUS
  <1>1. \A p \in Party : Heard(p) = {}
    BY DEF Init, Heard
  <1>2. Complete(NoSession.rs, {}, {}, {})
    BY DEF Complete, NoSession, NoChain
  <1>3. Filled(NoSession.rs, {}, {}, Idle)
    BY <1>2, FilledIdle
  <1> QED BY <1>1, <1>3 DEF Init, FillInv, FilledOf

LEMMA FillNext ==
    ASSUME Serial, TypeInv, KeyInv, AgreeInv, Numbered, FillInv, [Next]_vars
    PROVE  FillInv'
  <1>1. \A p \in Party : FilledOf(p)
    BY DEF FillInv
  <1>2. CASE UNCHANGED vars
    BY <1>1, <1>2, HeardKept, FilledUntouched DEF vars, history, disk, FillInv
  <1>3. CASE EstablishInitiatorSession \/ \E s \in Slots : CreateResponderSession(s) \/ RotateDh(s)
    BY <1>3, FilledEstablish
  <1>4. ASSUME NEW p \in Party, NEW q \in Party, q # p,
               \/ ExportSnapshot(p) \/ Restart(p)
               \/ \E s \in Slots :
                     \/ EncryptBegin(p, s) \/ CallStep(p, s)
                     \/ \E m \in net, intact \in BOOLEAN : DecryptBegin(p, s, m, intact)
        PROVE  FilledOf(q)'
    <2>1. /\ ses'[q] = ses[q] /\ skipped'[q] = skipped[q] /\ Heard(q)' = Heard(q)
          /\ tainted'[q] = tainted[q] /\ stale'[q] = stale[q]
          /\ \A t \in Slots : call'[q][t] = call[q][t]
      BY <1>4, OthersKept
    <2>2. Peer(q) = p
      BY <1>4 DEF Peer, Party
    <2>3. ~stale'[p] => ~stale[p]
      BY <1>4, DecryptMoves DEF ExportSnapshot, Restart, EncryptBegin, EncryptCommit, CallStep,
         DecryptBegin, disk, TypeInv, TypeOK
    <2> QED BY <1>1, <2>1, <2>2, <2>3, FilledUntouched
  <1>5. ASSUME NEW p \in Party, ExportSnapshot(p) PROVE FilledOf(p)'
    BY <1>1, <1>5, HeardKept, FilledUntouched DEF ExportSnapshot, history
  <1>6. ASSUME NEW p \in Party, ExportSnapshot(p) \/ Restart(p)
        PROVE  FillInv'
    BY <1>1, <1>4, <1>5, <1>6, FilledRestart DEF FillInv
  <1>7. ASSUME NEW p \in Party, NEW s \in Slots,
               \/ EncryptBegin(p, s) \/ CallStep(p, s)
               \/ \E m \in net, intact \in BOOLEAN : DecryptBegin(p, s, m, intact)
        PROVE  FilledOf(p)'
    BY <1>1, <1>7, FilledBegin, FilledEncryptCommit, FilledDecrypt DEF CallStep
  <1>8. ASSUME NEW p \in Party, NEW s \in Slots,
               \/ EncryptBegin(p, s) \/ CallStep(p, s)
               \/ \E m \in net, intact \in BOOLEAN : DecryptBegin(p, s, m, intact)
        PROVE  FillInv'
    BY <1>4, <1>7, <1>8 DEF FillInv
  <1> QED BY <1>2, <1>3, <1>6, <1>8 DEF Next

\* What is below the receiving chain is found in the store, what is not lies
\* ahead on it.
LEMMA FilledDerivable ==
    ASSUME TypeInv, KeyInv, AgreeInv, FillInv, ChainAgreement, NEW p \in Party,
           Quiet(p), ses[p].rs.rcv # NoChain, ~tainted[p], ~stale[p], ~stale[Peer(p)],
           NEW m \in SentBy(Peer(p)), m.id \notin got[p]
    PROVE  Derivable(p, m)
  <1>1. PICK o \in Party : o = Peer(p) /\ p = Peer(o)
    BY DEF Peer, Party
  <1>2. PICK rs \in RatchetState : rs = ses[p].rs
    BY StatesTyped
  <1>3. PICK store \in SUBSET Entry : store = skipped[p]
    BY UsedTyped
  <1>4. PICK l \in Nat : l = rs.rcv.n
    BY <1>2 DEF RatchetState, Chain
  <1>5. Complete(rs, store, Heard(p), {})
    <2>1. PICK s \in Slots : TRUE
      BY SlotsAssumption
    <2>2. Filled(rs, store, Heard(p), Idle)
      BY <1>2, <1>3, <2>1 DEF FillInv, FilledOf, Quiet
    <2> QED BY <2>2 DEF Filled, Idle, Reading
  <1>6. \A x \in net : x.from = o => x.key = [base |-> rs.rcv.base, n |-> x.n]
    <2> SUFFICES ASSUME NEW x \in net, x.from = o
                 PROVE  x.key = [base |-> rs.rcv.base, n |-> x.n]
      OBVIOUS
    <2>1. ses[o].rs.snd # NoChain /\ x.key.base = ses[o].rs.snd.base
      BY <1>1 DEF KeyInv, KeysOf, Below
    <2>2. ses[o].rs.snd.base = rs.rcv.base
      BY <1>1, <1>2, <2>1 DEF ChainAgreement
    <2>3. x.n = x.key.n /\ x.key \in MessageKey
      BY DEF AgreeInv, Headers, TypeInv, TypeOK, Envelope
    <2> QED BY <2>1, <2>2, <2>3 DEF MessageKey
  <1>7. m \in net /\ m.from = o
    BY <1>1 DEF SentBy
  <1>8. PICK i \in Nat : i = m.n
    BY <1>7 DEF TypeInv, TypeOK, Envelope
  <1>9. PICK found : found = SkippedAt(store, rs.remote, i)
    OBVIOUS
  <1>10. PICK base : base = rs.rcv.base
    OBVIOUS
  <1>11. m.key = [base |-> base, n |-> i]
    BY <1>6, <1>7, <1>8, <1>10, Zenon
  <1>12. CASE i < l
    <2>1. i \in 0 .. rs.rcv.n - 1
      BY <1>4, <1>12
    <2>2. ~ \E x \in Heard(p) : x.n = i
      <3> SUFFICES ASSUME NEW x \in Heard(p), x.n = i PROVE FALSE
        OBVIOUS
      <3>1. x \in net /\ x.from = o /\ x.id \in got[p]
        BY <1>1 DEF Heard
      <3>2. x.key = m.key
        BY <1>6, <1>10, <1>11, <3>1, Zenon
      <3>3. x = m
        BY <1>1, <1>7, <3>1, <3>2 DEF KeyInv, KeysOf, Distinct
      <3> QED BY <3>1, <3>3
    <2>3. PICK e \in store : e.n = i
      BY <1>5, <2>1, <2>2 DEF Complete
    <2>4. e.dh = rs.remote /\ e.mk = [base |-> rs.rcv.base, n |-> i]
      BY <1>5, <2>3 DEF Complete
    <2>5. e \in found /\ e.mk = m.key
      BY <1>9, <1>10, <1>11, <2>3, <2>4 DEF SkippedAt
    <2> QED BY <1>2, <1>3, <1>8, <1>9, <2>5 DEF Derivable
  <1>13. CASE ~(i < l)
    <2>1. found = {}
      <3> SUFFICES ASSUME NEW e \in store, e.n = i PROVE FALSE
        BY <1>9 DEF SkippedAt
      <3>1. i < l
        BY <1>4, <1>5 DEF Complete
      <3> QED BY <1>13, <3>1
    <2>2. rs.rcv.n <= m.n
      BY <1>4, <1>8, <1>13
    <2>3. m.key.base = rs.rcv.base
      BY <1>10, <1>11
    <2> QED BY <1>2, <1>3, <1>8, <1>9, <2>1, <2>2, <2>3 DEF Derivable
  <1> QED BY <1>12, <1>13

\* For callers that do not overlap their calls on a party, an envelope that has
\* not been decrypted can still be: whatever arrived before it, in whatever
\* order and however damaged, its key is in the skipped key store or ahead on
\* the receiving chain, as long as no decrypt ended half-way and neither end
\* was rolled back.
THEOREM EnvelopesStayDecryptable ==
    ASSUME Serial
    PROVE  Spec => []StillDecryptable
  <1> DEFINE Inv == TypeInv /\ RootInv /\ KeyInv /\ AgreeInv /\ OnceInv /\ FillInv
  <1>1. Init => Inv
    BY TypeInit, RootInit, KeyInit, AgreeInit, OnceInit, FillInit
  <1>2. Inv /\ [Next]_vars => Inv'
    <2>1. OnceInv => Numbered
      BY DEF OnceInv
    <2> QED BY <2>1, TypeNext, RootNext, KeyNext, AgreeNext, OnceNext, FillNext
  <1>3. Inv /\ ChainAgreement => StillDecryptable
    BY FilledDerivable DEF StillDecryptable
  <1>4. Spec => []ChainAgreement
    BY EndsOnOneChain
  <1> QED BY <1>1, <1>2, <1>3, <1>4, PTL DEF Spec
=============================================================================
