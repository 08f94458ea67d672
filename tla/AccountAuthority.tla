-------------------------- MODULE AccountAuthority --------------------------
(***************************************************************************)
(* Authority of one account: the root key signs capability certificates for *)
(* device keys, devices delegate further, and verifyAccountAuthority decides *)
(* whether the signer of an operation may perform it.  Certificates are     *)
(* revoked at the account's home, whose state the root signs and publishes  *)
(* as an account-authority-state record; a peer that verifies chains learns  *)
(* of revocations only through such records, which arrive late, repeated    *)
(* and out of order.                                                       *)
(*                                                                         *)
(* A certificate id is a hash of the body, so certificates are numbered by  *)
(* the order in which distinct bodies were signed, and a body names its     *)
(* parent by number: only a body that exists can be hashed.  A signature    *)
(* verifies exactly when the key that made it is the one the body names.    *)
(***************************************************************************)
EXTENDS Integers, Sequences, FiniteSets, FiniteSetsExt

CONSTANTS
    Root,         \* the account's key (B)
    Devices,      \* device keys (C)
    Capabilities, \* the capability vocabulary
    Delegate,     \* capability.delegate
    NoCap,        \* a null requiredCapability: membership only
    Required,     \* requiredCapability of the delegated records presented
    Grants,       \* what a signer may put in a body: capabilities, depth, window
    Claims,       \* <<account, signer>> a device may put in a body it signs, of
                  \* which each is Root or the key itself (Self)
    Self,
    MaxDepth,     \* bound: maxDelegationDepth of a certificate
    RecordTTL,    \* lifetime of a published record
    MaxTime,      \* bound: the clock
    MaxCerts,     \* bound: certificates signed
    MaxEpoch      \* bound: mutations at the home

ASSUME KeysAssumption == Root \notin Devices
ASSUME CapsAssumption == Delegate \in Capabilities /\ NoCap \notin Capabilities
ASSUME BoundsAssumption ==
    /\ MaxDepth \in Nat /\ RecordTTL \in Nat \ {0}
    /\ MaxTime \in Nat /\ MaxCerts \in Nat /\ MaxEpoch \in Nat
ASSUME GrantsAssumption ==
    Grants \subseteq [capabilities : SUBSET Capabilities \ {{}},
                      maxDelegationDepth : 0 .. MaxDepth,
                      delay : Nat, ttl : Nat \ {0}]
ASSUME RequiredAssumption == Required \subseteq Capabilities \cup {NoCap}
ASSUME ClaimsAssumption == Claims \subseteq {Root, Self} \X {Root, Self}

VARIABLES
    now,       \* the peer's clock
    certs,     \* certificates signed so far, in order; the index is the certId
    home,      \* the authority state at the account's home
    published, \* authority-state records signed by the root
    view,      \* the authority state the peer last accepted
    retained   \* the chain a peer verified and keeps, with its expiry

vars == <<now, certs, home, published, view, retained>>

Keys == Devices \cup {Root}

None == [chain |-> <<>>]

NoState == [epoch |-> 0, revokedCertIds |-> {}, minValidIssuedAtMs |-> 0]

Init ==
    /\ now = 0
    /\ certs = <<>>
    /\ home = NoState
    /\ published = {}
    /\ view = NoState
    /\ retained = None

----------------------------------------------------------------------------
(* verifyAccountAuthority.                                                 *)

\* Mutant: the signature is not verified.
CertUnsigned(id, rev, t) ==
    LET c == certs[id] IN
    /\ c.account = Root
    /\ id \notin rev.revokedCertIds
    /\ c.issuedAtMs >= rev.minValidIssuedAtMs
    /\ c.issuedAtMs <= t /\ t < c.expiresAtMs

\* What every certificate of a chain must satisfy by itself.
CertValid(id, rev, t) ==
    LET c == certs[id] IN
    /\ c.account = Root
    /\ id \notin rev.revokedCertIds
    /\ c.issuedAtMs >= rev.minValidIssuedAtMs
    /\ c.issuedAtMs <= t /\ t < c.expiresAtMs
    /\ c.sig = c.signer

RootLink(id) == certs[id].parentCertId = 0 /\ certs[id].signer = Root

\* Mutant: the parent named by the certificate is not compared.
LinkedAnyParent(id, parentId) ==
    LET c == certs[id]
        p == certs[parentId]
    IN
    /\ c.signer = p.grantee
    /\ Delegate \in p.capabilities /\ p.maxDelegationDepth >= 1
    /\ c.maxDelegationDepth <= p.maxDelegationDepth - 1
    /\ c.capabilities \subseteq p.capabilities
    /\ c.expiresAtMs <= p.expiresAtMs

\* A certificate that is not the first: signed by the grantee of the one before
\* it, with narrower capabilities, depth and lifetime.
Linked(id, parentId) ==
    LET c == certs[id]
        p == certs[parentId]
    IN
    /\ c.parentCertId = parentId
    /\ c.signer = p.grantee
    /\ Delegate \in p.capabilities /\ p.maxDelegationDepth >= 1
    /\ c.maxDelegationDepth <= p.maxDelegationDepth - 1
    /\ c.capabilities \subseteq p.capabilities
    /\ c.expiresAtMs <= p.expiresAtMs

Distinct(chain) == \A i, j \in DOMAIN chain : chain[i] = chain[j] => i = j

ChainValid(chain, rev, t) ==
    /\ Distinct(chain)
    /\ \A i \in DOMAIN chain :
          /\ CertValid(chain[i], rev, t)
          /\ IF i = 1 THEN RootLink(chain[i]) ELSE Linked(chain[i], chain[i - 1])

\* The leaf is granted to the signer of the operation and has the capability.
LeafGrants(chain, signer, cap) ==
    LET leaf == certs[chain[Len(chain)]] IN
    /\ leaf.grantee = signer
    /\ cap # NoCap => cap \in leaf.capabilities

VerifyAccountAuthority(signer, chain, cap, rev, t) ==
    IF chain = <<>>
    THEN signer = Root
    ELSE ChainValid(chain, rev, t) /\ LeafGrants(chain, signer, cap)

\* Mutant: the expiry of the first certificate.
ChainExpiresAtRoot(chain) == certs[chain[1]].expiresAtMs

\* The earliest expiry of the chain.
ChainExpiresAtMs(chain) == Min({certs[chain[i]].expiresAtMs : i \in DOMAIN chain})

----------------------------------------------------------------------------
(* verifyDurableRecordV2.                                                  *)

\* Mutant: a delegated signer may author any kind.
RootOnlyNot(r) == TRUE

\* Kinds that decide who is authorized: root-signed, no chain, no capability (the
\* comment on AccountAuthorityStateV1 says otherwise: see DelegateMaySign).
RootOnly(r) ==
    r.recordKind = "account-authority-state" =>
        r.signer = Root /\ r.certChain = <<>> /\ r.requiredCapability = NoCap

\* There is one account and one slot, so what binds a record to them always holds.
VerifyDurableRecordV2(r, rev, t) ==
    /\ r.issuedAtMs <= t /\ t < r.expiresAtMs
    /\ RootOnly(r)
    /\ VerifyAccountAuthority(r.signer, r.certChain, r.requiredCapability, rev, t)

----------------------------------------------------------------------------
(* Signing certificates and records.                                       *)

Claimed(x, k) == IF x = Self THEN k ELSE Root

Body(k, claim, parentId, grantee, g) ==
    [account |-> Claimed(claim[1], k), parentCertId |-> parentId, grantee |-> grantee,
     capabilities |-> g.capabilities, maxDelegationDepth |-> g.maxDelegationDepth,
     issuedAtMs |-> now + g.delay, expiresAtMs |-> now + g.delay + g.ttl,
     signer |-> Claimed(claim[2], k), sig |-> k]

\* Key k signs a body; nothing stops it from naming another account, another
\* signer, any parent and rights it does not have.
SignCert(k, claim, parentId, grantee, g) ==
    LET c == Body(k, claim, parentId, grantee, g) IN
    /\ Len(certs) < MaxCerts
    /\ \A i \in DOMAIN certs : certs[i] # c
    /\ certs' = Append(certs, c)
    /\ UNCHANGED <<now, home, published, view, retained>>

\* Every mutation at the home takes the next epoch.
Mutate(revoked, cutoff) ==
    /\ home.epoch < MaxEpoch
    /\ home' = [epoch |-> home.epoch + 1, revokedCertIds |-> revoked,
                minValidIssuedAtMs |-> cutoff]
    /\ UNCHANGED <<now, certs, published, view, retained>>

Revoke(id) == Mutate(home.revokedCertIds \cup {id}, home.minValidIssuedAtMs)

\* The account invalidates everything issued before the present.
RaiseCutoff == Mutate(home.revokedCertIds, now)

AuthorityRecord(signer, chain, cap, state) ==
    [recordKind |-> "account-authority-state", signer |-> signer, certChain |-> chain,
     requiredCapability |-> cap, issuedAtMs |-> now, expiresAtMs |-> now + RecordTTL,
     payload |-> state]

PublishState ==
    /\ published' = published \cup {AuthorityRecord(Root, <<>>, NoCap, home)}
    /\ UNCHANGED <<now, certs, home, view, retained>>

----------------------------------------------------------------------------
(* The peer.                                                               *)

Chains == UNION {[1 .. n -> DOMAIN certs] : n \in 1 .. MaxDepth + 2}

\* Records a device may author for the slot: an authority state of any epoch
\* that revokes nothing, alone or with a certificate.
Authored ==
    {AuthorityRecord(k, chain, NoCap, [NoState EXCEPT !.epoch = e]) :
        k \in Devices, chain \in {<<>>} \cup {<<i>> : i \in DOMAIN certs},
        e \in 1 .. MaxEpoch + 1}

\* The record is verified and its projection becomes what the peer knows.  The floor
\* under the epochs that a holder keeps ("the holder has to remember the highest one
\* it ever saw") is not part of the verification, so a record of any epoch is taken.
AcceptState(r) ==
    /\ VerifyDurableRecordV2(r, view, now)
    /\ view' = r.payload
    /\ UNCHANGED <<now, certs, home, published, retained>>

\* A delegated record of another kind is verified and its chain is kept.
Admit(k, chain, cap) ==
    LET r == [recordKind |-> "peerlink-device-set", signer |-> k, certChain |-> chain,
              requiredCapability |-> cap, issuedAtMs |-> now,
              expiresAtMs |-> now + 1]
    IN
    /\ VerifyDurableRecordV2(r, view, now)
    /\ retained' = [chain |-> chain, key |-> k, cap |-> cap,
                    chainExpiresAtMs |-> ChainExpiresAtMs(chain)]
    /\ UNCHANGED <<now, certs, home, published, view>>

Tick ==
    /\ now < MaxTime
    /\ now' = now + 1
    /\ UNCHANGED <<certs, home, published, view, retained>>

Sign ==
    \E k \in Keys, claim \in Claims, parentId \in 0 .. Len(certs),
       grantee \in Devices, g \in Grants : SignCert(k, claim, parentId, grantee, g)

AtHome == (\E id \in DOMAIN certs : Revoke(id)) \/ RaiseCutoff \/ PublishState

Accept == \E r \in published \cup Authored : AcceptState(r)

Admission == \E k \in Devices, chain \in Chains, cap \in Required : Admit(k, chain, cap)

Next == Sign \/ AtHome \/ Accept \/ Admission \/ Tick

Spec == Init /\ [][Next]_vars

----------------------------------------------------------------------------
(* Properties.                                                             *)

State ==
    [epoch : 0 .. MaxEpoch, revokedCertIds : SUBSET (1 .. MaxCerts),
     minValidIssuedAtMs : 0 .. MaxTime]

\* Every variable stays within its type; an epoch a peer accepted is one the home
\* has reached.
TypeOK ==
    /\ now \in 0 .. MaxTime
    /\ Len(certs) <= MaxCerts
    /\ home \in State /\ view \in State
    /\ \A r \in published : r.payload \in State
    /\ retained = None \/ /\ retained.key \in Devices
                          /\ retained.chain \in Chains
                          /\ retained.chainExpiresAtMs \in Nat

\* A chain that is accepted starts with a certificate the root signed, and no
\* certificate along it has fewer rights or a shorter life than the leaf; it is
\* no longer than the depth the root allowed.
NoEscalation ==
    \A chain \in Chains :
        ChainValid(chain, view, now) =>
            LET leaf  == certs[chain[Len(chain)]]
                first == certs[chain[1]]
            IN
            /\ first.sig = Root
            /\ Len(chain) <= first.maxDelegationDepth + 1
            /\ \A i \in DOMAIN chain :
                  /\ leaf.capabilities \subseteq certs[chain[i]].capabilities
                  /\ leaf.expiresAtMs <= certs[chain[i]].expiresAtMs

Ancestors ==
    LET anc[i \in 0 .. Len(certs)] ==
            IF i = 0 THEN {} ELSE {i} \cup anc[certs[i].parentCertId]
    IN anc

\* "revoking a parent recursively invalidates all descendants": once the peer
\* knows a certificate is revoked, no chain to a certificate issued below it is
\* accepted, whichever other certificates the devices hold.
AncestorRevoked ==
    \A chain \in Chains :
        (\E a \in Ancestors[chain[Len(chain)]] : a \in view.revokedCertIds)
            => ~ChainValid(chain, view, now)

\* What a peer knows of revocations is what the home published, and it cuts off
\* everything below a revoked certificate.
RevocationSound == TypeOK /\ AncestorRevoked

Unrevoked(chain, rev) ==
    \A i \in DOMAIN chain : /\ chain[i] \notin rev.revokedCertIds
                            /\ certs[chain[i]].issuedAtMs >= rev.minValidIssuedAtMs

\* A peer that keeps a verified chain and its chainExpiresAtMs may decide later
\* from the clock and the revocations alone: the answer is the one a full
\* verification would give.
RetainedExact ==
    retained # None =>
        ((now < retained.chainExpiresAtMs /\ Unrevoked(retained.chain, view))
            <=> VerifyAccountAuthority(retained.key, retained.chain, retained.cap,
                                       view, now))

\* The epoch of a record that verifyDurableRecordV2 accepts orders it against every
\* other one: unless the epoch goes down, no revocation and no cutoff the peer knows
\* is taken back, whatever the devices author and whatever is delivered late or
\* again.  So remembering the highest epoch is enough for a holder to refuse every
\* rollback.
NewerKeepsRevoked ==
    [][view.epoch <= view'.epoch =>
          /\ view.revokedCertIds \subseteq view'.revokedCertIds
          /\ view.minValidIssuedAtMs <= view'.minValidIssuedAtMs]_vars

\* What the comment on AccountAuthorityStateV1 says of its signer: "the account root
\* B, or a delegated device authorized for deviceSet.publish (checked at the
\* consuming verifier)".  Publish is the only capability of Required here.
DelegateMaySign ==
    \A k \in Devices, chain \in Chains, cap \in Required :
        VerifyAccountAuthority(k, chain, cap, view, now) =>
            VerifyDurableRecordV2(AuthorityRecord(k, chain, cap, home), view, now)
=============================================================================
