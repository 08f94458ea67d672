----------------------- MODULE AccountAuthorityProofs -----------------------
(***************************************************************************)
(* For every account, device set and delivery order of the records: the      *)
(* epoch of an accepted authority state orders it, and a revocation a peer   *)
(* knows of cuts off what is below it; for every chain of any length: what   *)
(* it grants, the root granted, and a verdict that is kept stays the one     *)
(* verification would give.                                                 *)
(***************************************************************************)
EXTENDS AccountAuthority, WellFoundedInduction, TLAPS

\* One authority state is at most as far as another.
Leq(s, t) ==
    /\ s.epoch <= t.epoch
    /\ s.revokedCertIds \subseteq t.revokedCertIds
    /\ s.minValidIssuedAtMs <= t.minValidIssuedAtMs

IsState(s) == s.epoch \in Nat /\ s.minValidIssuedAtMs \in Nat

\* Of two states the one with the larger epoch is the later one; with equal epochs
\* they are the same state.
Ordered(s, t) == s.epoch <= t.epoch => Leq(s, t)

\* The states the root has signed are ordered by their epochs and none is past
\* the state of the home, nor as far in its epoch alone; the same holds of the
\* peer's state.
StatesInv ==
    /\ now \in Nat
    /\ IsState(home) /\ home.minValidIssuedAtMs <= now
    /\ \A r \in published : /\ IsState(r.payload) /\ Leq(r.payload, home)
                            /\ Ordered(home, r.payload)
    /\ \A r, q \in published : Ordered(r.payload, q.payload)
    /\ IsState(view) /\ Leq(view, home) /\ Ordered(home, view)
    /\ \A r \in published : Ordered(view, r.payload) /\ Ordered(r.payload, view)

\* Only records of the root pass verification for the authority state's kind.
LEMMA AcceptedIsRoots ==
    ASSUME NEW r \in published \cup Authored, AcceptState(r)
    PROVE  r \in published
<1>1. r.recordKind = "account-authority-state" => r.signer = Root
  BY DEF AcceptState, VerifyDurableRecordV2, RootOnly
<1>2. \A q \in Authored : q.recordKind = "account-authority-state" /\ q.signer \in Devices
  BY DEF Authored, AuthorityRecord
<1> QED BY <1>1, <1>2, KeysAssumption

LEMMA StatesInit == Init => StatesInv
BY DEF Init, StatesInv, IsState, Leq, Ordered, NoState

LEMMA StatesNext == StatesInv /\ [Next]_vars => StatesInv'
<1> SUFFICES ASSUME StatesInv, [Next]_vars PROVE StatesInv'
  OBVIOUS
<1> USE DEF StatesInv
<1>1. ASSUME NEW k \in Keys, NEW claim \in Claims, NEW parentId \in 0 .. Len(certs),
             NEW grantee \in Devices, NEW g \in Grants,
             SignCert(k, claim, parentId, grantee, g)
      PROVE  StatesInv'
  BY <1>1 DEF SignCert
<1>2. ASSUME NEW revoked, NEW cutoff, Mutate(revoked, cutoff),
             home.revokedCertIds \subseteq revoked,
             cutoff \in Nat, home.minValidIssuedAtMs <= cutoff, cutoff <= now
      PROVE  StatesInv'
  BY <1>2 DEF Mutate, IsState, Leq, Ordered
<1>3. ASSUME NEW id \in DOMAIN certs, Revoke(id) PROVE StatesInv'
  BY <1>2, <1>3 DEF Revoke, IsState
<1>4. CASE RaiseCutoff
  BY <1>2, <1>4 DEF RaiseCutoff, IsState
<1>5. CASE PublishState
  <2> DEFINE new == AuthorityRecord(Root, <<>>, NoCap, home)
  <2>1. published' = published \cup {new} /\ UNCHANGED <<now, home, view>>
    BY <1>5 DEF PublishState
  <2>2. new.payload = home
    BY DEF AuthorityRecord
  <2>3. Leq(home, home)
    BY DEF Leq, IsState
  <2>4. \A s : IsState(s) /\ Leq(s, home) => Ordered(s, home)
    BY DEF Ordered
  <2> HIDE DEF new
  <2> QED BY <2>1, <2>2, <2>3, <2>4
<1>6. ASSUME NEW r \in published \cup Authored, AcceptState(r) PROVE StatesInv'
  <2>1. r \in published
    BY <1>6, AcceptedIsRoots
  <2>2. view' = r.payload /\ UNCHANGED <<now, home, published>>
    BY <1>6 DEF AcceptState
  <2> QED BY <2>1, <2>2
<1>7. ASSUME NEW k \in Devices, NEW chain \in Chains, NEW cap \in Required,
             Admit(k, chain, cap)
      PROVE  StatesInv'
  BY <1>7 DEF Admit
<1>8. CASE Tick
  BY <1>8 DEF Tick, IsState
<1>9. CASE UNCHANGED vars
  BY <1>9 DEF vars
<1> QED BY <1>1, <1>3, <1>4, <1>5, <1>6, <1>7, <1>8, <1>9 DEF Next, Sign, AtHome,
     Accept, Admission

\* A step that does not lower the epoch changes the peer's state only to a later one.
LEMMA ViewStep ==
    ASSUME StatesInv, [Next]_vars, view.epoch <= view'.epoch
    PROVE  /\ view.revokedCertIds \subseteq view'.revokedCertIds
           /\ view.minValidIssuedAtMs <= view'.minValidIssuedAtMs
<1>1. ASSUME NEW r \in published \cup Authored, AcceptState(r)
      PROVE  Leq(view, view')
  <2>1. r \in published
    BY <1>1, AcceptedIsRoots
  <2>2. view' = r.payload /\ view.epoch <= r.payload.epoch
    BY <1>1, <2>1 DEF AcceptState
  <2> QED BY <2>1, <2>2 DEF StatesInv, Ordered
<1>2. CASE view' = view
  BY <1>2 DEF StatesInv, IsState
<1>3. view' = view \/ \E r \in published \cup Authored : AcceptState(r)
  BY DEF Next, Sign, AtHome, Accept, Admission, vars, SignCert, Mutate, Revoke,
     RaiseCutoff, PublishState, Admit, Tick
<1> QED BY <1>1, <1>2, <1>3 DEF Leq

\* An accepted record whose epoch is not below the peer's takes no revocation back
\* (AcceptState: verifyDurableRecordV2 with its root-only rule): whatever the devices
\* author, and in whatever order the root's records arrive.
THEOREM EpochsOrderRevocations == Spec => NewerKeepsRevoked
<1>1. Spec => []StatesInv
  BY StatesInit, StatesNext, PTL DEF Spec
<1>2. StatesInv /\ [Next]_vars =>
        [view.epoch <= view'.epoch =>
            /\ view.revokedCertIds \subseteq view'.revokedCertIds
            /\ view.minValidIssuedAtMs <= view'.minValidIssuedAtMs]_vars
  BY ViewStep
<1> QED BY <1>1, <1>2, PTL DEF Spec, NewerKeepsRevoked

----------------------------------------------------------------------------
(* Chains only narrow.  The facts hold link by link; what holds from the     *)
(* first certificate to the last follows by induction on the position.      *)

Less == {ss \in Nat \X Nat : ss[1] < ss[2]}

LEMMA LessWellFounded == IsWellFoundedOn(Less, Nat)
<1>1. OpToRel(<, Nat) = Less
  BY Zenon DEF OpToRel, Less
<1> QED BY <1>1, NatLessThanWellFounded, Zenon

\* Every set of natural numbers that is not empty has a least element.
LEMMA LeastNat ==
    ASSUME NEW S \in SUBSET Nat, S # {}
    PROVE  \E m \in S : \A x \in S : m <= x
<1>1. \A x, y \in Nat : x < y => <<x, y>> \in Less
  BY DEF Less
<1>2. \E m \in S : \A y \in S : ~(<<y, m>> \in Less)
  BY LessWellFounded, WFMin, Zenon
<1>3. PICK m \in S : \A y \in S : ~(<<y, m>> \in Less)
  BY <1>2
<1>4. \A x \in S : m <= x
  <2> TAKE x \in S
  <2>1. x \in Nat /\ m \in Nat
    OBVIOUS
  <2>2. ~(x < m)
    BY <1>1, <1>3, <2>1, Zenon
  <2> QED BY <2>1, <2>2
<1> QED BY <1>4

\* Induction over the positions of a chain, as a fact about a set of them.
LEMMA AllPositions ==
    ASSUME NEW n \in Nat, NEW T, 1 \in T,
           \A i \in 1 .. n : i \in T /\ i + 1 <= n => i + 1 \in T
    PROVE  \A i \in 1 .. n : i \in T
<1> DEFINE S == {i \in 1 .. n : i \notin T}
<1> SUFFICES ASSUME S # {} PROVE FALSE
  OBVIOUS
<1>1. S \in SUBSET Nat
  OBVIOUS
<1>2. PICK m \in S : \A x \in S : m <= x
  BY <1>1, LeastNat, Zenon
<1>3. m \in 1 .. n /\ m # 1 /\ m \notin T
  BY <1>2
<1>4. m - 1 \in 1 .. n /\ m - 1 \notin S
  BY <1>2, <1>3
<1> QED BY <1>3, <1>4

CertType ==
    [account : Keys, parentCertId : Nat, grantee : Devices,
     capabilities : SUBSET Capabilities, maxDelegationDepth : Nat,
     issuedAtMs : Nat, expiresAtMs : Nat, signer : Keys, sig : Keys]

CertsInv == now \in Nat /\ certs \in Seq(CertType)

LEMMA CertsNext == CertsInv /\ [Next]_vars => CertsInv'
<1> SUFFICES ASSUME CertsInv, [Next]_vars PROVE CertsInv'
  OBVIOUS
<1>1. ASSUME NEW k \in Keys, NEW claim \in Claims, NEW parentId \in 0 .. Len(certs),
             NEW grantee \in Devices, NEW g \in Grants,
             SignCert(k, claim, parentId, grantee, g)
      PROVE  CertsInv'
  <2>1. g.capabilities \in SUBSET Capabilities /\ g.maxDelegationDepth \in Nat
        /\ g.delay \in Nat /\ g.ttl \in Nat
    BY GrantsAssumption, BoundsAssumption
  <2>2. Len(certs) \in Nat
    BY DEF CertsInv
  <2>3. Claimed(claim[1], k) \in Keys /\ Claimed(claim[2], k) \in Keys
    BY DEF Claimed, Keys
  <2>4. Body(k, claim, parentId, grantee, g) \in CertType
    BY <2>1, <2>2, <2>3 DEF Body, CertType, CertsInv
  <2> QED BY <1>1, <2>4 DEF SignCert, CertsInv
<1>2. CASE UNCHANGED certs /\ now' \in Nat
  BY <1>2 DEF CertsInv
<1>3. \/ UNCHANGED certs /\ (now' = now \/ now' = now + 1)
      \/ \E k \in Keys, claim \in Claims, parentId \in 0 .. Len(certs),
            grantee \in Devices, g \in Grants : SignCert(k, claim, parentId, grantee, g)
  BY DEF Next, Sign, AtHome, Accept, Admission, vars, Mutate, Revoke, RaiseCutoff,
     PublishState, AcceptState, Admit, Tick
<1> QED BY <1>1, <1>2, <1>3 DEF CertsInv

LEMMA ChainNarrows ==
    ASSUME CertsInv, NEW chain \in Chains, NEW rev, NEW t, ChainValid(chain, rev, t)
    PROVE  LET leaf  == certs[chain[Len(chain)]]
               first == certs[chain[1]]
           IN
           /\ first.sig = Root
           /\ Len(chain) <= first.maxDelegationDepth + 1
           /\ \A i \in DOMAIN chain :
                 /\ leaf.capabilities \subseteq certs[chain[i]].capabilities
                 /\ leaf.expiresAtMs <= certs[chain[i]].expiresAtMs
<1> DEFINE cert(i) == certs[chain[i]]
<1>1. PICK n \in 1 .. MaxDepth + 2 : chain \in [1 .. n -> DOMAIN certs]
  BY DEF Chains
<1>2. n \in Nat /\ n >= 1 /\ DOMAIN chain = 1 .. n /\ Len(chain) = n
  BY <1>1, BoundsAssumption
<1>3. \A i \in 1 .. n : cert(i) \in CertType
  BY <1>1 DEF CertsInv
<1>4. \A i \in 1 .. n :
         /\ cert(i).maxDelegationDepth \in Nat /\ cert(i).expiresAtMs \in Nat
  BY <1>3 DEF CertType
<1>5. cert(1).signer = Root /\ cert(1).sig = cert(1).signer
  BY <1>2 DEF ChainValid, RootLink, CertValid
<1>6. \A i \in 1 .. n : i + 1 <= n =>
         /\ cert(i + 1).maxDelegationDepth <= cert(i).maxDelegationDepth - 1
         /\ cert(i + 1).capabilities \subseteq cert(i).capabilities
         /\ cert(i + 1).expiresAtMs <= cert(i).expiresAtMs
  <2> SUFFICES ASSUME NEW i \in 1 .. n, i + 1 <= n
               PROVE  /\ cert(i + 1).maxDelegationDepth <= cert(i).maxDelegationDepth - 1
                      /\ cert(i + 1).capabilities \subseteq cert(i).capabilities
                      /\ cert(i + 1).expiresAtMs <= cert(i).expiresAtMs
    OBVIOUS
  <2>1. i + 1 \in 1 .. n /\ i + 1 # 1 /\ (i + 1) - 1 = i
    BY <1>2
  <2>2. Linked(chain[i + 1], chain[i])
    BY <1>2, <2>1 DEF ChainValid
  <2> QED BY <2>2 DEF Linked
<1> HIDE DEF cert
<1>7. \A i \in 1 .. n : cert(i).maxDelegationDepth + i <= cert(1).maxDelegationDepth + 1
  <2> DEFINE T == {i \in 1 .. n :
                     cert(i).maxDelegationDepth + i <= cert(1).maxDelegationDepth + 1}
  <2>1. 1 \in T
    BY <1>2, <1>4
  <2>2. \A i \in 1 .. n : i \in T /\ i + 1 <= n => i + 1 \in T
    <3> SUFFICES ASSUME NEW i \in 1 .. n, i \in T, i + 1 <= n PROVE i + 1 \in T
      OBVIOUS
    <3>1. i + 1 \in 1 .. n
      BY <1>2
    <3> QED BY <1>2, <1>4, <1>6, <3>1
  <2> HIDE DEF T
  <2>3. \A i \in 1 .. n : i \in T
    BY <1>2, <2>1, <2>2, AllPositions, Zenon
  <2> QED BY <2>3 DEF T
<1>8. \A j \in 1 .. n :
         /\ cert(n).capabilities \subseteq cert(n + 1 - j).capabilities
         /\ cert(n).expiresAtMs <= cert(n + 1 - j).expiresAtMs
  <2> DEFINE T == {j \in 1 .. n :
                     /\ cert(n).capabilities \subseteq cert(n + 1 - j).capabilities
                     /\ cert(n).expiresAtMs <= cert(n + 1 - j).expiresAtMs}
  <2>1. 1 \in T
    <3>1. n + 1 - 1 = n /\ n \in 1 .. n /\ 1 \in 1 .. n
      BY <1>2
    <3> QED BY <1>4, <3>1
  <2>2. \A j \in 1 .. n : j \in T /\ j + 1 <= n => j + 1 \in T
    <3> SUFFICES ASSUME NEW j \in 1 .. n, j \in T, j + 1 <= n PROVE j + 1 \in T
      OBVIOUS
    <3> DEFINE i == n + 1 - (j + 1)
    <3>1. i \in 1 .. n /\ i + 1 <= n /\ i + 1 = n + 1 - j /\ n + 1 - j \in 1 .. n
          /\ j + 1 \in 1 .. n /\ n \in 1 .. n
      BY <1>2
    <3> HIDE DEF i
    <3>2. /\ cert(n + 1 - j).capabilities \subseteq cert(i).capabilities
          /\ cert(n + 1 - j).expiresAtMs <= cert(i).expiresAtMs
      BY <1>6, <3>1
    <3>3. /\ cert(n).capabilities \subseteq cert(i).capabilities
          /\ cert(n).expiresAtMs <= cert(i).expiresAtMs
      BY <1>4, <3>1, <3>2
    <3> QED BY <3>1, <3>3 DEF i
  <2> HIDE DEF T
  <2>3. \A j \in 1 .. n : j \in T
    BY <1>2, <2>1, <2>2, AllPositions, Zenon
  <2> QED BY <2>3 DEF T
<1>9. \A i \in 1 .. n : /\ cert(n).capabilities \subseteq cert(i).capabilities
                        /\ cert(n).expiresAtMs <= cert(i).expiresAtMs
  <2> TAKE i \in 1 .. n
  <2>1. n + 1 - i \in 1 .. n /\ n + 1 - (n + 1 - i) = i
    BY <1>2
  <2> QED BY <1>8, <2>1
<1>10. n <= cert(1).maxDelegationDepth + 1
  BY <1>2, <1>4, <1>7
<1> QED BY <1>2, <1>5, <1>9, <1>10 DEF cert

\* A chain the peer accepts, however long and whoever signed its certificates,
\* grants nothing the root did not grant, is not longer than the root allowed and
\* dies with its leaf (verifyAccountAuthority's checks of each hop).
THEOREM ChainsNarrow == Spec => []NoEscalation
<1>1. Init => CertsInv
  BY DEF Init, CertsInv
<1>2. CertsInv => NoEscalation
  BY ChainNarrows, Zenon DEF NoEscalation
<1> QED BY <1>1, <1>2, CertsNext, PTL DEF Spec

----------------------------------------------------------------------------
(* A chain that was verified once.  Certificates are never changed, so what   *)
(* verification checked of the chain itself stays true; only the clock and    *)
(* the revocations can still refuse it.                                      *)

\* What the verification of a chain checked that cannot change any more.
Frozen(chain, key, cap) ==
    /\ Distinct(chain)
    /\ \A i \in DOMAIN chain :
          /\ certs[chain[i]].account = Root
          /\ certs[chain[i]].sig = certs[chain[i]].signer
          /\ certs[chain[i]].issuedAtMs <= now
          /\ IF i = 1 THEN RootLink(chain[i]) ELSE Linked(chain[i], chain[i - 1])
    /\ LeafGrants(chain, key, cap)

KeptInv ==
    retained # None =>
        /\ retained.key \in Devices /\ retained.chain \in Chains
        /\ retained.chainExpiresAtMs = ChainExpiresAtMs(retained.chain)
        /\ Frozen(retained.chain, retained.key, retained.cap)

\* A certificate names a parent that existed when it was signed.
ParentsFirst == \A i \in DOMAIN certs : certs[i].parentCertId < i

\* Each state the home publishes, and each a peer accepts, is typed.
BoundsInv ==
    /\ now <= MaxTime /\ Len(certs) <= MaxCerts
    /\ home \in State /\ view \in State
    /\ \A r \in published : r.payload \in State

AuthorityInv == CertsInv /\ BoundsInv /\ ParentsFirst /\ KeptInv

\* The facts about a chain that the proofs below need.
LEMMA ChainFacts ==
    ASSUME CertsInv, NEW chain \in Chains
    PROVE  \E n \in Nat \ {0} :
              /\ chain \in [1 .. n -> DOMAIN certs]
              /\ DOMAIN chain = 1 .. n /\ Len(chain) = n /\ chain # <<>>
              /\ \A i \in 1 .. n : chain[i] \in DOMAIN certs
<1>1. PICK n \in 1 .. MaxDepth + 2 : chain \in [1 .. n -> DOMAIN certs]
  BY DEF Chains
<1>2. n \in Nat \ {0} /\ DOMAIN chain = 1 .. n /\ Len(chain) = n
  BY <1>1, BoundsAssumption
<1>3. chain # <<>>
  BY <1>2
<1> QED BY <1>1, <1>2, <1>3

\* Signing appends; nothing else changes the certificates.
LEMMA CertsGrow ==
    ASSUME CertsInv, [Next]_vars
    PROVE  /\ DOMAIN certs \subseteq DOMAIN certs'
           /\ \A i \in DOMAIN certs : certs'[i] = certs[i]
           /\ now <= now'
<1>1. \/ UNCHANGED <<certs, now>>
      \/ UNCHANGED certs /\ now' = now + 1
      \/ UNCHANGED now /\ \E c : certs' = Append(certs, c)
  BY DEF Next, Sign, AtHome, Accept, Admission, vars, SignCert, Mutate, Revoke,
     RaiseCutoff, PublishState, AcceptState,
         Admit, Tick
<1>2. now \in Nat /\ certs \in Seq(CertType)
  BY DEF CertsInv
<1>3. CASE \E c : certs' = Append(certs, c)
  <2>1. PICK c : certs' = Append(certs, c)
    BY <1>3
  <2> QED BY <1>1, <1>2, <2>1
<1> QED BY <1>1, <1>2, <1>3

\* Steps keep what was checked of a chain.
LEMMA FrozenKept ==
    ASSUME CertsInv, [Next]_vars, NEW chain \in Chains, NEW key, NEW cap,
           Frozen(chain, key, cap), NEW t, t = ChainExpiresAtMs(chain)
    PROVE  chain \in Chains' /\ Frozen(chain, key, cap)' /\ t = ChainExpiresAtMs(chain)'
<1>1. PICK n \in Nat \ {0} : /\ chain \in [1 .. n -> DOMAIN certs]
                             /\ DOMAIN chain = 1 .. n /\ Len(chain) = n
                             /\ \A i \in 1 .. n : chain[i] \in DOMAIN certs
  BY ChainFacts
<1>2. /\ DOMAIN certs \subseteq DOMAIN certs'
      /\ \A i \in DOMAIN certs : certs'[i] = certs[i]
      /\ now <= now'
  BY CertsGrow
<1>3. chain \in Chains'
  BY <1>2 DEF Chains
<1>4. \A i \in DOMAIN chain : certs'[chain[i]] = certs[chain[i]]
  BY <1>1, <1>2
<1>5. t = ChainExpiresAtMs(chain)'
  <2>1. {certs'[chain[i]].expiresAtMs : i \in DOMAIN chain}
           = {certs[chain[i]].expiresAtMs : i \in DOMAIN chain}
    BY <1>4
  <2> QED BY <2>1 DEF ChainExpiresAtMs
<1>6. now \in Nat /\ now' \in Nat
  BY CertsNext DEF CertsInv
<1>7. \A i \in DOMAIN chain : certs[chain[i]].issuedAtMs <= now'
  <2> TAKE i \in DOMAIN chain
  <2>1. certs[chain[i]].issuedAtMs <= now
    BY DEF Frozen
  <2>2. certs[chain[i]] \in CertType
    BY <1>1 DEF CertsInv
  <2>3. certs[chain[i]].issuedAtMs \in Nat
    BY <2>2 DEF CertType
  <2> QED BY ONLY <1>2, <1>6, <2>1, <2>3
<1>8. \A i \in DOMAIN chain : i # 1 => i - 1 \in DOMAIN chain
  BY <1>1
<1>9. Len(chain) \in DOMAIN chain
  BY <1>1
<1>10. LeafGrants(chain, key, cap)'
  BY <1>4, <1>9 DEF Frozen, LeafGrants
<1>11. \A i \in DOMAIN chain :
          IF i = 1 THEN RootLink(chain[i])' ELSE Linked(chain[i], chain[i - 1])'
  BY <1>4, <1>8 DEF Frozen, RootLink, Linked
<1> QED BY <1>3, <1>4, <1>5, <1>7, <1>10, <1>11 DEF Frozen

LEMMA ParentsStep == CertsInv /\ ParentsFirst /\ [Next]_vars => ParentsFirst'
<1> SUFFICES ASSUME CertsInv, ParentsFirst, [Next]_vars PROVE ParentsFirst'
  OBVIOUS
<1>1. ASSUME NEW k \in Keys, NEW claim \in Claims, NEW parentId \in 0 .. Len(certs),
             NEW grantee \in Devices, NEW g \in Grants,
             SignCert(k, claim, parentId, grantee, g)
      PROVE  ParentsFirst'
  <2>1. PICK c : c.parentCertId = parentId /\ certs' = Append(certs, c)
    BY <1>1 DEF SignCert, Body
  <2>2. Len(certs) \in Nat /\ certs \in Seq(CertType) /\ DOMAIN certs = 1 .. Len(certs)
    BY DEF CertsInv
  <2>3. /\ DOMAIN certs' = 1 .. Len(certs) + 1
        /\ \A i \in 1 .. Len(certs) : certs'[i] = certs[i]
        /\ certs'[Len(certs) + 1] = c
    BY <2>1, <2>2
  <2>4. ASSUME NEW i \in DOMAIN certs' PROVE certs'[i].parentCertId < i
    <3>1. CASE i = Len(certs) + 1
      BY <2>1, <2>2, <2>3, <3>1
    <3>2. CASE i # Len(certs) + 1
      <4>1. i \in 1 .. Len(certs)
        BY <2>2, <2>3, <3>2
      <4> QED BY <2>2, <2>3, <4>1 DEF ParentsFirst
    <3> QED BY <3>1, <3>2
  <2> QED BY <2>4 DEF ParentsFirst
<1>2. \/ UNCHANGED certs
      \/ \E k \in Keys, claim \in Claims, parentId \in 0 .. Len(certs),
            grantee \in Devices, g \in Grants : SignCert(k, claim, parentId, grantee, g)
  BY DEF Next, Sign, AtHome, Accept, Admission, vars, Mutate, Revoke, RaiseCutoff,
     PublishState, AcceptState, Admit, Tick
<1>3. CASE UNCHANGED certs
  BY <1>3 DEF ParentsFirst
<1> QED BY <1>1, <1>2, <1>3

LEMMA BoundsStep == CertsInv /\ BoundsInv /\ [Next]_vars => BoundsInv'
<1> SUFFICES ASSUME CertsInv, BoundsInv, [Next]_vars PROVE BoundsInv'
  OBVIOUS
<1>1. now \in Nat /\ certs \in Seq(CertType) /\ Len(certs) \in Nat
  BY DEF CertsInv
<1>2. ASSUME NEW k \in Keys, NEW claim \in Claims, NEW parentId \in 0 .. Len(certs),
             NEW grantee \in Devices, NEW g \in Grants,
             SignCert(k, claim, parentId, grantee, g)
      PROVE  BoundsInv'
  <2>1. PICK c : certs' = Append(certs, c)
    BY <1>2 DEF SignCert
  <2>2. Len(certs') = Len(certs) + 1 /\ Len(certs) < MaxCerts
        /\ UNCHANGED <<now, home, published, view>>
    BY <1>1, <1>2, <2>1 DEF SignCert
  <2> QED BY <1>1, <2>2, BoundsAssumption DEF BoundsInv
<1>3. ASSUME NEW revoked \in SUBSET (1 .. MaxCerts), NEW cutoff \in 0 .. MaxTime,
             Mutate(revoked, cutoff)
      PROVE  BoundsInv'
  <2>1. home.epoch \in Nat /\ home.epoch + 1 \in 0 .. MaxEpoch
    BY <1>3, BoundsAssumption DEF BoundsInv, State, Mutate
  <2>2. home' \in State
    BY <1>3, <2>1 DEF Mutate, State
  <2> QED BY <1>3, <2>2 DEF Mutate, BoundsInv
<1>4. ASSUME NEW id \in DOMAIN certs, Revoke(id) PROVE BoundsInv'
  <2>1. id \in 1 .. MaxCerts
    BY <1>1, BoundsAssumption DEF BoundsInv
  <2>2. home.revokedCertIds \cup {id} \in SUBSET (1 .. MaxCerts)
        /\ home.minValidIssuedAtMs \in 0 .. MaxTime
    BY <2>1 DEF BoundsInv, State
  <2> QED BY <1>3, <1>4, <2>2 DEF Revoke
<1>5. CASE RaiseCutoff
  <2>1. home.revokedCertIds \in SUBSET (1 .. MaxCerts) /\ now \in 0 .. MaxTime
    BY <1>1, BoundsAssumption DEF BoundsInv, State
  <2> QED BY <1>3, <1>5, <2>1 DEF RaiseCutoff
<1>6. CASE PublishState
  BY <1>6 DEF PublishState, BoundsInv, AuthorityRecord
<1>7. ASSUME NEW r \in published \cup Authored, AcceptState(r) PROVE BoundsInv'
  <2>1. r \in published
    BY <1>7, AcceptedIsRoots
  <2> QED BY <1>7, <2>1 DEF AcceptState, BoundsInv
<1>8. ASSUME NEW k \in Devices, NEW chain \in Chains, NEW cap \in Required,
             Admit(k, chain, cap)
      PROVE  BoundsInv'
  BY <1>8 DEF Admit, BoundsInv
<1>9. CASE Tick
  BY <1>1, <1>9, BoundsAssumption DEF Tick, BoundsInv
<1>10. CASE UNCHANGED vars
  BY <1>10 DEF vars, BoundsInv
<1> QED BY <1>2, <1>4, <1>5, <1>6, <1>7, <1>8, <1>9, <1>10 DEF Next, Sign, AtHome,
     Accept, Admission

LEMMA KeptStep == CertsInv /\ KeptInv /\ [Next]_vars => KeptInv'
<1> SUFFICES ASSUME CertsInv, KeptInv, [Next]_vars PROVE KeptInv'
  OBVIOUS
<1>1. ASSUME NEW k \in Devices, NEW chain \in Chains, NEW cap \in Required,
             Admit(k, chain, cap)
      PROVE  KeptInv'
  <2>1. chain # <<>>
    BY ChainFacts
  <2>2. VerifyAccountAuthority(k, chain, cap, view, now)
    BY <1>1 DEF Admit, VerifyDurableRecordV2
  <2>3. ChainValid(chain, view, now) /\ LeafGrants(chain, k, cap)
    BY <2>1, <2>2 DEF VerifyAccountAuthority
  <2>4. Frozen(chain, k, cap)
    BY <2>3 DEF ChainValid, CertValid, Frozen
  <2>5. /\ retained' = [chain |-> chain, key |-> k, cap |-> cap,
                        chainExpiresAtMs |-> ChainExpiresAtMs(chain)]
        /\ UNCHANGED <<now, certs>>
    BY <1>1 DEF Admit
  <2>6. chain \in Chains' /\ Frozen(chain, k, cap)'
        /\ ChainExpiresAtMs(chain)' = ChainExpiresAtMs(chain)
    BY <2>4, <2>5 DEF Chains, Frozen, ChainExpiresAtMs, LeafGrants, RootLink, Linked
  <2> QED BY <2>5, <2>6 DEF KeptInv
<1>2. CASE UNCHANGED retained
  <2> SUFFICES ASSUME retained # None
               PROVE  /\ retained.key \in Devices /\ retained.chain \in Chains'
                      /\ retained.chainExpiresAtMs = ChainExpiresAtMs(retained.chain)'
                      /\ Frozen(retained.chain, retained.key, retained.cap)'
    BY <1>2 DEF KeptInv
  <2>1. PICK chain, key, cap, t :
           /\ chain = retained.chain /\ key = retained.key /\ cap = retained.cap
           /\ t = retained.chainExpiresAtMs
    OBVIOUS
  <2>2. /\ key \in Devices /\ chain \in Chains /\ t = ChainExpiresAtMs(chain)
        /\ Frozen(chain, key, cap)
    BY <2>1 DEF KeptInv
  <2>3. chain \in Chains' /\ Frozen(chain, key, cap)' /\ t = ChainExpiresAtMs(chain)'
    BY <2>2, FrozenKept
  <2>4. /\ chain = retained'.chain /\ key = retained'.key /\ cap = retained'.cap
        /\ t = retained'.chainExpiresAtMs
    BY <1>2, <2>1
  <2> QED BY <1>2, <2>1, <2>2, <2>3, <2>4
<1>3. \/ UNCHANGED retained
      \/ \E k \in Devices, chain \in Chains, cap \in Required : Admit(k, chain, cap)
  BY DEF Next, Sign, AtHome, Accept, Admission, vars, SignCert, Mutate, Revoke,
     RaiseCutoff, PublishState, AcceptState, Tick
<1> QED BY <1>1, <1>2, <1>3

LEMMA AuthorityInductive == Spec => []AuthorityInv
<1>1. Init => AuthorityInv
  <2> SUFFICES ASSUME Init PROVE AuthorityInv
    OBVIOUS
  <2>1. CertsInv /\ KeptInv /\ ParentsFirst
    BY DEF Init, CertsInv, KeptInv, ParentsFirst
  <2>2. NoState \in State
    BY BoundsAssumption DEF NoState, State
  <2>3. BoundsInv
    BY <2>2, BoundsAssumption DEF Init, BoundsInv
  <2> QED BY <2>1, <2>3 DEF AuthorityInv
<1>2. AuthorityInv /\ [Next]_vars => AuthorityInv'
  BY CertsNext, BoundsStep, ParentsStep, KeptStep DEF AuthorityInv
<1> QED BY <1>1, <1>2, PTL DEF Spec

\* The earliest expiry is that of some certificate, and no other is earlier.
LEMMA EarliestExpiry ==
    ASSUME CertsInv, NEW chain \in Chains
    PROVE  /\ ChainExpiresAtMs(chain) \in Nat
           /\ \A t \in Nat : t < ChainExpiresAtMs(chain)
                 <=> \A i \in DOMAIN chain : t < certs[chain[i]].expiresAtMs
<1>1. PICK n \in Nat \ {0} : /\ DOMAIN chain = 1 .. n
                             /\ \A i \in 1 .. n : chain[i] \in DOMAIN certs
  BY ChainFacts
<1>2. PICK S : S = {certs[chain[i]].expiresAtMs : i \in DOMAIN chain}
  OBVIOUS
<1>3. \A i \in DOMAIN chain : certs[chain[i]] \in CertType
  BY <1>1 DEF CertsInv
<1>4. \A i \in DOMAIN chain : certs[chain[i]].expiresAtMs \in Nat
  BY <1>3 DEF CertType
<1>5. S \in SUBSET Nat /\ S # {}
  BY <1>1, <1>2, <1>4
<1>6. \E m \in S : \A x \in S : m <= x
  BY <1>5, LeastNat
<1>7. Min(S) \in S /\ \A x \in S : Min(S) <= x
  BY <1>6 DEF Min
<1>8. ChainExpiresAtMs(chain) = Min(S)
  BY <1>2 DEF ChainExpiresAtMs
<1>9. \A t \in Nat : t < Min(S) <=> \A x \in S : t < x
  <2>1. PICK m \in S : m = Min(S)
    BY <1>7
  <2>2. \A x \in S : x \in Nat /\ m <= x
    BY <1>5, <1>7, <2>1
  <2>3. \A t \in Nat : t < m => \A x \in S : t < x
    BY <2>2
  <2>4. \A t \in Nat : (\A x \in S : t < x) => t < m
    BY <2>1
  <2> QED BY <2>1, <2>3, <2>4
<1>10. \A t : (\A x \in S : t < x) <=> \A i \in DOMAIN chain : t < certs[chain[i]].expiresAtMs
  BY <1>2
<1> QED BY <1>5, <1>7, <1>8, <1>9, <1>10

\* A peer that keeps a verified chain with its chainExpiresAtMs answers later, from
\* the clock and the revocations alone, what verifyAccountAuthority would answer
\* (VerifyAccountAuthority, ChainExpiresAtMs).
THEOREM KeptVerdictsExact == Spec => []RetainedExact
<1>1. AuthorityInv => RetainedExact
  <2> SUFFICES ASSUME AuthorityInv, retained # None
               PROVE  (now < retained.chainExpiresAtMs /\ Unrevoked(retained.chain, view))
                        <=> VerifyAccountAuthority(retained.key, retained.chain,
                                                   retained.cap, view, now)
    BY DEF RetainedExact
  <2>1. PICK chain, key, cap :
           chain = retained.chain /\ key = retained.key /\ cap = retained.cap
    OBVIOUS
  <2>2. /\ chain \in Chains /\ Frozen(chain, key, cap)
        /\ retained.chainExpiresAtMs = ChainExpiresAtMs(chain)
    BY <2>1 DEF AuthorityInv, KeptInv
  <2>3. CertsInv /\ now \in Nat /\ chain # <<>>
    BY <2>2, ChainFacts DEF AuthorityInv, CertsInv
  <2>4. now < ChainExpiresAtMs(chain)
          <=> \A i \in DOMAIN chain : now < certs[chain[i]].expiresAtMs
    BY <2>2, <2>3, EarliestExpiry
  <2>5. VerifyAccountAuthority(key, chain, cap, view, now)
          <=> ChainValid(chain, view, now) /\ LeafGrants(chain, key, cap)
    BY <2>3 DEF VerifyAccountAuthority
  <2>6. LeafGrants(chain, key, cap)
    BY <2>2 DEF Frozen
  <2>7. ChainValid(chain, view, now)
          <=> /\ \A i \in DOMAIN chain : now < certs[chain[i]].expiresAtMs
              /\ Unrevoked(chain, view)
    BY <2>2 DEF ChainValid, CertValid, Frozen, Unrevoked
  <2> QED BY <2>1, <2>2, <2>4, <2>5, <2>6, <2>7
<1> QED BY <1>1, AuthorityInductive, PTL

----------------------------------------------------------------------------
(* Revoking a certificate cuts off everything below it.  The ancestors of a   *)
(* certificate are defined recursively: that the definition has a value is    *)
(* shown by extending a solution one certificate at a time.                  *)

\* f gives the ancestors of the certificates up to number n.
AncestorsUpTo(f, n) ==
    f = [i \in 0 .. n |-> IF i = 0 THEN {} ELSE {i} \cup f[certs[i].parentCertId]]

LEMMA AncestorsExist ==
    ASSUME CertsInv, ParentsFirst
    PROVE  \E f : AncestorsUpTo(f, Len(certs))
<1>1. PICK n \in Nat : n = Len(certs)
  BY DEF CertsInv
<1>2. DOMAIN certs = 1 .. n
  BY <1>1 DEF CertsInv
<1>3. \A i \in 1 .. n : certs[i] \in CertType
  BY <1>2 DEF CertsInv
<1>4. \A i \in 1 .. n : certs[i].parentCertId \in 0 .. i - 1
  <2>1. \A i \in 1 .. n : certs[i].parentCertId \in Nat
    BY <1>3 DEF CertType
  <2>2. \A i \in 1 .. n : certs[i].parentCertId < i
    BY <1>2 DEF ParentsFirst
  <2> QED BY ONLY <1>1, <2>1, <2>2
<1> DEFINE T == {j \in 1 .. n + 1 : \E f : AncestorsUpTo(f, j - 1)}
<1>5. 1 \in T
  <2>1. AncestorsUpTo([i \in 0 .. 0 |-> {}], 0)
    BY DEF AncestorsUpTo
  <2>2. 1 \in 1 .. n + 1 /\ 1 - 1 = 0
    BY <1>1
  <2> QED BY <2>1, <2>2
<1>6. \A j \in 1 .. n + 1 : j \in T /\ j + 1 <= n + 1 => j + 1 \in T
  <2> SUFFICES ASSUME NEW j \in 1 .. n + 1, j \in T, j + 1 <= n + 1 PROVE j + 1 \in T
    OBVIOUS
  <2>1. PICK f : AncestorsUpTo(f, j - 1)
    OBVIOUS
  <2>2. j \in 1 .. n /\ j \in Nat
    BY <1>1
  <2>3. PICK g : g = [i \in 0 .. j |-> IF i = j THEN {j} \cup f[certs[j].parentCertId]
                                       ELSE f[i]]
    OBVIOUS
  <2>4. \A i \in 0 .. j - 1 : i # j /\ i \in 0 .. j /\ g[i] = f[i]
    BY <2>2, <2>3
  <2>5. ASSUME NEW i \in 0 .. j
        PROVE  g[i] = IF i = 0 THEN {} ELSE {i} \cup g[certs[i].parentCertId]
    <3>1. CASE i = j
      <4>1. certs[j].parentCertId \in 0 .. j - 1
        BY <1>4, <2>2
      <4> QED BY <2>2, <2>3, <2>4, <3>1, <4>1
    <3>2. CASE i # j
      <4>1. i \in 0 .. j - 1
        BY <2>2, <3>2
      <4>2. g[i] = f[i]
        BY <2>4, <4>1
      <4>3. f[i] = IF i = 0 THEN {} ELSE {i} \cup f[certs[i].parentCertId]
        BY <2>1, <4>1 DEF AncestorsUpTo
      <4>4. i # 0 => certs[i].parentCertId \in 0 .. j - 1
        <5> SUFFICES ASSUME i # 0 PROVE certs[i].parentCertId \in 0 .. j - 1
          OBVIOUS
        <5>1. i \in 1 .. n
          BY <1>1, <2>2, <4>1
        <5>2. certs[i].parentCertId \in 0 .. i - 1
          BY <1>4, <5>1
        <5> QED BY ONLY <5>1, <5>2, <4>1, <2>2, <1>1
      <4> QED BY <2>4, <4>2, <4>3, <4>4
    <3> QED BY <3>1, <3>2
  <2>6. AncestorsUpTo(g, j)
    BY <2>3, <2>5 DEF AncestorsUpTo
  <2>7. (j + 1) - 1 = j /\ j + 1 \in 1 .. n + 1
    BY <1>1, <2>2
  <2> QED BY <2>6, <2>7
<1> HIDE DEF T
<1>7. n + 1 \in Nat /\ n + 1 \in 1 .. n + 1
  BY <1>1
<1>8. \A j \in 1 .. n + 1 : j \in T
  BY <1>5, <1>6, <1>7, AllPositions, Zenon
<1>9. n + 1 \in T
  BY <1>7, <1>8
<1>10. (n + 1) - 1 = n
  BY <1>1
<1> QED BY <1>1, <1>9, <1>10 DEF T

\* The recursive definition is met by its value.
LEMMA AncestorsValue ==
    ASSUME CertsInv, ParentsFirst
    PROVE  AncestorsUpTo(Ancestors, Len(certs))
BY AncestorsExist DEF Ancestors, AncestorsUpTo

\* An accepted chain lists all the ancestors of its leaf.
LEMMA ChainHasAncestors ==
    ASSUME CertsInv, ParentsFirst, NEW chain \in Chains, NEW rev, NEW t,
           ChainValid(chain, rev, t)
    PROVE  \A a \in Ancestors[chain[Len(chain)]] : \E i \in DOMAIN chain : chain[i] = a
<1>1. PICK n \in Nat \ {0} : /\ DOMAIN chain = 1 .. n /\ Len(chain) = n
                             /\ \A i \in 1 .. n : chain[i] \in DOMAIN certs
  BY ChainFacts
<1>2. PICK anc : anc = Ancestors
  OBVIOUS
<1>3. \A i \in 0 .. Len(certs) :
         anc[i] = IF i = 0 THEN {} ELSE {i} \cup anc[certs[i].parentCertId]
  BY <1>2, AncestorsValue DEF AncestorsUpTo
<1>4. \A i \in 1 .. n : chain[i] \in 0 .. Len(certs) /\ chain[i] # 0
  BY <1>1 DEF CertsInv
<1>5. 0 \in 0 .. Len(certs)
  BY <1>1, <1>4
<1> DEFINE T == {i \in 1 .. n : \A a \in anc[chain[i]] : \E j \in 1 .. n : chain[j] = a}
<1>6. 1 \in T
  <2>1. 1 \in 1 .. n /\ certs[chain[1]].parentCertId = 0
    BY <1>1 DEF ChainValid, RootLink
  <2>2. anc[chain[1]] = {chain[1]} \cup anc[0]
    BY <1>3, <1>4, <2>1
  <2>3. anc[0] = {}
    BY <1>3, <1>5
  <2> QED BY <2>1, <2>2, <2>3
<1>7. \A i \in 1 .. n : i \in T /\ i + 1 <= n => i + 1 \in T
  <2> SUFFICES ASSUME NEW i \in 1 .. n, i \in T, i + 1 <= n PROVE i + 1 \in T
    OBVIOUS
  <2>1. i + 1 \in 1 .. n /\ i + 1 # 1 /\ (i + 1) - 1 = i
    BY <1>1
  <2>2. certs[chain[i + 1]].parentCertId = chain[i]
    BY <1>1, <2>1 DEF ChainValid, Linked
  <2>3. anc[chain[i + 1]] = {chain[i + 1]} \cup anc[chain[i]]
    BY <1>3, <1>4, <2>1, <2>2
  <2> QED BY <2>1, <2>3
<1> HIDE DEF T
<1>8. \A i \in 1 .. n : i \in T
  BY <1>1, <1>6, <1>7, AllPositions, Zenon
<1>9. n \in T
  BY <1>1, <1>8
<1> QED BY <1>1, <1>2, <1>9 DEF T

\* "revoking a parent recursively invalidates all descendants": what a peer knows of
\* revocations is typed and within what the home reached, and no chain to a
\* certificate below a revoked one passes verifyAccountAuthority, whatever other
\* certificates are spliced in.
THEOREM DescendantsCutOff == Spec => []RevocationSound
<1>1. AuthorityInv => TypeOK
  <2> SUFFICES ASSUME AuthorityInv PROVE TypeOK
    OBVIOUS
  <2>1. /\ now \in 0 .. MaxTime /\ Len(certs) <= MaxCerts
        /\ home \in State /\ view \in State
        /\ \A r \in published : r.payload \in State
    BY BoundsAssumption DEF AuthorityInv, BoundsInv, CertsInv
  <2>2. retained # None => /\ retained.key \in Devices
                           /\ retained.chain \in Chains
                           /\ retained.chainExpiresAtMs \in Nat
    BY EarliestExpiry DEF AuthorityInv, KeptInv
  <2> QED BY <2>1, <2>2 DEF TypeOK
<1>2. AuthorityInv => AncestorRevoked
  <2> SUFFICES ASSUME AuthorityInv, NEW chain \in Chains,
                      NEW a \in Ancestors[chain[Len(chain)]], a \in view.revokedCertIds,
                      ChainValid(chain, view, now)
               PROVE  FALSE
    BY DEF AncestorRevoked
  <2>1. PICK i \in DOMAIN chain : chain[i] = a
    BY ChainHasAncestors DEF AuthorityInv
  <2>2. CertValid(chain[i], view, now)
    BY DEF ChainValid
  <2> QED BY <2>1, <2>2 DEF CertValid
<1> QED BY <1>1, <1>2, AuthorityInductive, PTL DEF RevocationSound
=============================================================================
