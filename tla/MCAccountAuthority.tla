------------------------- MODULE MCAccountAuthority -------------------------
(* Finite instances of AccountAuthority for TLC.                           *)
EXTENDS AccountAuthority, TLC

DeviceSymmetry == Permutations(Devices)

\* A device signs in its own name for the account.
HonestClaims == {<<Root, Self>>}

\* It also signs for its own account, and in the name of the root.
AllClaims == {<<Root, Self>>, <<Self, Self>>, <<Root, Root>>}

Others == Capabilities \ {Delegate}

Grant(caps, depth, delay, ttl) ==
    [capabilities |-> caps, maxDelegationDepth |-> depth, delay |-> delay, ttl |-> ttl]

\* A full grant that can be delegated once, and one that cannot.
TwoGrants == {Grant(Capabilities, 1, 0, 2), Grant(Others, 0, 0, 1)}

\* A full grant, one that has the right to delegate but no depth left, and one
\* without that right whose window starts later.
ThreeGrants ==
    {Grant(Capabilities, 1, 0, 2), Grant({Delegate}, 0, 0, 1), Grant(Others, 0, 1, 2)}

----------------------------------------------------------------------------
(* The questions need different sizes: the behaviours explored are those    *)
(* whose every state is in one of three scopes.                            *)

\* Devices sign in their own name, and nothing is admitted.
Honest ==
    /\ retained = None
    /\ \A i \in DOMAIN certs : certs[i].account = Root /\ certs[i].signer = certs[i].sig

\* At most one record, of a state that revokes or cuts off.
OneRecord == Cardinality(published) <= 1 /\ \A r \in published : r.payload.epoch > 0

\* Chains of every shape, retained over a tick and a mutation.
Delegation == now <= 1 /\ Len(certs) <= 2 /\ home.epoch <= 1 /\ OneRecord

\* A third certificate to splice around a revoked one.
Splicing ==
    /\ Honest /\ now = 0 /\ OneRecord
    /\ home.epoch = Cardinality(home.revokedCertIds) /\ home.epoch <= 1

\* Records of several epochs and times.
Ordering == Honest /\ Len(certs) <= 1

\* The first conjunct leaves out steps that would leave the scopes.
MCNext ==
    /\ \/ (Len(certs) < 2 \/ Splicing) /\ Sign
       \/ Len(certs) <= 2 /\ Admission
       \/ AtHome \/ Accept \/ Tick
    /\ (Delegation \/ Splicing \/ Ordering)'

MCSpec == Init /\ [][MCNext]_vars
=============================================================================
