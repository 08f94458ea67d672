------------------------------ MODULE Handshake ------------------------------
(***************************************************************************)
(* X3DH session establishment between parties: X3DHKeyExchange and         *)
(* SecureChannelManager over X3DHService and MemorySessionManager.         *)
(*                                                                         *)
(* A party issues an invite whose binding holds its prekey bundle and      *)
(* keeps the signed prekey's private half.  A party that accepts the       *)
(* invite computes the secret, installs an initiator session and sends a   *)
(* signed handshake; the inviter completes it, installs a responder        *)
(* session, rotates its ratchet key and acknowledges.                      *)
(*                                                                         *)
(* Keys are symbolic.  A Diffie-Hellman output is the set of the two keys  *)
(* it joins, a secret is the tuple of its outputs, a signature is its      *)
(* signer and what it covers.  The manager offers no one-time prekeys      *)
(* (oneTimePreKeyPublic is null), so the fourth output never exists.       *)
(*                                                                         *)
(* Faults: any packet may be late, reordered, processed twice or never;    *)
(* a bundle or a packet may reach a caller with a field that belongs to    *)
(* another one; a process may stop at any moment and come back from the    *)
(* last snapshot that was exported.  The callers of X3DHKeyExchange are    *)
(* outside the repository.  They verify a packet before they complete it,  *)
(* complete one handshake at a time, and answer as the comments of the     *)
(* answer records say; when they drop a prekey is up to them, and until    *)
(* then a handshake may be completed again, for completeInviteHandshake    *)
(* has no check against repeats.                                           *)
(***************************************************************************)
EXTENDS Naturals, Sequences, FiniteSets

CONSTANTS Parties,      \* accounts; a party's name is also its signing key
          MaxInvites,   \* bound: invites issued
          MaxLinks,     \* bound: invites accepted
          MaxRestarts   \* bound: restarts

ASSUME HandshakeConstants == /\ MaxInvites \in Nat
                             /\ MaxLinks \in Nat
                             /\ MaxRestarts \in Nat

VARIABLES invites,   \* sequence of issued bundles; an invite id is its index
          prekeys,   \* [Parties -> invite ids whose prekey state is kept]
          links,     \* acceptor's attempts; the ack nonce is the index
          out,       \* [Parties -> handshakes made and not yet sent]
          net,       \* packets deposited so far
          bySid,     \* [Parties -> [sid -> record]], bySidHex
          byPeer,    \* [Parties -> [peer -> sid]], byPeerId
          busy,      \* [Parties -> handshakes being completed, at most one]
          snap,      \* [Parties -> rows of the last exported snapshot]
          restarts,
          made,      \* ghost: [Parties -> what was installed under which sid]
          replaced,  \* ghost: <<party, sid>> that left byPeer
          crossed,   \* ghost: <<party, sid>> rotated by another's completion
          saved      \* ghost: [Parties -> sids known at the last export]

vars == <<invites, prekeys, links, out, net, bySid, byPeer, busy, snap, restarts,
          made, replaced, crossed, saved>>

-----------------------------------------------------------------------------
(* Keys, signatures and agreements. *)

Idk(p) == <<"idk", p>>      \* long-term identity DH key
Spk(i) == <<"spk", i>>      \* signed prekey of invite i
Eph(n) == <<"eph", n>>      \* ephemeral of attempt n
Ratchet(n) == <<"rat", n>>  \* first ratchet key the initiator announces
Reply(n) == <<"rep", n>>    \* ratchet key the responder creates
Rotated(n) == <<"rot", n>>  \* ratchet key that replaces it

Sign(p, msg) == [by |-> p, over |-> msg]
Verify(key, msg, sig) == sig = Sign(key, msg)
dhDerive(x, y) == {x, y}

deriveSessionIdV1(secret) == <<"sid", secret>>

-----------------------------------------------------------------------------
(* X3DHService. *)

PublicKeys == {Idk(p) : p \in Parties} \cup {Spk(i) : i \in 1 .. MaxInvites}
Signatures == [by : Parties, over : PublicKeys]

X3DHPreKeyBundle ==
    [receiverId : Parties, signKey : Parties,
     idDh : PublicKeys, idDhSig : Signatures,
     spk : PublicKeys, spkSig : Signatures]

createReceiverBundle(id, key, dh, spk) ==
    [receiverId |-> id, signKey |-> key,
     idDh |-> dh, idDhSig |-> Sign(key, dh),
     spk |-> spk, spkSig |-> Sign(key, spk)]

generatePreKeyBundle(p, i) == createReceiverBundle(p, p, Idk(p), Spk(i))

\* Mutant: the prekey's signature is not verified.
SpkUnverified(b) == TRUE

SpkVerified(b) == Verify(b.signKey, b.spk, b.spkSig)

IdkVerified(b) == Verify(b.signKey, b.idDh, b.idDhSig)

\* The caller's own binding, checked before a packet ships.
SelfVerified(p) == Verify(p, Idk(p), Sign(p, Idk(p)))

InitiatorSecret(p, n, b) ==
    <<dhDerive(Idk(p), b.spk), dhDerive(Eph(n), b.idDh), dhDerive(Eph(n), b.spk)>>

X3DHInitiatorHandshake(p, n, b) ==
    [receiverId |-> b.receiverId, signKey |-> p,
     idDh |-> Idk(p), idDhSig |-> Sign(p, Idk(p)), eph |-> Eph(n)]

\* The packet an initiator signs; the caller adds invite and nonce.
HandshakeData(p, n, b, i) ==
    LET x == X3DHInitiatorHandshake(p, n, b) IN
    [receiverId |-> x.receiverId, signKey |-> x.signKey, idDh |-> x.idDh,
     idDhSig |-> x.idDhSig, eph |-> x.eph, ratchet |-> Ratchet(n),
     hint |-> b.spk, invite |-> i, nonce |-> n]

ReceiverAccepts(q, h) == /\ h.receiverId = q
                         /\ Verify(h.signKey, h.idDh, h.idDhSig)

\* Mutant: the ephemeral is joined with the keys in the other order.
ReceiverSecretSwapped(q, spk, h) ==
    <<dhDerive(spk, h.idDh), dhDerive(spk, h.eph), dhDerive(Idk(q), h.eph)>>

ReceiverSecret(q, spk, h) ==
    <<dhDerive(spk, h.idDh), dhDerive(Idk(q), h.eph), dhDerive(spk, h.eph)>>

ResponderSid(q, h) == deriveSessionIdV1(ReceiverSecret(q, h.hint, h))

\* Mutant: the envelope's signature is not looked at.
EnvelopeUnverified(body, signed) == TRUE

\* Mutant: the signed bytes leave the initiator's ratchet key out.
RatchetUnsigned(body, signed) ==
    \/ Verify(body.signKey, body, Sign(signed.signKey, signed))
    \/ /\ "ratchet" \in DOMAIN body
       /\ [body EXCEPT !.ratchet = signed.ratchet] = signed

\* verifyHandshakeEnvelope: the packet was signed as `signed`, `body` arrived.
EnvelopeVerified(body, signed) ==
    Verify(body.signKey, body, Sign(signed.signKey, signed))

-----------------------------------------------------------------------------
(* MemorySessionManager. *)

Record(peer, role, self, remote) ==
    [peer |-> peer, role |-> role, self |-> self, remote |-> remote, dh |-> FALSE]

\* The map f with key k set to v.
Put(f, k, v) == [x \in DOMAIN f \cup {k} |-> IF x = k THEN v ELSE f[x]]

\* createInitiatorSession and createResponderSession
Install(p, sid, r) ==
    /\ byPeer' = [byPeer EXCEPT ![p] = Put(@, r.peer, sid)]
    /\ bySid' = [bySid EXCEPT ![p] = Put(@, sid, r)]
    /\ made' = [made EXCEPT ![p] = @ \cup
                   {[sid |-> sid, peer |-> r.peer, role |-> r.role, remote |-> r.remote]}]
    /\ replaced' = replaced \cup
          {<<p, byPeer[p][q]>> : q \in {q \in DOMAIN byPeer[p] : q = r.peer /\ byPeer[p][q] # sid}}

\* rotateDh after its key generation: the captured record is written.
rotateDh(p, sid, n) ==
    bySid' = [bySid EXCEPT ![p][sid] =
                 [@ EXCEPT !.self = Rotated(n), !.dh = TRUE]]

\* Mutant: only sessions that owe the peer a key are exported.
RowsOwing(p) == {[peer |-> q, sid |-> byPeer[p][q], rec |-> bySid[p][byPeer[p][q]]] :
                     q \in {q \in DOMAIN byPeer[p] : bySid[p][byPeer[p][q]].dh}}

Rows(p) == {[peer |-> q, sid |-> byPeer[p][q], rec |-> bySid[p][byPeer[p][q]]] :
                q \in DOMAIN byPeer[p]}

exportSnapshot(p) ==
    /\ snap' = [snap EXCEPT ![p] = Rows(p)]
    /\ saved' = [saved EXCEPT ![p] = DOMAIN bySid[p]]
    /\ UNCHANGED <<invites, prekeys, links, out, net, bySid, byPeer, busy, restarts,
                   made, replaced, crossed>>

RowOf(rows, sid) == CHOOSE r \in rows : r.sid = sid
RowFor(rows, q) == CHOOSE r \in rows : r.peer = q

\* A process stops and a new one imports the last snapshot.
importSnapshot(p) ==
    /\ restarts < MaxRestarts
    /\ restarts' = restarts + 1
    /\ bySid' = [bySid EXCEPT ![p] =
                    [s \in {r.sid : r \in snap[p]} |-> RowOf(snap[p], s).rec]]
    /\ byPeer' = [byPeer EXCEPT ![p] =
                    [q \in {r.peer : r \in snap[p]} |-> RowFor(snap[p], q).sid]]
    /\ busy' = [busy EXCEPT ![p] = {}]
    /\ out' = [out EXCEPT ![p] = {}]
    /\ UNCHANGED <<invites, prekeys, links, net, snap, made, replaced, crossed,
                   saved>>

-----------------------------------------------------------------------------
(* X3DHKeyExchange: invites and handshakes. *)

Init ==
    /\ invites = <<>>
    /\ prekeys = [p \in Parties |-> {}]
    /\ links = <<>>
    /\ out = [p \in Parties |-> {}]
    /\ net = {}
    /\ bySid = [p \in Parties |-> <<>>]
    /\ byPeer = [p \in Parties |-> <<>>]
    /\ busy = [p \in Parties |-> {}]
    /\ snap = [p \in Parties |-> {}]
    /\ restarts = 0
    /\ made = [p \in Parties |-> {}]
    /\ replaced = {}
    /\ crossed = {}
    /\ saved = [p \in Parties |-> {}]

\* prepareInviteBinding, and the caller keeping the prekey state
prepareInviteBinding(p) ==
    LET i == Len(invites) + 1 IN
    /\ i <= MaxInvites
    /\ invites' = Append(invites, generatePreKeyBundle(p, i))
    /\ prekeys' = [prekeys EXCEPT ![p] = @ \cup {i}]
    /\ UNCHANGED <<links, out, net, bySid, byPeer, busy, snap, restarts, made,
                   replaced, crossed, saved>>

\* The bundle b as it may reach a caller that also holds c.
BundlesSeen(b, c) ==
    {b,
     [b EXCEPT !.receiverId = c.receiverId],
     [b EXCEPT !.spk = c.spk],
     [b EXCEPT !.spk = c.spk, !.spkSig = c.spkSig],
     [b EXCEPT !.idDh = c.idDh, !.idDhSig = c.idDhSig]}

InitiatorSid(p, n, b) == deriveSessionIdV1(InitiatorSecret(p, n, b))

\* Every binding is verified before a session exists.
establishInitiatorSession(p, n, peer, b) ==
    /\ SpkVerified(b) /\ IdkVerified(b) /\ SelfVerified(p)
    /\ Install(p, InitiatorSid(p, n, b),
               Record(peer, "initiator", Ratchet(n), b.spk))

\* processAcceptedInvite; the caller notes the attempt and has the handshake.
processAcceptedInvite(p, i, b) ==
    LET n == Len(links) + 1
        peer == invites[i].signKey
    IN /\ n <= MaxLinks
       /\ peer # p
       /\ establishInitiatorSession(p, n, peer, b)
       /\ out' = [out EXCEPT ![p] = @ \cup {HandshakeData(p, n, b, i)}]
       /\ links' = Append(links, [by |-> p, peer |-> peer, to |-> b.receiverId,
                                  sid |-> InitiatorSid(p, n, b),
                                  status |-> "pending"])
       /\ UNCHANGED <<invites, prekeys, net, busy, snap, restarts, crossed, saved>>

\* The caller signs and deposits the handshake.
sendHandshake(p) ==
    \E h \in out[p] :
        /\ net' = net \cup {[kind |-> "handshake", body |-> h]}
        /\ out' = [out EXCEPT ![p] = @ \ {h}]
        /\ UNCHANGED <<invites, prekeys, links, bySid, byPeer, busy, snap, restarts,
                       made, replaced, crossed, saved>>

\* The handshake h as it may arrive at an inviter that also receives g.
HandshakesSeen(h, g) ==
    {h,
     [h EXCEPT !.receiverId = g.receiverId],
     [h EXCEPT !.idDh = g.idDh, !.idDhSig = g.idDhSig],
     [h EXCEPT !.ratchet = g.ratchet],
     [h EXCEPT !.hint = g.hint]}

Handshakes == {m.body : m \in {m \in net : m.kind = "handshake"}}

Retained(q, h) == h.hint \in {Spk(i) : i \in prekeys[q]}

\* establishResponderSession up to its rotateDh
establishResponderSession(q, h) ==
    /\ ReceiverAccepts(q, h)
    /\ Install(q, ResponderSid(q, h),
               Record(h.signKey, "responder", Reply(h.nonce), h.ratchet))

\* completeInviteHandshake up to the installed session
completeInviteHandshake(q, h) ==
    /\ establishResponderSession(q, h)
    /\ busy' = [busy EXCEPT ![q] = {[h |-> h, step |-> "installed", sid |-> ResponderSid(q, h)]}]
    /\ UNCHANGED <<invites, prekeys, links, out, net, snap, restarts, crossed, saved>>

\* The caller: the invite names the inbox a packet was deposited in, both
\* halves of the envelope go to verifyHandshakeEnvelope, and the hint picks a
\* prekey that is still kept.
receiveHandshake(q, signed, h) ==
    /\ invites[h.invite].signKey = q
    /\ busy[q] = {}
    /\ EnvelopeVerified(h, signed)
    /\ Retained(q, h)
    /\ completeInviteHandshake(q, h)

\* The rest of establishResponderSession.  rotateDh looks the peer up a turn
\* after the installation, and finds whichever record the peer has by then ...
rotateDhBegin(q) ==
    \E c \in busy[q] :
        /\ c.step = "installed"
        /\ busy' = [busy EXCEPT ![q] =
                       {[c EXCEPT !.step = "rotating", !.sid = byPeer[q][c.h.signKey]]}]
        /\ UNCHANGED <<invites, prekeys, links, out, net, bySid, byPeer, snap, restarts,
                       made, replaced, crossed, saved>>

\* ... and writes that record once the new key is there.
rotateDhEnd(q) ==
    \E c \in busy[q] :
        /\ c.step = "rotating"
        /\ rotateDh(q, c.sid, c.h.nonce)
        /\ crossed' = crossed \cup ({<<q, c.sid>>} \ {<<q, ResponderSid(q, c.h)>>})
        /\ busy' = [busy EXCEPT ![q] = {[c EXCEPT !.step = "done"]}]
        /\ UNCHANGED <<invites, prekeys, links, out, net, byPeer, snap, restarts,
                       made, replaced, saved>>

E2eeHandshakeAckV1(q, h) == [signKey |-> q, nonce |-> h.nonce]

\* Mutant: the sender's key is taken over from the handshake.
RejectFromSender(q, h) ==
    [signKey |-> h.signKey, nonce |-> h.nonce, reason |-> "INVITE_USED_UP"]

E2eeHandshakeRejectV1(q, h) ==
    [signKey |-> q, nonce |-> h.nonce, reason |-> "INVITE_USED_UP"]

\* The caller deposits its answer to the completed handshake.
acknowledge(q) ==
    \E c \in busy[q] :
        /\ c.step = "done"
        /\ net' = net \cup {[kind |-> "ack", body |-> E2eeHandshakeAckV1(q, c.h)]}
        /\ busy' = [busy EXCEPT ![q] = {}]
        /\ UNCHANGED <<invites, prekeys, links, out, bySid, byPeer, snap, restarts,
                       made, replaced, crossed, saved>>

\* keys.deleteInvitePreKey, whenever the caller's policy says so: an invite
\* may be used several times, and prekeys of earlier publications are kept.
deleteInvitePreKey(q) ==
    \E i \in prekeys[q] :
        /\ prekeys' = [prekeys EXCEPT ![q] = @ \ {i}]
        /\ UNCHANGED <<invites, links, out, net, bySid, byPeer, busy, snap, restarts,
                       made, replaced, crossed, saved>>

\* A handshake whose invite is used up or expired, by the caller's count and
\* clock, is turned down.
rejectHandshake(q, h) ==
    /\ invites[h.invite].signKey = q
    /\ busy[q] = {}
    /\ net' = net \cup {[kind |-> "reject", body |-> E2eeHandshakeRejectV1(q, h)]}
    /\ UNCHANGED <<invites, prekeys, links, out, bySid, byPeer, busy, snap, restarts,
                   made, replaced, crossed, saved>>

\* An answer as it may arrive: its own nonce or another attempt's.
Settled(kind) == IF kind = "ack" THEN "confirmed" ELSE "rolledBack"

onAnswer(p, m, nonce) ==
    LET body == [m.body EXCEPT !.nonce = nonce] IN
    /\ m.kind \in {"ack", "reject"}
    /\ links[nonce].by = p
    /\ links[nonce].status = "pending"
    /\ body.signKey = links[nonce].peer
    /\ EnvelopeVerified(body, m.body)
    /\ links' = [links EXCEPT ![nonce].status = Settled(m.kind)]
    /\ UNCHANGED <<invites, prekeys, out, net, bySid, byPeer, busy, snap, restarts,
                   made, replaced, crossed, saved>>

Establish ==
    \/ \E p \in Parties : prepareInviteBinding(p)
    \/ \E p \in Parties, i, j \in 1 .. Len(invites) :
          \E b \in BundlesSeen(invites[i], invites[j]) : processAcceptedInvite(p, i, b)

\* The node q reads the handshake of attempt n in its inbox.
Process(q, n) ==
    \E h \in Handshakes :
        /\ h.nonce = n
        /\ \/ \E g \in Handshakes :
                \E seen \in HandshakesSeen(h, g) : receiveHandshake(q, h, seen)
           \/ rejectHandshake(q, h)

Continue(q) == rotateDhBegin(q) \/ rotateDhEnd(q) \/ acknowledge(q)

Answer(n) == \E p \in Parties, m \in net : onAnswer(p, m, n)

Next ==
    \/ Establish
    \/ \E p \in Parties :
          \/ sendHandshake(p) \/ Continue(p) \/ deleteInvitePreKey(p)
          \/ exportSnapshot(p) \/ importSnapshot(p)
          \/ \E n \in 1 .. Len(links) : Process(p, n)
    \/ \E n \in 1 .. Len(links) : Answer(n)

Spec == Init /\ [][Next]_vars

\* A completion that was begun goes on, and a packet stays in its mailbox until
\* it is served, whatever else is served meanwhile (a node is not free while it
\* completes a handshake, hence the strong fairness).  Nothing makes the
\* acceptor send a handshake.
Fairness ==
    /\ \A p \in Parties : WF_vars(Continue(p))
    /\ \A n \in 1 .. MaxLinks :
          /\ SF_vars(\E p \in Parties : Process(p, n))
          /\ WF_vars(n <= Len(links) /\ Answer(n))

FairSpec == Spec /\ Fairness

-----------------------------------------------------------------------------
(* Properties. *)

Installed(p) == {m.sid : m \in made[p]}

\* A current session is one the party can also receive on; counters and keys
\* are within their sets.
TypeOK ==
    /\ \A i \in DOMAIN invites : invites[i] \in X3DHPreKeyBundle
    /\ \A p \in Parties :
          /\ prekeys[p] \subseteq {i \in 1 .. Len(invites) : invites[i].signKey = p}
          /\ DOMAIN byPeer[p] \subseteq Parties \ {p}
          /\ \A q \in DOMAIN byPeer[p] : /\ byPeer[p][q] \in DOMAIN bySid[p]
                                         /\ bySid[p][byPeer[p][q]].peer = q
          /\ DOMAIN bySid[p] \subseteq Installed(p)
          /\ Cardinality(busy[p]) <= 1
    /\ restarts \in 0 .. MaxRestarts
    /\ \A n \in DOMAIN links : links[n].status \in {"pending", "confirmed", "rolledBack"}

\* Two parties that hold the same session id hold the two ends of one
\* handshake: one initiator and one responder, each filed under the other, and
\* the responder ratchets against the key the initiator has, unless another
\* completion rotated that key away (a session that is installed in the turn
\* between createResponderSession and rotateDh is the one that is rotated).
KeyAgreement ==
    \A p, q \in Parties : p # q =>
        \A s \in DOMAIN bySid[p] \cap DOMAIN bySid[q] :
            LET a == bySid[p][s]
                b == bySid[q][s]
            IN /\ a.peer = q
               /\ a.role # b.role
               /\ a.role = "initiator" =>
                     \/ b.remote = a.self
                     \/ <<p, s>> \in crossed

\* Every current session can be found by its id and by its peer, and agrees with
\* the other end (createInitiatorSession, createResponderSession).
SessionsSound == TypeOK /\ KeyAgreement

\* An initiator session is one its peer, and nobody else, can complete: every
\* key it was agreed with is the peer's, whatever bundle the caller was given
\* (initiatorCompute verifies both bindings before any agreement).
OnePeer ==
    \A n \in DOMAIN links :
        LET p == links[n].by
            q == links[n].peer
        IN \E i \in DOMAIN invites :
              /\ invites[i].signKey = q
              /\ links[n].sid = deriveSessionIdV1(
                    <<{Idk(p), Spk(i)}, {Eph(n), Idk(q)}, {Eph(n), Spk(i)}>>)

\* Whatever is installed under one session id, by a handshake completed again
\* while its prekey is kept, after a restart or with fields of another packet,
\* is the same end of the same handshake: same peer, same role, same remote
\* ratchet key (completeInviteHandshake does not look for repeats).
InstalledAlike ==
    \A p \in Parties : \A x, y \in made[p] : x.sid = y.sid => x = y

\* An acknowledged attempt has its other end: the peer installed the same
\* session (ack nonces and signatures keep other attempts' answers out).
ConfirmedEstablished ==
    \A n \in DOMAIN links :
        links[n].status = "confirmed" => links[n].sid \in Installed(links[n].peer)

\* A session the peer sends on, once both ends installed it, is forgotten only
\* if a restart found it replaced by a later handshake (exportSnapshot writes
\* one row per peer) or newer than the snapshot.
Remembered ==
    \A p, q \in Parties :
        (q \in DOMAIN byPeer[p] /\ byPeer[p][q] \in Installed(q) \ DOMAIN bySid[q])
            => \/ <<q, byPeer[p][q]>> \in replaced
               \/ byPeer[p][q] \notin saved[q]

\* Every attempt whose handshake was sent and is made out to the peer is
\* answered: once no more invites are accepted, none of them stays pending.
Decided ==
    []<>(\A h \in Handshakes :
            links[h.nonce].to = links[h.nonce].peer => links[h.nonce].status # "pending")
=============================================================================
