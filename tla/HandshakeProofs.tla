-------------------------- MODULE HandshakeProofs --------------------------
(***************************************************************************)
(* Sessions that handshakes establish, for any parties, invites, attempts   *)
(* and restarts: both ends of a session agree, each session has the one     *)
(* peer it was meant for, an acknowledged one has its other end, it is the   *)
(* same end however often it is installed, and it is forgotten only where a  *)
(* restart does it.                                                          *)
(***************************************************************************)
EXTENDS Handshake, FiniteSetTheorems, SequenceTheorems, TLAPS

(* The id of the session of attempt n of p at q, agreed with prekey k. *)
Sid(p, q, n, k) ==
    deriveSessionIdV1(<<{Idk(p), k}, {Eph(n), Idk(q)}, {Eph(n), k}>>)

Prekeys == {Spk(i) : i \in 1 .. MaxInvites}
Sids == {Sid(p, q, n, k) : p \in Parties, q \in Parties, n \in 1 .. MaxLinks, k \in Prekeys}

RatchetKeys ==
    Prekeys \cup {Ratchet(n) : n \in Nat} \cup {Reply(n) : n \in Nat} \cup {Rotated(n) : n \in Nat}

RecordType ==
    [peer : Parties, role : {"initiator", "responder"}, self : RatchetKeys,
     remote : RatchetKeys, dh : BOOLEAN]

LinkType ==
    [by : Parties, peer : Parties, to : Parties, sid : Sids,
     status : {"pending", "confirmed", "rolledBack"}]

(* Invites are what prepareInviteBinding made, and their prekeys their own. *)
InvitesInv ==
    /\ invites \in Seq(X3DHPreKeyBundle) /\ Len(invites) <= MaxInvites
    /\ \A i \in 1 .. Len(invites) :
          invites[i] = generatePreKeyBundle(invites[i].signKey, i)
    /\ prekeys \in [Parties -> SUBSET (1 .. Len(invites))]
    /\ \A p \in Parties : \A i \in prekeys[p] : invites[i].signKey = p

(* An attempt is agreed with a prekey its peer has issued. *)
LinksInv ==
    /\ links \in Seq(LinkType) /\ Len(links) <= MaxLinks
    /\ \A n \in 1 .. Len(links) :
          /\ links[n].by # links[n].peer
          /\ \E i \in 1 .. Len(invites) :
                /\ invites[i].signKey = links[n].peer
                /\ links[n].sid = Sid(links[n].by, links[n].peer, n, Spk(i))

(* The handshake h is the one attempt h.nonce sent. *)
Sent(h) ==
    /\ h.nonce \in 1 .. Len(links)
    /\ h.signKey = links[h.nonce].by
    /\ h.receiverId = links[h.nonce].to
    /\ h.idDh = Idk(h.signKey) /\ h.eph = Eph(h.nonce) /\ h.ratchet = Ratchet(h.nonce)
    /\ h.invite \in 1 .. Len(invites) /\ invites[h.invite].signKey = links[h.nonce].peer
    /\ h.hint \in Prekeys
    /\ links[h.nonce].sid = Sid(h.signKey, links[h.nonce].peer, h.nonce, h.hint)

(* An ack from the peer means that it has installed the session. *)
NetInv ==
    \A m \in net :
        /\ m.kind = "handshake" => Sent(m.body)
        /\ m.kind = "ack" =>
              /\ m.body = [signKey |-> m.body.signKey, nonce |-> m.body.nonce]
              /\ m.body.nonce \in 1 .. Len(links)
              /\ m.body.signKey = links[m.body.nonce].peer
              /\ links[m.body.nonce].sid \in Installed(m.body.signKey)

(* A handshake that waits to be sent is an attempt's own. *)
OutInv == \A p \in Parties : \A h \in out[p] : Sent(h)

(* A handshake being completed has its session installed, and the record    *)
(* that is rotated is there.                                                *)
Completing(q, c) ==
    /\ busy[q] = {c}
    /\ c = [h |-> c.h, step |-> c.step, sid |-> c.sid]
    /\ Sent(c.h) /\ links[c.h.nonce].peer = q
    /\ links[c.h.nonce].sid \in Installed(q)
    /\ c.h.signKey \in DOMAIN byPeer[q]
    /\ c.sid \in DOMAIN bySid[q]

BusyInv == \A q \in Parties : \A c \in busy[q] : Completing(q, c)

(* A record is one end of an attempt; crossing completions may have rotated *)
(* an initiator's key.                                                      *)
EndOf(p, s, r, n) ==
    /\ r \in RecordType /\ links[n].sid = s
    /\ \/ /\ links[n].by = p /\ r.peer = links[n].peer /\ r.role = "initiator"
          /\ r.self = Ratchet(n) \/ <<p, s>> \in crossed
       \/ /\ links[n].peer = p /\ r.peer = links[n].by /\ r.role = "responder"
          /\ r.remote = Ratchet(n)

IsEnd(p, s, r) == \E n \in 1 .. Len(links) : EndOf(p, s, r, n)

SessionsInv ==
    \A p \in Parties :
        /\ DOMAIN bySid[p] \subseteq Installed(p)
        /\ \A s \in DOMAIN bySid[p] : IsEnd(p, s, bySid[p][s])
        /\ \A q \in DOMAIN byPeer[p] :
              byPeer[p][q] \in DOMAIN bySid[p] /\ bySid[p][byPeer[p][q]].peer = q
        /\ \A s \in DOMAIN bySid[p] :
              (\E q \in DOMAIN byPeer[p] : byPeer[p][q] = s) \/ <<p, s>> \in replaced

(* A snapshot has one row per peer, of a session that is still there. *)
SnapInv ==
    \A p \in Parties :
        /\ \A r \in snap[p] : /\ IsEnd(p, r.sid, r.rec) /\ r.rec.peer = r.peer
                              /\ r.sid \in DOMAIN bySid[p]
                              /\ \A u \in snap[p] : u.peer = r.peer => u.sid = r.sid
        /\ \A s \in saved[p] : (\E r \in snap[p] : r.sid = s) \/ <<p, s>> \in replaced

(* What was installed is one end of an attempt: the attempt tells peer, role *)
(* and remote key.                                                          *)
MadeFor(p, x, n) ==
    \E i \in 1 .. Len(invites) :
        /\ links[n].sid = Sid(links[n].by, links[n].peer, n, Spk(i))
        /\ \/ /\ links[n].by = p
              /\ x = [sid |-> links[n].sid, peer |-> links[n].peer,
                      role |-> "initiator", remote |-> Spk(i)]
           \/ /\ links[n].peer = p
              /\ x = [sid |-> links[n].sid, peer |-> links[n].by,
                      role |-> "responder", remote |-> Ratchet(n)]

MadeInv ==
    \A p \in Parties : \A x \in made[p] : \E n \in 1 .. Len(links) : MadeFor(p, x, n)

Shape ==
    /\ restarts \in 0 .. MaxRestarts
    /\ DOMAIN bySid = Parties /\ DOMAIN byPeer = Parties /\ DOMAIN snap = Parties
    /\ DOMAIN saved = Parties /\ DOMAIN busy = Parties /\ DOMAIN out = Parties
    /\ DOMAIN made = Parties

HandshakeInv ==
    /\ Shape /\ InvitesInv /\ LinksInv /\ OutInv /\ NetInv /\ BusyInv /\ SessionsInv
    /\ SnapInv /\ MadeInv /\ ConfirmedEstablished

-----------------------------------------------------------------------------
(* The symbolic keys and the records of the protocol.                      *)

(* An id tells its attempt, its two parties and its prekey. *)
LEMMA SidInjective ==
    ASSUME NEW p, NEW q, NEW n, NEW i, NEW p2, NEW q2, NEW n2, NEW i2,
           Sid(p, q, n, Spk(i)) = Sid(p2, q2, n2, Spk(i2))
    PROVE  p = p2 /\ q = q2 /\ n = n2 /\ i = i2
  <1>1. /\ {Idk(p), Spk(i)} = {Idk(p2), Spk(i2)}
        /\ {Eph(n), Idk(q)} = {Eph(n2), Idk(q2)}
    BY DEF Sid, deriveSessionIdV1
  <1>2. Idk(p) = Idk(p2) /\ Spk(i) = Spk(i2)
    BY <1>1 DEF Idk, Spk
  <1>3. Eph(n) = Eph(n2) /\ Idk(q) = Idk(q2)
    BY <1>1 DEF Idk, Eph
  <1> QED BY <1>2, <1>3 DEF Idk, Spk, Eph

LEMMA HandshakeDataFacts ==
    ASSUME NEW p, NEW n, NEW b, NEW i
    PROVE  /\ HandshakeData(p, n, b, i).nonce = n
           /\ HandshakeData(p, n, b, i).signKey = p
           /\ HandshakeData(p, n, b, i).receiverId = b.receiverId
           /\ HandshakeData(p, n, b, i).idDh = Idk(p)
           /\ HandshakeData(p, n, b, i).eph = Eph(n)
           /\ HandshakeData(p, n, b, i).ratchet = Ratchet(n)
           /\ HandshakeData(p, n, b, i).invite = i
           /\ HandshakeData(p, n, b, i).hint = b.spk
  BY DEF HandshakeData, X3DHInitiatorHandshake

LEMMA BundleFacts ==
    ASSUME NEW p \in Parties, NEW i \in 1 .. MaxInvites
    PROVE  /\ generatePreKeyBundle(p, i) \in X3DHPreKeyBundle
           /\ generatePreKeyBundle(p, i).signKey = p
           /\ generatePreKeyBundle(p, i).receiverId = p
           /\ generatePreKeyBundle(p, i).idDh = Idk(p)
           /\ generatePreKeyBundle(p, i).spk = Spk(i)
           /\ generatePreKeyBundle(p, i).idDhSig = Sign(p, Idk(p))
           /\ generatePreKeyBundle(p, i).spkSig = Sign(p, Spk(i))
  <1>1. Idk(p) \in PublicKeys /\ Spk(i) \in PublicKeys
    BY DEF PublicKeys
  <1>2. Sign(p, Idk(p)) \in Signatures /\ Sign(p, Spk(i)) \in Signatures
    BY <1>1 DEF Sign, Signatures
  <1> QED
    BY <1>1, <1>2 DEF generatePreKeyBundle, createReceiverBundle, X3DHPreKeyBundle

LEMMA SignInjective ==
    ASSUME NEW p, NEW q, NEW x, NEW y, Sign(p, x) = Sign(q, y)
    PROVE  p = q /\ x = y
  BY DEF Sign

(* A bundle that passes both checks has the keys of one party, its signer. *)
LEMMA SeenBundle ==
    ASSUME InvitesInv, NEW i \in 1 .. Len(invites), NEW j \in 1 .. Len(invites),
           NEW b \in BundlesSeen(invites[i], invites[j]), SpkVerified(b), IdkVerified(b)
    PROVE  /\ b.signKey = invites[i].signKey
           /\ b.receiverId \in Parties
           /\ b.idDh = Idk(invites[i].signKey)
           /\ \E l \in {i, j} : invites[l].signKey = invites[i].signKey /\ b.spk = Spk(l)
  <1> DEFINE x == invites[i]
             y == invites[j]
  <1>0. /\ i \in 1 .. MaxInvites /\ j \in 1 .. MaxInvites
        /\ x \in X3DHPreKeyBundle /\ y \in X3DHPreKeyBundle
        /\ x = generatePreKeyBundle(x.signKey, i) /\ y = generatePreKeyBundle(y.signKey, j)
    BY HandshakeConstants DEF InvitesInv
  <1> HIDE DEF x, y
  <1>p. x.signKey \in Parties /\ y.signKey \in Parties
    BY <1>0 DEF X3DHPreKeyBundle
  <1>1. /\ x.receiverId = x.signKey /\ x.idDh = Idk(x.signKey) /\ x.spk = Spk(i)
        /\ x.idDhSig = Sign(x.signKey, Idk(x.signKey)) /\ x.spkSig = Sign(x.signKey, Spk(i))
    BY <1>0, <1>p, BundleFacts
  <1>2. /\ y.receiverId = y.signKey /\ y.idDh = Idk(y.signKey) /\ y.spk = Spk(j)
        /\ y.idDhSig = Sign(y.signKey, Idk(y.signKey)) /\ y.spkSig = Sign(y.signKey, Spk(j))
    BY <1>0, <1>p, BundleFacts
  <1>3. b.spkSig = Sign(b.signKey, b.spk) /\ b.idDhSig = Sign(b.signKey, b.idDh)
    BY DEF SpkVerified, IdkVerified, Verify
  <1>b. b \in BundlesSeen(x, y)
    BY DEF x, y
  <1>4. /\ b.signKey = x.signKey
        /\ b.receiverId \in {x.receiverId, y.receiverId}
        /\ b.idDh = x.idDh \/ (b.idDh = y.idDh /\ b.idDhSig = y.idDhSig)
        /\ b.spk = x.spk \/ (b.spk = y.spk /\ b.spkSig \in {x.spkSig, y.spkSig})
    BY <1>0, <1>b DEF BundlesSeen, X3DHPreKeyBundle
  <1>5. b.idDh = Idk(x.signKey)
    BY <1>1, <1>2, <1>3, <1>4, SignInjective
  <1>6. b.spk = Spk(i) \/ (b.spk = Spk(j) /\ (b.spkSig = y.spkSig \/ b.spkSig = x.spkSig))
    BY <1>1, <1>2, <1>4
  <1>7. b.spk = Spk(i) \/ (b.spk = Spk(j) /\ y.signKey = x.signKey)
    <2>1. CASE b.spkSig = y.spkSig
      BY <1>2, <1>3, <1>4, <1>6, <2>1, SignInjective
    <2>2. CASE b.spkSig = x.spkSig
      BY <1>1, <1>3, <1>4, <1>6, <2>2, SignInjective
    <2> QED BY <1>6, <2>1, <2>2
  <1> QED BY <1>p, <1>1, <1>2, <1>4, <1>5, <1>7 DEF x, y

(* Ids of attempts are distinct. *)
LEMMA LinkUnique ==
    ASSUME LinksInv, NEW n \in 1 .. Len(links), NEW m \in 1 .. Len(links),
           links[n].sid = links[m].sid
    PROVE  n = m
  <1>1. PICK i \in 1 .. Len(invites) : links[n].sid = Sid(links[n].by, links[n].peer, n, Spk(i))
    BY DEF LinksInv
  <1>2. PICK j \in 1 .. Len(invites) : links[m].sid = Sid(links[m].by, links[m].peer, m, Spk(j))
    BY DEF LinksInv
  <1>3. Sid(links[n].by, links[n].peer, n, Spk(i)) = Sid(links[m].by, links[m].peer, m, Spk(j))
    BY <1>1, <1>2
  <1> QED BY ONLY <1>3, SidInjective

(* The two parties of an attempt. *)
LEMMA LinkFacts ==
    ASSUME LinksInv, NEW n \in 1 .. Len(links)
    PROVE  /\ links[n] \in LinkType /\ links[n].by \in Parties /\ links[n].peer \in Parties
           /\ links[n].by # links[n].peer /\ links[n].sid \in Sids
  <1>1. links[n] \in LinkType
    <2>1. links \in Seq(LinkType)
      BY DEF LinksInv
    <2> QED BY <2>1
  <1>2. links[n].by # links[n].peer
    BY DEF LinksInv
  <1> QED BY <1>1, <1>2 DEF LinkType

(* Peer and role of a record are determined by its id. *)
LEMMA EndUnique ==
    ASSUME LinksInv, NEW p, NEW s, NEW r, NEW u, IsEnd(p, s, r), IsEnd(p, s, u)
    PROVE  r.peer = u.peer
  <1>1. PICK n \in 1 .. Len(links) : EndOf(p, s, r, n)
    BY DEF IsEnd
  <1>2. PICK m \in 1 .. Len(links) : EndOf(p, s, u, m)
    BY DEF IsEnd
  <1>3. n = m
    BY <1>1, <1>2, LinkUnique DEF EndOf
  <1> QED BY <1>1, <1>2, <1>3, LinkFacts DEF EndOf

LEMMA ResponderSidFacts ==
    ASSUME NEW h, Sent(h)
    PROVE  ResponderSid(links[h.nonce].peer, h) = links[h.nonce].sid
  BY DEF Sent, ResponderSid, ReceiverSecret, dhDerive, Sid

LEMMA EnvelopeFacts ==
    ASSUME NEW h, NEW g, EnvelopeVerified(h, g)
    PROVE  h = g
  BY SignInjective DEF EnvelopeVerified, Verify

-----------------------------------------------------------------------------
(* What every step keeps: invites and attempts are never taken back.       *)

Grows ==
    /\ Len(invites) \in Nat /\ Len(invites') \in Nat /\ Len(invites) <= Len(invites')
    /\ \A i \in 1 .. Len(invites) : invites'[i] = invites[i]
    /\ Len(links) \in Nat /\ Len(links') \in Nat /\ Len(links) <= Len(links')
    /\ \A n \in 1 .. Len(links) :
          /\ links'[n].by = links[n].by /\ links'[n].peer = links[n].peer
          /\ links'[n].to = links[n].to /\ links'[n].sid = links[n].sid
    /\ \A p \in Parties : Installed(p) \subseteq Installed(p)'
    /\ crossed \subseteq crossed'

LEMMA GrownSent ==
    ASSUME Grows, NEW h, Sent(h)
    PROVE  Sent(h)'
  BY DEF Grows, Sent

LEMMA GrownEnd ==
    ASSUME Grows, NEW p, NEW s, NEW r, IsEnd(p, s, r)
    PROVE  IsEnd(p, s, r)'
  <1>1. PICK n \in 1 .. Len(links) : EndOf(p, s, r, n)
    BY DEF IsEnd
  <1>2. n \in 1 .. Len(links')
    BY DEF Grows
  <1>3. EndOf(p, s, r, n)'
    BY <1>1 DEF Grows, EndOf
  <1> QED BY <1>2, <1>3 DEF IsEnd

LEMMA GrownMadeFor ==
    ASSUME Grows, NEW p, NEW x, NEW n \in 1 .. Len(links), MadeFor(p, x, n)
    PROVE  MadeFor(p, x, n)'
  <1>1. PICK i \in 1 .. Len(invites) :
             /\ links[n].sid = Sid(links[n].by, links[n].peer, n, Spk(i))
             /\ \/ /\ links[n].by = p
                   /\ x = [sid |-> links[n].sid, peer |-> links[n].peer,
                           role |-> "initiator", remote |-> Spk(i)]
                \/ /\ links[n].peer = p
                   /\ x = [sid |-> links[n].sid, peer |-> links[n].by,
                           role |-> "responder", remote |-> Ratchet(n)]
    BY DEF MadeFor
  <1>2. i \in 1 .. Len(invites')
    BY DEF Grows
  <1>3. /\ links'[n].sid = links[n].sid /\ links'[n].by = links[n].by
        /\ links'[n].peer = links[n].peer
    BY DEF Grows
  <1> QED BY <1>1, <1>2, <1>3 DEF MadeFor

LEMMA Lengths ==
    ASSUME InvitesInv, LinksInv
    PROVE  Len(invites) \in Nat /\ Len(links) \in Nat
  BY DEF InvitesInv, LinksInv

LEMMA GrownNet ==
    ASSUME LinksInv, NetInv, Grows, UNCHANGED net
    PROVE  NetInv'
  <1> SUFFICES ASSUME NEW m \in net
               PROVE  /\ m.kind = "handshake" => Sent(m.body)'
                      /\ m.kind = "ack" =>
                            /\ m.body = [signKey |-> m.body.signKey, nonce |-> m.body.nonce]
                            /\ m.body.nonce \in 1 .. Len(links')
                            /\ m.body.signKey = links'[m.body.nonce].peer
                            /\ links'[m.body.nonce].sid \in Installed(m.body.signKey)'
    BY DEF NetInv
  <1>1. m.kind = "handshake" => Sent(m.body)'
    BY GrownSent DEF NetInv
  <1>2. ASSUME m.kind = "ack"
        PROVE  /\ m.body.nonce \in 1 .. Len(links')
               /\ m.body.signKey = links'[m.body.nonce].peer
               /\ links'[m.body.nonce].sid \in Installed(m.body.signKey)'
    <2>1. /\ m.body.nonce \in 1 .. Len(links)
          /\ m.body.signKey = links[m.body.nonce].peer
          /\ links[m.body.nonce].sid \in Installed(m.body.signKey)
      BY <1>2 DEF NetInv
    <2>2. m.body.signKey \in Parties
      BY <2>1, LinkFacts
    <2> QED BY <2>1, <2>2 DEF Grows
  <1> QED BY <1>1, <1>2 DEF NetInv

LEMMA GrownOut ==
    ASSUME OutInv, Grows, \A p \in Parties : out'[p] \subseteq out[p]
    PROVE  OutInv'
  <1> SUFFICES ASSUME NEW p \in Parties, NEW h \in out'[p]
               PROVE  Sent(h)'
    BY DEF OutInv
  <1>1. Sent(h)
    BY DEF OutInv
  <1> QED BY <1>1, GrownSent

(* A completion that is not disturbed. *)
LEMMA GrownCompleting ==
    ASSUME Grows, NEW q \in Parties, NEW c, Completing(q, c), busy'[q] = {c},
           DOMAIN byPeer[q] \subseteq DOMAIN byPeer'[q], DOMAIN bySid[q] \subseteq DOMAIN bySid'[q]
    PROVE  Completing(q, c)'
  <1>1. Sent(c.h)'
    BY GrownSent DEF Completing
  <1>2. c.h.nonce \in 1 .. Len(links)
    BY DEF Completing, Sent
  <1>3. /\ links'[c.h.nonce].peer = links[c.h.nonce].peer
        /\ links'[c.h.nonce].sid = links[c.h.nonce].sid
        /\ Installed(q) \subseteq Installed(q)'
    BY <1>2 DEF Grows
  <1> QED BY <1>1, <1>3 DEF Completing

LEMMA GrownBusy ==
    ASSUME BusyInv, Grows, UNCHANGED busy,
           \A q \in Parties : DOMAIN byPeer[q] \subseteq DOMAIN byPeer'[q],
           \A q \in Parties : DOMAIN bySid[q] \subseteq DOMAIN bySid'[q]
    PROVE  BusyInv'
  <1> SUFFICES ASSUME NEW q \in Parties, NEW c \in busy'[q]
               PROVE  Completing(q, c)'
    BY DEF BusyInv
  <1>1. Completing(q, c)
    BY DEF BusyInv
  <1>2. busy'[q] = {c}
    BY <1>1 DEF Completing
  <1> QED BY <1>1, <1>2, GrownCompleting

LEMMA GrownMade ==
    ASSUME MadeInv, Grows, UNCHANGED made
    PROVE  MadeInv'
  <1> SUFFICES ASSUME NEW p \in Parties, NEW x \in made[p]
               PROVE  \E n \in 1 .. Len(links') : MadeFor(p, x, n)'
    BY DEF MadeInv
  <1>1. PICK n \in 1 .. Len(links) : MadeFor(p, x, n)
    BY DEF MadeInv
  <1>2. MadeFor(p, x, n)' /\ n \in 1 .. Len(links')
    BY <1>1, GrownMadeFor DEF Grows
  <1> QED BY <1>2

LEMMA GrownSessions ==
    ASSUME SessionsInv, Grows, UNCHANGED <<bySid, byPeer, replaced>>
    PROVE  SessionsInv'
  <1>1. \A p \in Parties : Installed(p) \subseteq Installed(p)'
    BY DEF Grows
  <1>2. \A p \in Parties : \A s \in DOMAIN bySid[p] : IsEnd(p, s, bySid[p][s])'
    BY GrownEnd DEF SessionsInv
  <1> QED BY <1>1, <1>2 DEF SessionsInv

LEMMA GrownSnap ==
    ASSUME SnapInv, Grows, UNCHANGED <<snap, saved>>, replaced \subseteq replaced',
           \A p \in Parties : DOMAIN bySid[p] \subseteq DOMAIN bySid'[p]
    PROVE  SnapInv'
  <1>1. \A p \in Parties : \A r \in snap[p] : IsEnd(p, r.sid, r.rec)'
    BY GrownEnd DEF SnapInv
  <1> QED BY <1>1 DEF SnapInv

(* Nothing an attempt's sid stands for changes with its status. *)
LEMMA GrownConfirmed ==
    ASSUME LinksInv, ConfirmedEstablished, Grows, links \in Seq(LinkType), links' \in Seq(LinkType),
           \A n \in 1 .. Len(links') :
               links'[n].status = "confirmed" =>
                   n \in 1 .. Len(links) /\ links[n].status = "confirmed"
    PROVE  ConfirmedEstablished'
  <1> SUFFICES ASSUME NEW n \in DOMAIN links', links'[n].status = "confirmed"
               PROVE  links'[n].sid \in {m.sid : m \in made'[links'[n].peer]}
    BY DEF ConfirmedEstablished, Installed
  <1>1. n \in 1 .. Len(links) /\ links[n].status = "confirmed" /\ n \in DOMAIN links
    OBVIOUS
  <1>2. links[n].sid \in Installed(links[n].peer) /\ links[n].peer \in Parties
    BY <1>1, LinkFacts DEF ConfirmedEstablished
  <1>3. links'[n].sid = links[n].sid /\ links'[n].peer = links[n].peer
    BY <1>1 DEF Grows
  <1>4. Installed(links[n].peer) \subseteq Installed(links[n].peer)'
    BY <1>2 DEF Grows
  <1>5. links'[n].sid \in Installed(links[n].peer)'
    BY <1>2, <1>3, <1>4
  <1> QED BY <1>3, <1>5 DEF Installed

-----------------------------------------------------------------------------
(* What installing a session does.                                         *)

LEMMA InstallMade ==
    ASSUME Shape, NEW p \in Parties, NEW s, NEW r, Install(p, s, r)
    PROVE  /\ DOMAIN made' = Parties
           /\ made'[p] = made[p] \cup
                 {[sid |-> s, peer |-> r.peer, role |-> r.role, remote |-> r.remote]}
           /\ \A q \in Parties \ {p} : made'[q] = made[q]
           /\ Installed(p)' = Installed(p) \cup {s}
           /\ \A q \in Parties \ {p} : Installed(q)' = Installed(q)
           /\ \A q \in Parties : Installed(q) \subseteq Installed(q)'
  <1>1. /\ DOMAIN made' = Parties
        /\ made'[p] = made[p] \cup
              {[sid |-> s, peer |-> r.peer, role |-> r.role, remote |-> r.remote]}
        /\ \A q \in Parties \ {p} : made'[q] = made[q]
    BY DEF Install, Shape
  <1>2. Installed(p)' = Installed(p) \cup {s}
    <2>1. PICK e : e = [sid |-> s, peer |-> r.peer, role |-> r.role, remote |-> r.remote]
      OBVIOUS
    <2>2. made'[p] = made[p] \cup {e} /\ e.sid = s
      BY <1>1, <2>1
    <2>3. {m.sid : m \in made[p] \cup {e}} = {m.sid : m \in made[p]} \cup {e.sid}
      OBVIOUS
    <2> QED BY <2>2, <2>3 DEF Installed
  <1>3. \A q \in Parties \ {p} : Installed(q)' = Installed(q)
    BY <1>1 DEF Installed
  <1> QED BY <1>1, <1>2, <1>3

(* An installed end of attempt n is one more. *)
LEMMA InstallMadeInv ==
    ASSUME Shape, MadeInv, Grows, NEW p \in Parties, NEW s, NEW r, Install(p, s, r),
           NEW n \in 1 .. Len(links'),
           MadeFor(p, [sid |-> s, peer |-> r.peer, role |-> r.role, remote |-> r.remote], n)'
    PROVE  MadeInv'
  <1> SUFFICES ASSUME NEW q \in Parties, NEW x \in made'[q]
               PROVE  \E m \in 1 .. Len(links') : MadeFor(q, x, m)'
    BY DEF MadeInv
  <1>1. CASE q = p /\ x = [sid |-> s, peer |-> r.peer, role |-> r.role, remote |-> r.remote]
    <2>1. PICK e : e = [sid |-> s, peer |-> r.peer, role |-> r.role, remote |-> r.remote]
      OBVIOUS
    <2>2. MadeFor(p, e, n)'
      BY <2>1
    <2> QED BY <1>1, <2>1, <2>2
  <1>2. CASE ~(q = p /\ x = [sid |-> s, peer |-> r.peer, role |-> r.role, remote |-> r.remote])
    <2>1. x \in made[q]
      BY <1>2, InstallMade
    <2>2. PICK m \in 1 .. Len(links) : MadeFor(q, x, m)
      BY <2>1 DEF MadeInv
    <2>3. MadeFor(q, x, m)' /\ m \in 1 .. Len(links')
      BY <2>2, GrownMadeFor DEF Grows
    <2> QED BY <2>3
  <1> QED BY <1>1, <1>2

LEMMA InstallSessions ==
    ASSUME Shape, SessionsInv, SnapInv, MadeInv, Grows, UNCHANGED <<snap, saved>>,
           NEW p \in Parties, NEW s \in Sids, NEW r, Install(p, s, r), IsEnd(p, s, r)',
           s \in DOMAIN bySid[p] => bySid[p][s].peer = r.peer
    PROVE  /\ SessionsInv' /\ SnapInv'
           /\ DOMAIN bySid' = Parties /\ DOMAIN byPeer' = Parties
           /\ \A q \in Parties : DOMAIN byPeer[q] \subseteq DOMAIN byPeer'[q]
           /\ \A q \in Parties : DOMAIN bySid[q] \subseteq DOMAIN bySid'[q]
           /\ r.peer \in DOMAIN byPeer'[p] /\ s \in DOMAIN bySid'[p]
  <1>1. /\ DOMAIN bySid' = Parties /\ DOMAIN byPeer' = Parties
        /\ \A q \in Parties \ {p} : bySid'[q] = bySid[q] /\ byPeer'[q] = byPeer[q]
        /\ bySid'[p] = Put(bySid[p], s, r) /\ byPeer'[p] = Put(byPeer[p], r.peer, s)
    BY DEF Install, Shape
  <1>2. /\ DOMAIN bySid'[p] = DOMAIN bySid[p] \cup {s}
        /\ bySid'[p][s] = r
        /\ \A x \in DOMAIN bySid[p] : x # s => bySid'[p][x] = bySid[p][x]
    BY <1>1 DEF Put
  <1>3. /\ DOMAIN byPeer'[p] = DOMAIN byPeer[p] \cup {r.peer}
        /\ byPeer'[p][r.peer] = s
        /\ \A x \in DOMAIN byPeer[p] : x # r.peer => byPeer'[p][x] = byPeer[p][x]
    BY <1>1 DEF Put
  <1>4. /\ replaced \subseteq replaced'
        /\ (r.peer \in DOMAIN byPeer[p] /\ byPeer[p][r.peer] # s)
              => <<p, byPeer[p][r.peer]>> \in replaced'
    BY DEF Install
  <1>5. SnapInv'
    <2>1. \A q \in Parties : DOMAIN bySid[q] \subseteq DOMAIN bySid'[q]
      BY <1>1, <1>2
    <2> QED BY <1>4, <2>1, GrownSnap
  <1>6. SessionsInv'
    <2> SUFFICES ASSUME NEW q \in Parties
                 PROVE  /\ DOMAIN bySid'[q] \subseteq Installed(q)'
                        /\ \A x \in DOMAIN bySid'[q] : IsEnd(q, x, bySid[q][x])'
                        /\ \A y \in DOMAIN byPeer'[q] :
                              byPeer'[q][y] \in DOMAIN bySid'[q] /\ bySid'[q][byPeer'[q][y]].peer = y
                        /\ \A x \in DOMAIN bySid'[q] :
                              \/ \E y \in DOMAIN byPeer'[q] : byPeer'[q][y] = x
                              \/ <<q, x>> \in replaced'
      BY DEF SessionsInv
    <2>0. Installed(q) \subseteq Installed(q)'
      BY DEF Grows
    <2>s. /\ DOMAIN bySid[q] \subseteq Installed(q)
          /\ \A y \in DOMAIN byPeer[q] :
                 byPeer[q][y] \in DOMAIN bySid[q] /\ bySid[q][byPeer[q][y]].peer = y
          /\ \A x \in DOMAIN bySid[q] :
                 (\E y \in DOMAIN byPeer[q] : byPeer[q][y] = x) \/ <<q, x>> \in replaced
      BY DEF SessionsInv
    <2>e. \A x \in DOMAIN bySid[q] : IsEnd(q, x, bySid[q][x])
      BY DEF SessionsInv
    <2>1. CASE q # p
      <3>1. bySid'[q] = bySid[q] /\ byPeer'[q] = byPeer[q]
        BY <1>1, <2>1
      <3>2. \A x \in DOMAIN bySid'[q] : IsEnd(q, x, bySid[q][x])'
        <4> SUFFICES ASSUME NEW x \in DOMAIN bySid[q]
                     PROVE  IsEnd(q, x, bySid[q][x])'
          BY <3>1
        <4>1. PICK u : u = bySid[q][x]
          OBVIOUS
        <4>2. IsEnd(q, x, u)'
          BY <2>e, <4>1, GrownEnd
        <4>3. u = bySid'[q][x]
          BY <3>1, <4>1
        <4> QED BY <4>2, <4>3 DEF IsEnd, EndOf
      <3> QED BY <2>0, <2>s, <3>1, <3>2, <1>4
    <2>2. CASE q = p
      <3>1. DOMAIN bySid'[p] \subseteq Installed(p)'
        <4>1. s \in Installed(p)'
          BY InstallMade
        <4> QED BY <4>1, <1>2, <2>0, <2>s, <2>2
      <3>2. ASSUME NEW x \in DOMAIN bySid'[p]
            PROVE  IsEnd(p, x, bySid[p][x])'
        <4>1. PICK u : u = bySid'[p][x]
          OBVIOUS
        <4>2. CASE x = s
          BY <4>1, <4>2, <1>2 DEF IsEnd, EndOf
        <4>3. CASE x # s
          <5>1. IsEnd(p, x, u)
            BY <4>1, <4>3, <1>2, <2>2, <2>e
          <5>2. IsEnd(p, x, u)'
            BY <5>1, GrownEnd
          <5> QED BY <4>1, <5>2 DEF IsEnd, EndOf
        <4> QED BY <4>2, <4>3
      <3>3. ASSUME NEW y \in DOMAIN byPeer'[p]
            PROVE  byPeer'[p][y] \in DOMAIN bySid'[p] /\ bySid'[p][byPeer'[p][y]].peer = y
        <4>1. CASE y = r.peer
          BY <4>1, <1>2, <1>3
        <4>2. CASE y # r.peer
          BY <4>2, <1>2, <1>3, <2>2, <2>s
        <4> QED BY <4>1, <4>2
      <3>4. ASSUME NEW x \in DOMAIN bySid'[p]
            PROVE  (\E y \in DOMAIN byPeer'[p] : byPeer'[p][y] = x) \/ <<p, x>> \in replaced'
        <4>1. CASE x = s
          BY <4>1, <1>3
        <4>2. CASE x # s
          BY <4>2, <1>2, <1>3, <1>4, <2>2, <2>s
        <4> QED BY <4>1, <4>2
      <3> QED BY <2>2, <3>1, <3>2, <3>3, <3>4
    <2> QED BY <2>1, <2>2
  <1> QED BY <1>1, <1>2, <1>3, <1>5, <1>6

-----------------------------------------------------------------------------
(* One lemma per action.                                                   *)

LEMMA InviteStep ==
    ASSUME HandshakeInv, NEW p \in Parties, prepareInviteBinding(p)
    PROVE  HandshakeInv'
  <1> USE DEF HandshakeInv
  <1>1. PICK i : i = Len(invites) + 1
    OBVIOUS
  <1>2. /\ i <= MaxInvites /\ invites' = Append(invites, generatePreKeyBundle(p, i))
        /\ prekeys' = [prekeys EXCEPT ![p] = @ \cup {i}]
        /\ UNCHANGED <<links, out, net, bySid, byPeer, busy, snap, restarts, made,
                       replaced, crossed, saved>>
    BY <1>1 DEF prepareInviteBinding
  <1>3. Len(invites) \in Nat /\ Len(links) \in Nat /\ i \in 1 .. MaxInvites
    BY <1>1, <1>2, Lengths, HandshakeConstants
  <1>4. /\ generatePreKeyBundle(p, i) \in X3DHPreKeyBundle
        /\ generatePreKeyBundle(p, i).signKey = p
    BY <1>3, BundleFacts
  <1>5. /\ invites' \in Seq(X3DHPreKeyBundle) /\ Len(invites') = i
        /\ \A j \in 1 .. Len(invites) : invites'[j] = invites[j]
        /\ invites'[i] = generatePreKeyBundle(p, i)
    <2>1. invites \in Seq(X3DHPreKeyBundle)
      BY DEF InvitesInv
    <2> QED BY <2>1, <1>1, <1>2, <1>4
  <1>6. InvitesInv'
    <2>1. \A j \in 1 .. Len(invites') :
             invites'[j] = generatePreKeyBundle(invites'[j].signKey, j)
      <3> SUFFICES ASSUME NEW j \in 1 .. Len(invites')
                   PROVE  invites'[j] = generatePreKeyBundle(invites'[j].signKey, j)
        OBVIOUS
      <3>1. CASE j = i
        BY <3>1, <1>4, <1>5
      <3>2. CASE j # i
        <4>1. j \in 1 .. Len(invites)
          BY <3>2, <1>1, <1>3, <1>5
        <4> QED BY <4>1, <1>5 DEF InvitesInv
      <3> QED BY <3>1, <3>2
    <2>2. prekeys' \in [Parties -> SUBSET (1 .. Len(invites'))]
      <3>1. prekeys \in [Parties -> SUBSET (1 .. Len(invites))]
        BY DEF InvitesInv
      <3>2. 1 .. Len(invites) \subseteq 1 .. Len(invites') /\ i \in 1 .. Len(invites')
        BY <1>1, <1>3, <1>5
      <3> QED BY <1>2, <3>1, <3>2
    <2>3. \A q \in Parties : \A j \in prekeys'[q] : invites'[j].signKey = q
      <3> SUFFICES ASSUME NEW q \in Parties, NEW j \in prekeys'[q]
                   PROVE  invites'[j].signKey = q
        OBVIOUS
      <3>1. prekeys \in [Parties -> SUBSET (1 .. Len(invites))]
        BY DEF InvitesInv
      <3>2. CASE j \in prekeys[q]
        BY <3>1, <3>2, <1>5 DEF InvitesInv
      <3>3. CASE j \notin prekeys[q]
        BY <3>1, <3>3, <1>2, <1>4, <1>5
      <3> QED BY <3>2, <3>3
    <2> QED BY <1>2, <1>5, <2>1, <2>2, <2>3 DEF InvitesInv
  <1>7. Grows
    BY <1>1, <1>2, <1>3, <1>5 DEF Grows, Installed
  <1>8. LinksInv'
    <2>1. \A n \in 1 .. Len(links) : \E j \in 1 .. Len(invites') :
             /\ invites'[j].signKey = links[n].peer
             /\ links[n].sid = Sid(links[n].by, links[n].peer, n, Spk(j))
      <3> SUFFICES ASSUME NEW n \in 1 .. Len(links)
                   PROVE  \E j \in 1 .. Len(invites') :
                             /\ invites'[j].signKey = links[n].peer
                             /\ links[n].sid = Sid(links[n].by, links[n].peer, n, Spk(j))
        OBVIOUS
      <3>1. PICK j \in 1 .. Len(invites) :
                 /\ invites[j].signKey = links[n].peer
                 /\ links[n].sid = Sid(links[n].by, links[n].peer, n, Spk(j))
        BY DEF LinksInv
      <3>2. j \in 1 .. Len(invites') /\ invites'[j] = invites[j]
        BY <1>1, <1>3, <1>5
      <3> QED BY <3>1, <3>2
    <2> QED BY <1>2, <2>1 DEF LinksInv
  <1>9. MadeInv' /\ OutInv'
    BY <1>2, <1>7, GrownMade, GrownOut
  <1>10. NetInv' /\ BusyInv' /\ SessionsInv' /\ SnapInv'
    BY <1>2, <1>7, GrownNet, GrownBusy, GrownSessions, GrownSnap
  <1>11. Shape' /\ ConfirmedEstablished'
    BY <1>2 DEF Shape, ConfirmedEstablished, Installed
  <1> QED BY <1>6, <1>8, <1>9, <1>10, <1>11

LEMMA ExportStep ==
    ASSUME HandshakeInv, NEW p \in Parties, exportSnapshot(p)
    PROVE  HandshakeInv'
  <1> USE DEF HandshakeInv
  <1>1. /\ snap' = [snap EXCEPT ![p] = Rows(p)] /\ saved' = [saved EXCEPT ![p] = DOMAIN bySid[p]]
        /\ UNCHANGED <<invites, prekeys, links, out, net, bySid, byPeer, busy, restarts,
                       made, replaced, crossed>>
    BY DEF exportSnapshot
  <1>2. SnapInv'
    <2> SUFFICES ASSUME NEW q \in Parties
                 PROVE  /\ \A r \in snap'[q] :
                              /\ IsEnd(q, r.sid, r.rec)' /\ r.rec.peer = r.peer
                              /\ r.sid \in DOMAIN bySid[q]
                              /\ \A u \in snap'[q] : u.peer = r.peer => u.sid = r.sid
                        /\ \A s \in saved'[q] : (\E r \in snap'[q] : r.sid = s) \/ <<q, s>> \in replaced
      BY <1>1 DEF SnapInv
    <2>e. \A s, r : IsEnd(q, s, r) => IsEnd(q, s, r)'
      BY <1>1 DEF IsEnd, EndOf
    <2>1. CASE q # p
      <3>1. snap'[q] = snap[q] /\ saved'[q] = saved[q]
        BY <1>1, <2>1 DEF Shape
      <3> QED BY <3>1, <2>e DEF SnapInv
    <2>2. CASE q = p
      <3>1. snap'[q] = Rows(q) /\ saved'[q] = DOMAIN bySid[q]
        BY <1>1, <2>2 DEF Shape
      <3>2. ASSUME NEW r \in Rows(q)
            PROVE  /\ r.peer \in DOMAIN byPeer[q] /\ r.sid = byPeer[q][r.peer]
                   /\ r.rec = bySid[q][r.sid]
        BY <3>2 DEF Rows
      <3>3. \A r \in Rows(q) : /\ IsEnd(q, r.sid, r.rec) /\ r.rec.peer = r.peer
                               /\ r.sid \in DOMAIN bySid[q]
        BY <3>2 DEF SessionsInv
      <3>4. \A s \in DOMAIN bySid[q] : (\E r \in Rows(q) : r.sid = s) \/ <<q, s>> \in replaced
        <4> SUFFICES ASSUME NEW y \in DOMAIN byPeer[q]
                     PROVE  \E r \in Rows(q) : r.sid = byPeer[q][y]
          BY DEF SessionsInv
        <4>1. [peer |-> y, sid |-> byPeer[q][y], rec |-> bySid[q][byPeer[q][y]]] \in Rows(q)
          BY DEF Rows
        <4> QED BY <4>1
      <3> QED BY <2>e, <3>1, <3>2, <3>3, <3>4
    <2> QED BY <2>1, <2>2
  <1>3. Grows
    BY <1>1, Lengths DEF Grows, Installed
  <1>4. NetInv' /\ BusyInv' /\ SessionsInv'
    BY <1>1, <1>3, GrownNet, GrownBusy, GrownSessions
  <1>5. InvitesInv' /\ LinksInv'
    BY <1>1 DEF InvitesInv, LinksInv
  <1>6. MadeInv' /\ OutInv'
    BY <1>1, <1>3, GrownMade, GrownOut
  <1>7. Shape' /\ ConfirmedEstablished'
    BY <1>1 DEF Shape, ConfirmedEstablished, Installed
  <1> QED BY <1>2, <1>4, <1>5, <1>6, <1>7

LEMMA ImportStep ==
    ASSUME HandshakeInv, NEW p \in Parties, importSnapshot(p)
    PROVE  HandshakeInv'
  <1> USE DEF HandshakeInv
  <1>1. /\ restarts < MaxRestarts /\ restarts' = restarts + 1
        /\ busy' = [busy EXCEPT ![p] = {}] /\ out' = [out EXCEPT ![p] = {}]
        /\ UNCHANGED <<invites, prekeys, links, net, snap, made, replaced, crossed, saved>>
    BY DEF importSnapshot
  <1>2. /\ DOMAIN bySid' = Parties /\ DOMAIN byPeer' = Parties
        /\ \A q \in Parties \ {p} : bySid'[q] = bySid[q] /\ byPeer'[q] = byPeer[q]
        /\ bySid'[p] = [s \in {r.sid : r \in snap[p]} |-> RowOf(snap[p], s).rec]
        /\ byPeer'[p] = [q \in {r.peer : r \in snap[p]} |-> RowFor(snap[p], q).sid]
    BY DEF importSnapshot, Shape
  <1>3. Grows
    BY <1>1, Lengths DEF Grows, Installed
  <1>4. ASSUME NEW s \in {r.sid : r \in snap[p]}
        PROVE  RowOf(snap[p], s) \in snap[p] /\ RowOf(snap[p], s).sid = s
    BY DEF RowOf
  <1>5. ASSUME NEW q \in {r.peer : r \in snap[p]}
        PROVE  RowFor(snap[p], q) \in snap[p] /\ RowFor(snap[p], q).peer = q
    BY DEF RowFor
  <1>e. \A q, s, r : IsEnd(q, s, r) => IsEnd(q, s, r)'
    BY <1>1 DEF IsEnd, EndOf
  <1>6. SessionsInv'
    <2> SUFFICES ASSUME NEW q \in Parties
                 PROVE  /\ DOMAIN bySid'[q] \subseteq Installed(q)'
                        /\ \A x \in DOMAIN bySid'[q] : IsEnd(q, x, bySid[q][x])'
                        /\ \A y \in DOMAIN byPeer'[q] :
                              byPeer'[q][y] \in DOMAIN bySid'[q] /\ bySid'[q][byPeer'[q][y]].peer = y
                        /\ \A x \in DOMAIN bySid'[q] :
                              \/ \E y \in DOMAIN byPeer'[q] : byPeer'[q][y] = x
                              \/ <<q, x>> \in replaced'
      BY DEF SessionsInv
    <2> SUFFICES /\ DOMAIN bySid'[q] \subseteq Installed(q)
                 /\ \A x \in DOMAIN bySid'[q] : IsEnd(q, x, bySid'[q][x])
                 /\ \A y \in DOMAIN byPeer'[q] :
                       byPeer'[q][y] \in DOMAIN bySid'[q] /\ bySid'[q][byPeer'[q][y]].peer = y
                 /\ \A x \in DOMAIN bySid'[q] :
                       \/ \E y \in DOMAIN byPeer'[q] : byPeer'[q][y] = x
                       \/ <<q, x>> \in replaced
      BY <1>1 DEF Installed, IsEnd, EndOf
    <2>1. CASE q # p
      BY <1>2, <2>1 DEF SessionsInv
    <2>2. CASE q = p
      <3>1. DOMAIN bySid'[p] \subseteq Installed(p)
        BY <1>2 DEF SnapInv, SessionsInv
      <3>2. \A x \in DOMAIN bySid'[p] : IsEnd(p, x, bySid'[p][x])
        BY <1>2, <1>4 DEF SnapInv
      <3>3. ASSUME NEW y \in DOMAIN byPeer'[p]
            PROVE  byPeer'[p][y] \in DOMAIN bySid'[p] /\ bySid'[p][byPeer'[p][y]].peer = y
        <4>1. PICK r \in snap[p] : r = RowFor(snap[p], y) /\ r.peer = y /\ byPeer'[p][y] = r.sid
          BY <1>2, <1>5
        <4>2. PICK u \in snap[p] : u = RowOf(snap[p], r.sid) /\ u.sid = r.sid /\ bySid'[p][r.sid] = u.rec
          BY <1>2, <1>4
        <4>3. IsEnd(p, r.sid, r.rec) /\ IsEnd(p, r.sid, u.rec) /\ r.rec.peer = y
          BY <4>1, <4>2 DEF SnapInv
        <4>4. u.rec.peer = y
          BY <4>3, EndUnique
        <4> QED BY <1>2, <4>1, <4>2, <4>4
      <3>4. ASSUME NEW x \in DOMAIN bySid'[p]
            PROVE  \E y \in DOMAIN byPeer'[p] : byPeer'[p][y] = x
        <4>1. PICK r \in snap[p] : r.sid = x
          BY <1>2
        <4>2. r.peer \in DOMAIN byPeer'[p] /\ byPeer'[p][r.peer] = RowFor(snap[p], r.peer).sid
          BY <1>2
        <4>3. RowFor(snap[p], r.peer) \in snap[p] /\ RowFor(snap[p], r.peer).peer = r.peer
          BY <1>5
        <4>4. RowFor(snap[p], r.peer).sid = x
          BY <4>1, <4>3 DEF SnapInv
        <4> QED BY <4>2, <4>4
      <3> QED BY <2>2, <3>1, <3>2, <3>3, <3>4
    <2> QED BY <2>1, <2>2
  <1>7. SnapInv'
    <2>1. \A q \in Parties : \A r \in snap[q] : r.sid \in DOMAIN bySid'[q]
      BY <1>2 DEF SnapInv
    <2> QED BY <1>1, <1>e, <2>1 DEF SnapInv
  <1>8. MadeInv' /\ OutInv'
    <2>1. \A q \in Parties : out'[q] \subseteq out[q]
      BY <1>1 DEF Shape
    <2> QED BY <1>1, <1>3, <2>1, GrownMade, GrownOut
  <1>9. BusyInv'
    <2> SUFFICES ASSUME NEW q \in Parties, NEW c \in busy'[q]
                 PROVE  Completing(q, c)'
      BY DEF BusyInv
    <2>1. q # p /\ busy'[q] = busy[q]
      BY <1>1 DEF Shape
    <2>2. Completing(q, c)
      BY <2>1 DEF BusyInv
    <2>3. busy'[q] = {c} /\ byPeer'[q] = byPeer[q] /\ bySid'[q] = bySid[q]
      BY <1>2, <2>1, <2>2 DEF Completing
    <2> QED BY <1>3, <2>2, <2>3, GrownCompleting
  <1>10. NetInv'
    BY <1>1, <1>3, GrownNet
  <1>11. InvitesInv' /\ LinksInv'
    BY <1>1 DEF InvitesInv, LinksInv
  <1>12. ConfirmedEstablished'
    BY <1>1 DEF ConfirmedEstablished, Installed
  <1>13. Shape'
    BY <1>1, <1>2, HandshakeConstants DEF Shape
  <1> QED BY <1>6, <1>7, <1>8, <1>9, <1>10, <1>11, <1>12, <1>13

LEMMA AcceptStep ==
    ASSUME HandshakeInv, NEW p \in Parties, NEW i \in 1 .. Len(invites), NEW j \in 1 .. Len(invites),
           NEW b \in BundlesSeen(invites[i], invites[j]), processAcceptedInvite(p, i, b)
    PROVE  HandshakeInv'
  <1> USE DEF HandshakeInv
  <1>1. PICK n, peer, s, r : /\ n = Len(links) + 1 /\ peer = invites[i].signKey
                             /\ s = InitiatorSid(p, n, b)
                             /\ r = Record(peer, "initiator", Ratchet(n), b.spk)
    OBVIOUS
  <1>2. /\ n <= MaxLinks /\ peer # p
        /\ SpkVerified(b) /\ IdkVerified(b) /\ Install(p, s, r)
        /\ out' = [out EXCEPT ![p] = @ \cup {HandshakeData(p, n, b, i)}]
        /\ links' = Append(links, [by |-> p, peer |-> peer, to |-> b.receiverId,
                                   sid |-> s, status |-> "pending"])
        /\ UNCHANGED <<invites, prekeys, net, busy, snap, restarts, crossed, saved>>
    BY <1>1 DEF processAcceptedInvite, establishInitiatorSession
  <1>3. Len(invites) \in Nat /\ Len(links) \in Nat /\ n \in 1 .. MaxLinks /\ n \in Nat
    BY <1>1, <1>2, Lengths, HandshakeConstants
  <1>4. /\ b.receiverId \in Parties /\ b.idDh = Idk(peer)
        /\ \E l \in {i, j} : invites[l].signKey = peer /\ b.spk = Spk(l)
    BY <1>1, <1>2, SeenBundle
  <1>5. PICK l \in 1 .. Len(invites) : invites[l].signKey = peer /\ b.spk = Spk(l)
    BY <1>4
  <1>6. l \in 1 .. MaxInvites /\ b.spk \in Prekeys /\ peer \in Parties
    <2>1. l \in 1 .. MaxInvites
      BY <1>3, HandshakeConstants DEF InvitesInv
    <2>2. invites[i] \in X3DHPreKeyBundle
      BY DEF InvitesInv
    <2> QED BY <1>1, <1>5, <2>1, <2>2 DEF Prekeys, X3DHPreKeyBundle
  <1>7. s = Sid(p, peer, n, Spk(l)) /\ s \in Sids
    <2>1. s = Sid(p, peer, n, b.spk)
      BY <1>1, <1>4 DEF InitiatorSid, InitiatorSecret, dhDerive, Sid
    <2> QED BY <2>1, <1>3, <1>5, <1>6 DEF Sids
  <1>8. /\ links' \in Seq(LinkType) /\ Len(links') = n
        /\ \A m \in 1 .. Len(links) : links'[m] = links[m]
        /\ links'[n] = [by |-> p, peer |-> peer, to |-> b.receiverId,
                        sid |-> s, status |-> "pending"]
    <2>1. [by |-> p, peer |-> peer, to |-> b.receiverId, sid |-> s, status |-> "pending"] \in LinkType
      BY <1>4, <1>6, <1>7 DEF LinkType
    <2>2. links \in Seq(LinkType)
      BY DEF LinksInv
    <2> QED BY <1>1, <1>2, <2>1, <2>2
  <1>9. \A q \in Parties : Installed(q) \subseteq Installed(q)'
    BY <1>2, InstallMade
  <1>11. Grows
    BY <1>1, <1>2, <1>3, <1>8, <1>9 DEF Grows
  <1>12. n \in 1 .. Len(links')
    BY <1>3, <1>8
  <1>13. LinksInv'
    <2> SUFFICES ASSUME NEW m \in 1 .. Len(links')
                 PROVE  /\ links'[m].by # links'[m].peer
                        /\ \E k \in 1 .. Len(invites) :
                              /\ invites[k].signKey = links'[m].peer
                              /\ links'[m].sid = Sid(links'[m].by, links'[m].peer, m, Spk(k))
      BY <1>2, <1>3, <1>8 DEF LinksInv
    <2>1. CASE m = n
      BY <1>2, <1>5, <1>7, <1>8, <2>1
    <2>2. CASE m # n
      <3>1. m \in 1 .. Len(links)
        BY <1>1, <1>3, <1>8, <2>2
      <3> QED BY <1>8, <3>1 DEF LinksInv
    <2> QED BY <2>1, <2>2
  <1>14. Sent(HandshakeData(p, n, b, i))'
    <2>1. PICK h : h = HandshakeData(p, n, b, i)
      OBVIOUS
    <2>2. /\ h.nonce = n /\ h.signKey = p /\ h.receiverId = b.receiverId /\ h.idDh = Idk(p)
          /\ h.eph = Eph(n) /\ h.ratchet = Ratchet(n) /\ h.invite = i /\ h.hint = b.spk
      BY <2>1, HandshakeDataFacts
    <2>3. Sent(h)'
      BY <1>1, <1>2, <1>5, <1>6, <1>7, <1>8, <1>12, <2>2 DEF Sent
    <2> QED BY <2>1, <2>3
  <1>15. NetInv' /\ OutInv'
    <2>1. NetInv'
      BY <1>2, <1>11, GrownNet
    <2> SUFFICES ASSUME NEW q \in Parties, NEW h \in out'[q]
                 PROVE  Sent(h)'
      BY <2>1 DEF OutInv
    <2>2. PICK d : d = HandshakeData(p, n, b, i)
      OBVIOUS
    <2>3. h \in out[q] \/ h = d
      BY <1>2, <2>2 DEF Shape
    <2>4. CASE h \in out[q]
      BY <1>11, <2>4, GrownSent DEF OutInv
    <2>5. CASE h = d
      BY <1>14, <2>2, <2>5
    <2> QED BY <2>3, <2>4, <2>5
  <1>16. s \notin Installed(p)
    <2> SUFFICES ASSUME s \in Installed(p) PROVE FALSE
      OBVIOUS
    <2>0. PICK x \in made[p] : x.sid = s
      BY DEF Installed
    <2>1. PICK m \in 1 .. Len(links) : links[m].sid = s
      BY <2>0 DEF MadeInv, MadeFor
    <2>2. PICK k \in 1 .. Len(invites) : s = Sid(links[m].by, links[m].peer, m, Spk(k))
      BY <2>1 DEF LinksInv
    <2>3. Sid(links[m].by, links[m].peer, m, Spk(k)) = Sid(p, peer, n, Spk(l))
      BY <1>7, <2>2
    <2>4. m = n
      BY ONLY <2>3, SidInjective
    <2> QED BY <1>1, <1>3, <2>4
  <1>18. IsEnd(p, s, r)'
    <2>1. r \in RecordType /\ r.peer = peer /\ r.role = "initiator" /\ r.self = Ratchet(n)
      BY <1>1, <1>3, <1>6 DEF Record, RecordType, RatchetKeys
    <2>2. EndOf(p, s, r, n)'
      BY <1>8, <2>1 DEF EndOf
    <2> QED BY <1>12, <2>2 DEF IsEnd
  <1>19. /\ SessionsInv' /\ SnapInv' /\ DOMAIN bySid' = Parties /\ DOMAIN byPeer' = Parties
         /\ \A q \in Parties : DOMAIN byPeer[q] \subseteq DOMAIN byPeer'[q]
         /\ \A q \in Parties : DOMAIN bySid[q] \subseteq DOMAIN bySid'[q]
    <2>1. s \notin DOMAIN bySid[p]
      BY <1>16 DEF SessionsInv
    <2> QED BY <1>2, <1>7, <1>11, <1>18, <2>1, InstallSessions
  <1>20. BusyInv'
    BY <1>2, <1>11, <1>19, GrownBusy
  <1>21. MadeInv' /\ DOMAIN made' = Parties
    <2>1. PICK e : e = [sid |-> s, peer |-> r.peer, role |-> r.role, remote |-> r.remote]
      OBVIOUS
    <2>2. e = [sid |-> s, peer |-> peer, role |-> "initiator", remote |-> Spk(l)]
      BY <1>1, <1>5, <2>1 DEF Record
    <2>3. MadeFor(p, e, n)'
      BY <1>2, <1>7, <1>8, <2>2 DEF MadeFor
    <2> QED BY <1>2, <1>11, <1>12, <2>1, <2>3, InstallMade, InstallMadeInv
  <1>22. ConfirmedEstablished'
    <2>1. links \in Seq(LinkType) /\ \A m \in 1 .. Len(links') :
             links'[m].status = "confirmed" =>
                 m \in 1 .. Len(links) /\ links[m].status = "confirmed"
      BY <1>1, <1>3, <1>8 DEF LinksInv
    <2> QED BY <1>8, <1>11, <2>1, GrownConfirmed
  <1>23. InvitesInv' /\ Shape'
    BY <1>2, <1>19, <1>21 DEF InvitesInv, Shape
  <1> QED BY <1>13, <1>15, <1>19, <1>20, <1>21, <1>22, <1>23

LEMMA CompleteStep ==
    ASSUME HandshakeInv, NEW q \in Parties, NEW signed \in Handshakes, NEW h,
           receiveHandshake(q, signed, h)
    PROVE  HandshakeInv'
  <1> USE DEF HandshakeInv
  <1>1. PICK n, s, r : /\ n = h.nonce /\ s = ResponderSid(q, h)
                       /\ r = Record(h.signKey, "responder", Reply(n), h.ratchet)
    OBVIOUS
  <1>2. /\ invites[h.invite].signKey = q /\ busy[q] = {} /\ EnvelopeVerified(h, signed)
        /\ Install(q, s, r)
        /\ busy' = [busy EXCEPT ![q] = {[h |-> h, step |-> "installed", sid |-> s]}]
        /\ UNCHANGED <<invites, prekeys, links, out, net, snap, restarts, crossed, saved>>
    BY <1>1 DEF receiveHandshake, completeInviteHandshake, establishResponderSession
  <1>3. Sent(h)
    <2>1. h = signed
      BY <1>2, EnvelopeFacts
    <2> QED BY <2>1 DEF Handshakes, NetInv
  <1>4. n \in 1 .. Len(links) /\ links[n].peer = q /\ links[n].sid = s /\ links[n].by = h.signKey
    BY <1>1, <1>2, <1>3, ResponderSidFacts DEF Sent
  <1>5. s \in Sids /\ h.signKey \in Parties /\ h.signKey # q
    BY <1>4, LinkFacts
  <1>6. /\ Installed(q)' = Installed(q) \cup {s} /\ DOMAIN made' = Parties
        /\ \A p \in Parties : Installed(p) \subseteq Installed(p)'
    BY <1>2, InstallMade
  <1>8. Grows
    BY <1>2, <1>6, Lengths DEF Grows
  <1>9. IsEnd(q, s, r)
    <2>1. n \in Nat
      BY <1>4, Lengths
    <2>2. /\ r \in RecordType /\ r.peer = h.signKey /\ r.role = "responder" /\ r.remote = Ratchet(n)
      BY <1>1, <1>3, <1>5, <2>1 DEF Record, RecordType, RatchetKeys, Sent
    <2> QED BY <1>4, <2>2 DEF IsEnd, EndOf
  <1>10. /\ SessionsInv' /\ SnapInv' /\ DOMAIN bySid' = Parties /\ DOMAIN byPeer' = Parties
         /\ \A p \in Parties : DOMAIN byPeer[p] \subseteq DOMAIN byPeer'[p]
         /\ \A p \in Parties : DOMAIN bySid[p] \subseteq DOMAIN bySid'[p]
         /\ h.signKey \in DOMAIN byPeer'[q] /\ s \in DOMAIN bySid'[q]
    <2>1. s \in DOMAIN bySid[q] => bySid[q][s].peer = r.peer
      BY <1>9, EndUnique DEF SessionsInv
    <2>2. IsEnd(q, s, r)'
      BY <1>8, <1>9, GrownEnd
    <2>3. r.peer = h.signKey
      BY <1>1 DEF Record
    <2> QED BY <1>2, <1>5, <1>8, <2>1, <2>2, <2>3, InstallSessions
  <1>13. MadeInv'
    <2>1. PICK e : e = [sid |-> s, peer |-> r.peer, role |-> r.role, remote |-> r.remote]
      OBVIOUS
    <2>2. e = [sid |-> s, peer |-> h.signKey, role |-> "responder", remote |-> Ratchet(n)]
      BY <1>1, <1>3, <2>1 DEF Record, Sent
    <2>3. PICK i \in 1 .. Len(invites) : links[n].sid = Sid(links[n].by, links[n].peer, n, Spk(i))
      BY <1>4 DEF LinksInv
    <2>4. MadeFor(q, e, n)
      BY <1>4, <2>2, <2>3 DEF MadeFor
    <2>5. MadeFor(q, e, n)' /\ n \in 1 .. Len(links')
      BY <1>2, <1>4, <1>8, <2>4, GrownMadeFor
    <2> QED BY <1>2, <1>8, <2>1, <2>5, InstallMadeInv
  <1>14. BusyInv'
    <2> SUFFICES ASSUME NEW p \in Parties, NEW c \in busy'[p]
                 PROVE  Completing(p, c)'
      BY DEF BusyInv
    <2>1. CASE p = q
      <3>1. busy'[q] = {c} /\ c = [h |-> h, step |-> "installed", sid |-> s]
        BY <1>2, <2>1 DEF Shape
      <3>2. c.h = h /\ c.sid = s /\ c = [h |-> c.h, step |-> c.step, sid |-> c.sid]
        BY <3>1
      <3>3. Sent(h)'
        BY <1>3, <1>8, GrownSent
      <3>4. links'[h.nonce].peer = q /\ links'[h.nonce].sid \in Installed(q)'
        BY <1>1, <1>2, <1>4, <1>6
      <3> QED BY <1>10, <2>1, <3>1, <3>2, <3>3, <3>4 DEF Completing
    <2>2. CASE p # q
      <3>1. busy'[p] = busy[p]
        BY <1>2, <2>2 DEF Shape
      <3>2. Completing(p, c)
        BY <3>1 DEF BusyInv
      <3>3. busy'[p] = {c}
        BY <3>1, <3>2 DEF Completing
      <3> QED BY <1>8, <1>10, <3>2, <3>3, GrownCompleting
    <2> QED BY <2>1, <2>2
  <1>15. NetInv' /\ OutInv'
    BY <1>2, <1>8, GrownNet, GrownOut
  <1>16. ConfirmedEstablished'
    <2>1. links \in Seq(LinkType)
      BY DEF LinksInv
    <2> QED BY <1>2, <1>8, <2>1, GrownConfirmed
  <1>17. InvitesInv' /\ LinksInv'
    BY <1>2 DEF InvitesInv, LinksInv
  <1>18. Shape'
    BY <1>2, <1>6, <1>10 DEF Shape
  <1> QED BY <1>10, <1>13, <1>14, <1>15, <1>16, <1>17, <1>18

LEMMA SendStep ==
    ASSUME HandshakeInv, NEW p \in Parties, sendHandshake(p)
    PROVE  HandshakeInv'
  <1> USE DEF HandshakeInv
  <1>1. PICK h \in out[p] :
             /\ net' = net \cup {[kind |-> "handshake", body |-> h]}
             /\ out' = [out EXCEPT ![p] = @ \ {h}]
             /\ UNCHANGED <<invites, prekeys, links, bySid, byPeer, busy, snap, restarts,
                            made, replaced, crossed, saved>>
    BY DEF sendHandshake
  <1>2. Grows
    BY <1>1, Lengths DEF Grows, Installed
  <1>3. Sent(h)'
    BY <1>2, GrownSent DEF OutInv
  <1>4. NetInv'
    <2> SUFFICES ASSUME NEW m \in net'
                 PROVE  /\ m.kind = "handshake" => Sent(m.body)'
                        /\ m.kind = "ack" =>
                              /\ m.body = [signKey |-> m.body.signKey, nonce |-> m.body.nonce]
                              /\ m.body.nonce \in 1 .. Len(links)
                              /\ m.body.signKey = links[m.body.nonce].peer
                              /\ links[m.body.nonce].sid \in Installed(m.body.signKey)
      BY <1>1 DEF NetInv, Installed
    <2>1. CASE m \in net
      BY <1>2, <2>1, GrownSent DEF NetInv
    <2>2. CASE m \notin net
      BY <1>1, <1>3, <2>2
    <2> QED BY <2>1, <2>2
  <1>5. OutInv'
    <2>1. \A q \in Parties : out'[q] \subseteq out[q]
      BY <1>1 DEF Shape
    <2> QED BY <1>2, <2>1, GrownOut
  <1>6. BusyInv' /\ SessionsInv' /\ SnapInv' /\ MadeInv'
    BY <1>1, <1>2, GrownBusy, GrownSessions, GrownSnap, GrownMade
  <1>7. InvitesInv' /\ LinksInv'
    BY <1>1 DEF InvitesInv, LinksInv
  <1>8. Shape' /\ ConfirmedEstablished'
    BY <1>1 DEF Shape, ConfirmedEstablished, Installed
  <1> QED BY <1>4, <1>5, <1>6, <1>7, <1>8

LEMMA DeleteStep ==
    ASSUME HandshakeInv, NEW q \in Parties, deleteInvitePreKey(q)
    PROVE  HandshakeInv'
  <1> USE DEF HandshakeInv
  <1>1. PICK i \in prekeys[q] :
             /\ prekeys' = [prekeys EXCEPT ![q] = @ \ {i}]
             /\ UNCHANGED <<invites, links, out, net, bySid, byPeer, busy, snap, restarts,
                            made, replaced, crossed, saved>>
    BY DEF deleteInvitePreKey
  <1>2. Grows
    BY <1>1, Lengths DEF Grows, Installed
  <1>3. InvitesInv'
    <2>1. /\ prekeys' \in [Parties -> SUBSET (1 .. Len(invites))]
          /\ \A p \in Parties : prekeys'[p] \subseteq prekeys[p]
      BY <1>1 DEF InvitesInv
    <2> QED BY <1>1, <2>1 DEF InvitesInv
  <1>4. NetInv' /\ OutInv' /\ BusyInv'
    BY <1>1, <1>2, GrownNet, GrownOut, GrownBusy
  <1>5. SessionsInv' /\ SnapInv' /\ MadeInv'
    BY <1>1, <1>2, GrownSessions, GrownSnap, GrownMade
  <1>6. LinksInv' /\ Shape' /\ ConfirmedEstablished'
    BY <1>1 DEF LinksInv, Shape, ConfirmedEstablished, Installed
  <1> QED BY <1>3, <1>4, <1>5, <1>6

LEMMA RotateBeginStep ==
    ASSUME HandshakeInv, NEW q \in Parties, rotateDhBegin(q)
    PROVE  HandshakeInv'
  <1> USE DEF HandshakeInv
  <1>1. PICK c \in busy[q] :
             /\ busy' = [busy EXCEPT ![q] =
                            {[c EXCEPT !.step = "rotating", !.sid = byPeer[q][c.h.signKey]]}]
             /\ UNCHANGED <<invites, prekeys, links, out, net, bySid, byPeer, snap, restarts,
                            made, replaced, crossed, saved>>
    BY DEF rotateDhBegin
  <1>2. Completing(q, c)
    BY DEF BusyInv
  <1>3. PICK d : d = [c EXCEPT !.step = "rotating", !.sid = byPeer[q][c.h.signKey]]
    OBVIOUS
  <1>4. /\ d.h = c.h /\ d.sid = byPeer[q][c.h.signKey]
        /\ d = [h |-> d.h, step |-> d.step, sid |-> d.sid]
    BY <1>2, <1>3 DEF Completing
  <1>5. Grows
    BY <1>1, Lengths DEF Grows, Installed
  <1>6. BusyInv'
    <2> SUFFICES ASSUME NEW p \in Parties, NEW u \in busy'[p]
                 PROVE  Completing(p, u)'
      BY DEF BusyInv
    <2>1. CASE p = q
      <3>1. busy'[q] = {u} /\ u = d
        BY <1>1, <1>3, <2>1 DEF Shape
      <3>2. d.sid \in DOMAIN bySid[q]
        BY <1>2, <1>4 DEF Completing, SessionsInv
      <3>3. Sent(d.h)'
        BY <1>2, <1>4, <1>5, GrownSent DEF Completing
      <3> QED BY <1>1, <1>2, <1>4, <2>1, <3>1, <3>2, <3>3 DEF Completing, Installed
    <2>2. CASE p # q
      <3>1. busy'[p] = busy[p]
        BY <1>1, <2>2 DEF Shape
      <3>2. Completing(p, u)
        BY <3>1 DEF BusyInv
      <3>3. busy'[p] = {u}
        BY <3>1, <3>2 DEF Completing
      <3> QED BY <1>1, <1>5, <3>2, <3>3, GrownCompleting
    <2> QED BY <2>1, <2>2
  <1>7. NetInv' /\ OutInv' /\ MadeInv'
    BY <1>1, <1>5, GrownNet, GrownOut, GrownMade
  <1>8. SessionsInv' /\ SnapInv'
    BY <1>1, <1>5, GrownSessions, GrownSnap
  <1>9. InvitesInv' /\ LinksInv' /\ Shape' /\ ConfirmedEstablished'
    BY <1>1 DEF InvitesInv, LinksInv, Shape, ConfirmedEstablished, Installed
  <1> QED BY <1>6, <1>7, <1>8, <1>9

LEMMA RotateEndStep ==
    ASSUME HandshakeInv, NEW q \in Parties, rotateDhEnd(q)
    PROVE  HandshakeInv'
  <1> USE DEF HandshakeInv
  <1>1. PICK c \in busy[q] :
             /\ rotateDh(q, c.sid, c.h.nonce)
             /\ crossed' = crossed \cup ({<<q, c.sid>>} \ {<<q, ResponderSid(q, c.h)>>})
             /\ busy' = [busy EXCEPT ![q] = {[c EXCEPT !.step = "done"]}]
             /\ UNCHANGED <<invites, prekeys, links, out, net, byPeer, snap, restarts,
                            made, replaced, saved>>
    BY DEF rotateDhEnd
  <1>2. Completing(q, c)
    BY DEF BusyInv
  <1>3. PICK n, s, h : n = c.h.nonce /\ s = c.sid /\ h = c.h
    OBVIOUS
  <1>c. Sent(h) /\ links[n].peer = q
    BY <1>2, <1>3 DEF Completing
  <1>4. n \in 1 .. Len(links) /\ n \in Nat
    BY <1>c, <1>3, Lengths DEF Sent
  <1>5. s \in DOMAIN bySid[q] /\ IsEnd(q, s, bySid[q][s])
    BY <1>2, <1>3 DEF SessionsInv, Completing
  <1>6. PICK r, u : r = bySid[q][s] /\ u = [r EXCEPT !.self = Rotated(n), !.dh = TRUE]
    OBVIOUS
  <1>7. /\ DOMAIN bySid' = Parties
        /\ \A p \in Parties \ {q} : bySid'[p] = bySid[p]
        /\ DOMAIN bySid'[q] = DOMAIN bySid[q]
        /\ bySid'[q][s] = u
        /\ \A x \in DOMAIN bySid[q] : x # s => bySid'[q][x] = bySid[q][x]
    BY <1>1, <1>3, <1>5, <1>6 DEF rotateDh, Shape
  <1>8. Grows
    BY <1>1, Lengths DEF Grows, Installed
  <1>9. IsEnd(q, s, u)' /\ u.peer = r.peer
    <2>1. PICK m \in 1 .. Len(links) : EndOf(q, s, r, m)
      BY <1>5, <1>6 DEF IsEnd
    <2>2. r \in RecordType
      BY <2>1 DEF EndOf
    <2>3. /\ u \in RecordType /\ u.peer = r.peer /\ u.role = r.role /\ u.remote = r.remote
      BY <1>4, <1>6, <2>2 DEF RecordType, RatchetKeys
    <2>4. ASSUME links[m].by = q
          PROVE  <<q, s>> \in crossed'
      <3>1. links[m].sid = s
        BY <2>1 DEF EndOf
      <3>2. CASE s = ResponderSid(q, h)
        <4>1. links[m].sid = links[n].sid
          BY <1>c, <1>3, <3>1, <3>2, ResponderSidFacts
        <4>2. m = n
          BY <1>4, <4>1, LinkUnique
        <4> QED BY <1>c, <1>3, <1>4, <2>4, <4>2, LinkFacts
      <3>3. CASE s # ResponderSid(q, h)
        BY <1>1, <1>3, <3>3
      <3> QED BY <3>2, <3>3
    <2>5. EndOf(q, s, u, m)'
      BY <1>1, <2>1, <2>3, <2>4 DEF EndOf
    <2> QED BY <1>1, <2>3, <2>5 DEF IsEnd
  <1>10. SessionsInv'
    <2> SUFFICES ASSUME NEW p \in Parties
                 PROVE  /\ DOMAIN bySid'[p] \subseteq Installed(p)'
                        /\ \A x \in DOMAIN bySid'[p] : IsEnd(p, x, bySid[p][x])'
                        /\ \A y \in DOMAIN byPeer'[p] :
                              byPeer'[p][y] \in DOMAIN bySid'[p] /\ bySid'[p][byPeer'[p][y]].peer = y
                        /\ \A x \in DOMAIN bySid'[p] :
                              \/ \E y \in DOMAIN byPeer'[p] : byPeer'[p][y] = x
                              \/ <<p, x>> \in replaced'
      BY DEF SessionsInv
    <2>1. DOMAIN bySid'[p] = DOMAIN bySid[p]
      BY <1>7
    <2>2. DOMAIN bySid'[p] \subseteq Installed(p)'
      BY <1>1, <2>1 DEF SessionsInv, Installed
    <2>3. ASSUME NEW x \in DOMAIN bySid[p]
          PROVE  IsEnd(p, x, bySid[p][x])' /\ bySid'[p][x].peer = bySid[p][x].peer
      <3>1. PICK v : v = bySid'[p][x]
        OBVIOUS
      <3>2. CASE p = q /\ x = s
        <4>1. IsEnd(p, x, v)'
          BY <1>7, <1>9, <3>1, <3>2
        <4> QED BY <1>6, <1>7, <1>9, <3>1, <3>2, <4>1 DEF IsEnd, EndOf
      <3>3. CASE ~(p = q /\ x = s)
        <4>1. v = bySid[p][x]
          BY <1>7, <3>1, <3>3
        <4>2. IsEnd(p, x, v)'
          BY <1>8, <4>1, GrownEnd DEF SessionsInv
        <4> QED BY <3>1, <4>1, <4>2 DEF IsEnd, EndOf
      <3> QED BY <3>2, <3>3
    <2> QED BY <1>1, <2>1, <2>2, <2>3 DEF SessionsInv
  <1>11. SnapInv' /\ \A p \in Parties : DOMAIN bySid[p] \subseteq DOMAIN bySid'[p]
    <2>1. \A p \in Parties : DOMAIN bySid[p] \subseteq DOMAIN bySid'[p]
      BY <1>7
    <2> QED BY <1>1, <1>8, <2>1, GrownSnap
  <1>12. BusyInv'
    <2> SUFFICES ASSUME NEW p \in Parties, NEW v \in busy'[p]
                 PROVE  Completing(p, v)'
      BY DEF BusyInv
    <2>1. CASE p = q
      <3>1. PICK d : d = [c EXCEPT !.step = "done"]
        OBVIOUS
      <3>2. busy'[q] = {v} /\ v = d
        BY <1>1, <2>1, <3>1 DEF Shape
      <3>3. d.h = c.h /\ d.sid = c.sid /\ d = [h |-> d.h, step |-> d.step, sid |-> d.sid]
        BY <1>2, <3>1 DEF Completing
      <3>4. Sent(d.h)'
        BY <1>2, <1>8, <3>3, GrownSent DEF Completing
      <3> QED BY <1>1, <1>2, <1>7, <2>1, <3>2, <3>3, <3>4 DEF Completing, Installed
    <2>2. CASE p # q
      <3>1. busy'[p] = busy[p]
        BY <1>1, <2>2 DEF Shape
      <3>2. Completing(p, v)
        BY <3>1 DEF BusyInv
      <3>3. busy'[p] = {v}
        BY <3>1, <3>2 DEF Completing
      <3> QED BY <1>1, <1>8, <1>11, <3>2, <3>3, GrownCompleting
    <2> QED BY <2>1, <2>2
  <1>13. NetInv' /\ OutInv' /\ MadeInv'
    BY <1>1, <1>8, GrownNet, GrownOut, GrownMade
  <1>14. InvitesInv' /\ LinksInv' /\ ConfirmedEstablished'
    BY <1>1 DEF InvitesInv, LinksInv, ConfirmedEstablished, Installed
  <1>15. Shape'
    BY <1>1, <1>7 DEF Shape
  <1> QED BY <1>10, <1>11, <1>12, <1>13, <1>14, <1>15

LEMMA AcknowledgeStep ==
    ASSUME HandshakeInv, NEW q \in Parties, acknowledge(q)
    PROVE  HandshakeInv'
  <1> USE DEF HandshakeInv
  <1>1. PICK c \in busy[q] :
             /\ net' = net \cup {[kind |-> "ack", body |-> E2eeHandshakeAckV1(q, c.h)]}
             /\ busy' = [busy EXCEPT ![q] = {}]
             /\ UNCHANGED <<invites, prekeys, links, out, bySid, byPeer, snap, restarts,
                            made, replaced, crossed, saved>>
    BY DEF acknowledge
  <1>2. Completing(q, c)
    BY DEF BusyInv
  <1>3. Grows
    BY <1>1, Lengths DEF Grows, Installed
  <1>4. NetInv'
    <2> SUFFICES ASSUME NEW m \in net'
                 PROVE  /\ m.kind = "handshake" => Sent(m.body)'
                        /\ m.kind = "ack" =>
                              /\ m.body = [signKey |-> m.body.signKey, nonce |-> m.body.nonce]
                              /\ m.body.nonce \in 1 .. Len(links)
                              /\ m.body.signKey = links[m.body.nonce].peer
                              /\ links[m.body.nonce].sid \in Installed(m.body.signKey)
      BY <1>1 DEF NetInv, Installed
    <2>1. CASE m \in net
      BY <1>3, <2>1, GrownSent DEF NetInv
    <2>2. CASE m \notin net
      <3>1. m = [kind |-> "ack", body |-> [signKey |-> q, nonce |-> c.h.nonce]]
        BY <1>1, <2>2 DEF E2eeHandshakeAckV1
      <3>2. c.h.nonce \in 1 .. Len(links)
        BY <1>2 DEF Completing, Sent
      <3> QED BY <1>2, <3>1, <3>2 DEF Completing
    <2> QED BY <2>1, <2>2
  <1>5. BusyInv'
    <2> SUFFICES ASSUME NEW p \in Parties, NEW u \in busy'[p]
                 PROVE  Completing(p, u)'
      BY DEF BusyInv
    <2>1. p # q /\ busy'[p] = busy[p]
      BY <1>1 DEF Shape
    <2>2. Completing(p, u)
      BY <2>1 DEF BusyInv
    <2>3. busy'[p] = {u}
      BY <2>1, <2>2 DEF Completing
    <2> QED BY <1>1, <1>3, <2>2, <2>3, GrownCompleting
  <1>6. OutInv' /\ MadeInv' /\ SessionsInv' /\ SnapInv'
    BY <1>1, <1>3, GrownOut, GrownMade, GrownSessions, GrownSnap
  <1>7. InvitesInv' /\ LinksInv' /\ Shape' /\ ConfirmedEstablished'
    BY <1>1 DEF InvitesInv, LinksInv, Shape, ConfirmedEstablished, Installed
  <1> QED BY <1>4, <1>5, <1>6, <1>7

LEMMA RejectStep ==
    ASSUME HandshakeInv, NEW q \in Parties, NEW h, rejectHandshake(q, h)
    PROVE  HandshakeInv'
  <1> USE DEF HandshakeInv
  <1>1. /\ net' = net \cup {[kind |-> "reject", body |-> E2eeHandshakeRejectV1(q, h)]}
        /\ UNCHANGED <<invites, prekeys, links, out, bySid, byPeer, busy, snap, restarts,
                       made, replaced, crossed, saved>>
    BY DEF rejectHandshake
  <1>2. Grows
    BY <1>1, Lengths DEF Grows, Installed
  <1>3. NetInv'
    <2> SUFFICES ASSUME NEW m \in net'
                 PROVE  /\ m.kind = "handshake" => Sent(m.body)'
                        /\ m.kind = "ack" =>
                              /\ m.body = [signKey |-> m.body.signKey, nonce |-> m.body.nonce]
                              /\ m.body.nonce \in 1 .. Len(links)
                              /\ m.body.signKey = links[m.body.nonce].peer
                              /\ links[m.body.nonce].sid \in Installed(m.body.signKey)
      BY <1>1 DEF NetInv, Installed
    <2>1. CASE m \in net
      BY <1>2, <2>1, GrownSent DEF NetInv
    <2>2. CASE m \notin net
      BY <1>1, <2>2
    <2> QED BY <2>1, <2>2
  <1>4. BusyInv' /\ SessionsInv' /\ SnapInv'
    BY <1>1, <1>2, GrownBusy, GrownSessions, GrownSnap
  <1>5. InvitesInv' /\ LinksInv'
    BY <1>1 DEF InvitesInv, LinksInv
  <1>6. MadeInv' /\ OutInv'
    BY <1>1, <1>2, GrownMade, GrownOut
  <1>7. Shape' /\ ConfirmedEstablished'
    BY <1>1 DEF Shape, ConfirmedEstablished, Installed
  <1> QED BY <1>3, <1>4, <1>5, <1>6, <1>7

LEMMA AnswerStep ==
    ASSUME HandshakeInv, NEW p \in Parties, NEW m \in net, NEW n \in 1 .. Len(links),
           onAnswer(p, m, n)
    PROVE  HandshakeInv'
  <1> USE DEF HandshakeInv
  <1>1. /\ m.kind \in {"ack", "reject"}
        /\ [m.body EXCEPT !.nonce = n].signKey = links[n].peer
        /\ EnvelopeVerified([m.body EXCEPT !.nonce = n], m.body)
        /\ links' = [links EXCEPT ![n].status = Settled(m.kind)]
        /\ UNCHANGED <<invites, prekeys, out, net, bySid, byPeer, busy, snap, restarts,
                       made, replaced, crossed, saved>>
    BY DEF onAnswer
  <1>2. links \in Seq(LinkType) /\ Len(links) \in Nat /\ Len(links) <= MaxLinks
    BY Lengths DEF LinksInv
  <1>3. links[n] \in LinkType /\ Settled(m.kind) \in {"pending", "confirmed", "rolledBack"}
    BY <1>2 DEF Settled
  <1>4. [links[n] EXCEPT !.status = Settled(m.kind)] \in LinkType
    BY <1>3 DEF LinkType
  <1>5. /\ links' \in Seq(LinkType) /\ Len(links') = Len(links)
        /\ \A k \in 1 .. Len(links) : k # n => links'[k] = links[k]
        /\ links'[n] = [links[n] EXCEPT !.status = Settled(m.kind)]
    BY <1>1, <1>2, <1>4
  <1>6. \A k \in 1 .. Len(links) :
           /\ links'[k].by = links[k].by /\ links'[k].peer = links[k].peer
           /\ links'[k].to = links[k].to /\ links'[k].sid = links[k].sid
    BY <1>3, <1>5 DEF LinkType
  <1>7. Grows
    BY <1>1, <1>2, <1>5, <1>6, Lengths DEF Grows, Installed
  <1>8. LinksInv'
    BY <1>1, <1>2, <1>5, <1>6 DEF LinksInv
  <1>9. MadeInv' /\ OutInv'
    BY <1>1, <1>7, GrownMade, GrownOut
  <1>10. NetInv' /\ BusyInv' /\ SessionsInv' /\ SnapInv'
    BY <1>1, <1>7, GrownNet, GrownBusy, GrownSessions, GrownSnap
  <1>11. ConfirmedEstablished'
    <2> SUFFICES ASSUME NEW k \in 1 .. Len(links), links'[k].status = "confirmed"
                 PROVE  links[k].sid \in Installed(links[k].peer)
      <3>1. DOMAIN links' = 1 .. Len(links)
        BY <1>5
      <3> QED BY <1>1, <1>6, <3>1 DEF ConfirmedEstablished, Installed
    <2>1. CASE k # n
      <3>1. k \in DOMAIN links /\ links[k].status = "confirmed"
        BY <1>2, <1>5, <2>1
      <3> QED BY <3>1 DEF ConfirmedEstablished
    <2>2. CASE k = n
      <3>1. m.kind = "ack"
        BY <1>3, <1>5, <2>2, <1>1 DEF LinkType, Settled
      <3>2. /\ m.body = [signKey |-> m.body.signKey, nonce |-> m.body.nonce]
            /\ m.body.signKey = links[m.body.nonce].peer
            /\ links[m.body.nonce].sid \in Installed(m.body.signKey)
        BY <3>1 DEF NetInv
      <3>3. [m.body EXCEPT !.nonce = n] = m.body
        BY <1>1, EnvelopeFacts
      <3>4. [m.body EXCEPT !.nonce = n].nonce = n
        BY <3>2
      <3>5. m.body.nonce = n
        BY <3>3, <3>4
      <3> QED BY <2>2, <3>2, <3>5
    <2> QED BY <2>1, <2>2
  <1>12. InvitesInv' /\ Shape'
    BY <1>1 DEF InvitesInv, Shape
  <1> QED BY <1>8, <1>9, <1>10, <1>11, <1>12

-----------------------------------------------------------------------------

LEMMA HandshakeInit == Init => HandshakeInv
  <1> SUFFICES ASSUME Init PROVE HandshakeInv
    OBVIOUS
  <1> USE DEF Init
  <1>1. Len(invites) = 0 /\ Len(links) = 0 /\ DOMAIN links = {}
    OBVIOUS
  <1>2. \A p \in Parties : Installed(p) = {}
    BY DEF Installed
  <1>3. Shape
    BY HandshakeConstants DEF Shape
  <1>4. InvitesInv /\ LinksInv
    BY <1>1, HandshakeConstants DEF InvitesInv, LinksInv
  <1>5. NetInv /\ OutInv /\ BusyInv /\ SessionsInv /\ SnapInv
    BY <1>2 DEF NetInv, OutInv, BusyInv, SessionsInv, SnapInv
  <1>6. MadeInv /\ ConfirmedEstablished
    BY <1>1, <1>2 DEF MadeInv, ConfirmedEstablished
  <1> QED BY <1>3, <1>4, <1>5, <1>6 DEF HandshakeInv

LEMMA HandshakeStep == HandshakeInv /\ [Next]_vars => HandshakeInv'
  <1> SUFFICES ASSUME HandshakeInv, [Next]_vars PROVE HandshakeInv'
    OBVIOUS
  <1>1. CASE Establish
    BY <1>1, InviteStep, AcceptStep DEF Establish
  <1>2. ASSUME NEW p \in Parties, NEW n \in 1 .. Len(links), Process(p, n)
        PROVE  HandshakeInv'
    BY <1>2, CompleteStep, RejectStep DEF Process
  <1>3. ASSUME NEW p \in Parties, sendHandshake(p) \/ Continue(p) \/ deleteInvitePreKey(p)
        PROVE  HandshakeInv'
    BY <1>3, SendStep, DeleteStep, RotateBeginStep, RotateEndStep, AcknowledgeStep DEF Continue
  <1>5. ASSUME NEW p \in Parties, exportSnapshot(p) \/ importSnapshot(p)
        PROVE  HandshakeInv'
    BY <1>5, ExportStep, ImportStep
  <1>6. ASSUME NEW n \in 1 .. Len(links), Answer(n)
        PROVE  HandshakeInv'
    BY <1>6, AnswerStep DEF Answer
  <1>4. CASE UNCHANGED vars
    <2> USE <1>4 DEF vars, HandshakeInv
    <2>1. Shape' /\ InvitesInv' /\ LinksInv'
      BY DEF Shape, InvitesInv, LinksInv
    <2>2. ConfirmedEstablished'
      BY DEF ConfirmedEstablished, Installed
    <2>3. Grows
      BY Lengths DEF Grows, Installed
    <2>4. NetInv' /\ OutInv' /\ BusyInv' /\ MadeInv'
      BY <2>3, GrownNet, GrownOut, GrownBusy, GrownMade
    <2>5. SessionsInv' /\ SnapInv'
      BY <2>3, GrownSessions, GrownSnap
    <2> QED BY <2>1, <2>2, <2>4, <2>5
  <1> QED BY <1>1, <1>2, <1>3, <1>4, <1>5, <1>6 DEF Next

(* HandshakeInv is inductive. *)
LEMMA HandshakeInductive == Spec => []HandshakeInv
  BY HandshakeInit, HandshakeStep, PTL DEF Spec

(* For any number of parties, invites, attempts and restarts, with packets  *)
(* late, reordered, repeated, lost or mixed up: a current session is found   *)
(* by its id and by its peer (createInitiatorSession and                     *)
(* createResponderSession), and two parties that hold one session id are its *)
(* two ends and agree on the ratchet key, unless a crossing completion       *)
(* rotated it (establishResponderSession).                                   *)
THEOREM EndsAgree == Spec => []SessionsSound
  <1>1. HandshakeInv => TypeOK
    <2> SUFFICES ASSUME HandshakeInv PROVE TypeOK
      OBVIOUS
    <2> USE DEF HandshakeInv
    <2>1. \A i \in DOMAIN invites : invites[i] \in X3DHPreKeyBundle
      BY DEF InvitesInv
    <2>2. ASSUME NEW p \in Parties
          PROVE  /\ prekeys[p] \subseteq {i \in 1 .. Len(invites) : invites[i].signKey = p}
                 /\ DOMAIN byPeer[p] \subseteq Parties \ {p}
                 /\ \A q \in DOMAIN byPeer[p] : /\ byPeer[p][q] \in DOMAIN bySid[p]
                                                /\ bySid[p][byPeer[p][q]].peer = q
                 /\ DOMAIN bySid[p] \subseteq Installed(p)
                 /\ Cardinality(busy[p]) <= 1
      <3>1. prekeys[p] \subseteq {i \in 1 .. Len(invites) : invites[i].signKey = p}
        BY DEF InvitesInv
      <3>2. ASSUME NEW q \in DOMAIN byPeer[p]
            PROVE  q \in Parties \ {p}
        <4>1. PICK r : r = bySid[p][byPeer[p][q]]
          OBVIOUS
        <4>2. r.peer = q /\ IsEnd(p, byPeer[p][q], r)
          BY <4>1 DEF SessionsInv
        <4>3. PICK n \in 1 .. Len(links) : EndOf(p, byPeer[p][q], r, n)
          BY <4>2 DEF IsEnd
        <4> QED BY <4>2, <4>3, LinkFacts DEF EndOf
      <3>3. Cardinality(busy[p]) <= 1
        <4>1. CASE busy[p] = {}
          BY <4>1, FS_EmptySet
        <4>2. CASE busy[p] # {}
          <5>1. PICK h : busy[p] = {h}
            BY <4>2 DEF BusyInv, Completing
          <5>2. Cardinality(busy[p]) = 1
            BY <5>1, FS_Singleton
          <5> QED BY <5>2
        <4> QED BY <4>1, <4>2
      <3> QED BY <3>1, <3>2, <3>3 DEF SessionsInv
    <2>3. \A n \in DOMAIN links : links[n].status \in {"pending", "confirmed", "rolledBack"}
      <3>1. \A n \in DOMAIN links : links[n] \in LinkType
        BY DEF LinksInv
      <3> QED BY <3>1 DEF LinkType
    <2> QED BY <2>1, <2>2, <2>3 DEF TypeOK, Shape
  <1>2. HandshakeInv => KeyAgreement
    <2> SUFFICES ASSUME HandshakeInv, NEW p \in Parties, NEW q \in Parties, p # q,
                        NEW s \in DOMAIN bySid[p] \cap DOMAIN bySid[q]
                 PROVE  /\ bySid[p][s].peer = q
                        /\ bySid[p][s].role # bySid[q][s].role
                        /\ bySid[p][s].role = "initiator" =>
                              bySid[q][s].remote = bySid[p][s].self \/ <<p, s>> \in crossed
      BY DEF KeyAgreement
    <2>1. PICK n \in 1 .. Len(links) : EndOf(p, s, bySid[p][s], n)
      BY DEF HandshakeInv, SessionsInv, IsEnd
    <2>2. PICK m \in 1 .. Len(links) : EndOf(q, s, bySid[q][s], m)
      BY DEF HandshakeInv, SessionsInv, IsEnd
    <2>3. m = n
      BY <2>1, <2>2, LinkUnique DEF EndOf, HandshakeInv
    <2> QED BY <2>1, <2>2, <2>3 DEF EndOf
  <1>3. HandshakeInv => SessionsSound
    BY <1>1, <1>2 DEF SessionsSound
  <1> QED BY <1>3, HandshakeInductive, PTL

(* Whatever bundle a caller was handed, an attempt is agreed with keys of    *)
(* the one peer it names (initiatorCompute verifies both bindings).          *)
THEOREM AgreedWithPeer == Spec => []OnePeer
  <1>1. HandshakeInv => OnePeer
    <2> SUFFICES ASSUME HandshakeInv PROVE OnePeer
      OBVIOUS
    <2>1. DOMAIN links = 1 .. Len(links) /\ DOMAIN invites = 1 .. Len(invites)
      BY DEF HandshakeInv, LinksInv, InvitesInv
    <2> QED BY <2>1 DEF HandshakeInv, LinksInv, OnePeer, Sid
  <1> QED BY <1>1, HandshakeInductive, PTL

(* However often a handshake is completed, with whatever fields of other     *)
(* packets mixed in, before or after restarts: what is installed under its   *)
(* session id has the same peer, role and remote ratchet key                 *)
(* (completeInviteHandshake has no check against repeats).                   *)
THEOREM RepeatsAlike == Spec => []InstalledAlike
  <1>1. HandshakeInv => InstalledAlike
    <2> SUFFICES ASSUME HandshakeInv, NEW p \in Parties, NEW x \in made[p], NEW y \in made[p],
                        x.sid = y.sid
                 PROVE  x = y
      BY DEF InstalledAlike
    <2>0. LinksInv
      BY DEF HandshakeInv
    <2>1. PICK n \in 1 .. Len(links) : MadeFor(p, x, n)
      BY DEF HandshakeInv, MadeInv
    <2>2. PICK m \in 1 .. Len(links) : MadeFor(p, y, m)
      BY DEF HandshakeInv, MadeInv
    <2>3. links[n].sid = x.sid /\ links[m].sid = y.sid
      BY <2>1, <2>2 DEF MadeFor
    <2>4. m = n
      BY <2>0, <2>3, LinkUnique
    <2>5. PICK i \in 1 .. Len(invites) :
               /\ links[n].sid = Sid(links[n].by, links[n].peer, n, Spk(i))
               /\ \/ /\ links[n].by = p
                     /\ x = [sid |-> links[n].sid, peer |-> links[n].peer,
                             role |-> "initiator", remote |-> Spk(i)]
                  \/ /\ links[n].peer = p
                     /\ x = [sid |-> links[n].sid, peer |-> links[n].by,
                             role |-> "responder", remote |-> Ratchet(n)]
      BY <2>1 DEF MadeFor
    <2>6. PICK j \in 1 .. Len(invites) :
               /\ links[n].sid = Sid(links[n].by, links[n].peer, n, Spk(j))
               /\ \/ /\ links[n].by = p
                     /\ y = [sid |-> links[n].sid, peer |-> links[n].peer,
                             role |-> "initiator", remote |-> Spk(j)]
                  \/ /\ links[n].peer = p
                     /\ y = [sid |-> links[n].sid, peer |-> links[n].by,
                             role |-> "responder", remote |-> Ratchet(n)]
      BY <2>2, <2>4 DEF MadeFor
    <2>7. Sid(links[n].by, links[n].peer, n, Spk(i)) = Sid(links[n].by, links[n].peer, n, Spk(j))
      BY <2>5, <2>6
    <2>8. i = j
      BY ONLY <2>7, SidInjective
    <2>9. links[n].by # links[n].peer
      BY <2>0, LinkFacts
    <2> QED BY <2>5, <2>6, <2>8, <2>9
  <1> QED BY <1>1, HandshakeInductive, PTL

(* An attempt that was acknowledged has its other end: answers that are late *)
(* or meant for other attempts confirm nothing.                              *)
THEOREM AcksAreTrue == Spec => []ConfirmedEstablished
  <1>1. HandshakeInv => ConfirmedEstablished
    BY DEF HandshakeInv
  <1> QED BY <1>1, HandshakeInductive, PTL

(* A restart forgets a session only if it was replaced before the snapshot   *)
(* (exportSnapshot writes one row per peer) or is newer than it.             *)
THEOREM SnapshotsRemember == Spec => []Remembered
  <1>1. HandshakeInv => Remembered
    BY DEF HandshakeInv, SnapInv, Remembered
  <1> QED BY <1>1, HandshakeInductive, PTL
=============================================================================
