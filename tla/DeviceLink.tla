----------------------------- MODULE DeviceLink -----------------------------
(***************************************************************************)
(* The device-link ceremony: a primary device shows a code (a fresh psk and *)
(* the account's key); a new device that read it publishes a request, the   *)
(* primary answers with a delegation bundle sealed under an ephemeral       *)
(* Diffie-Hellman secret, and the new device confirms.  The three records   *)
(* are published under the rendezvous key that the psk gives; the node that *)
(* serves them is not trusted, so any record published so far may be served *)
(* for any slot, again and out of order.                                   *)
(*                                                                         *)
(* A code may be entered on several devices, a device may try again after a *)
(* crash, and the primary may crash and answer again.  Secrets are symbolic:*)
(* keys derived from the psk are named by it, an ephemeral key and a nonce  *)
(* by the number of the draw, and a transcript hash by the nonce in it.     *)
(***************************************************************************)
EXTENDS Integers, FiniteSets

CONSTANTS
    Psks,        \* codes shown
    AccountOf,   \* the account a code is for
    Devices,     \* new devices: their device key C
    RequestTtl,  \* requestTtlMs
    RecordTtl,   \* lifetime of the published records
    Skews,       \* how far a new device's clock may be ahead
    MaxSkew,     \* maxFutureSkewMs
    None,
    MaxTime,     \* bound: the clock
    MaxFresh     \* bound: ephemeral keys and nonces drawn

ASSUME TimesAssumption ==
    /\ RequestTtl \in Nat \ {0} /\ RecordTtl \in Nat \ {0} /\ MaxSkew \in Nat
    /\ Skews \subseteq Nat
ASSUME BoundsAssumption == MaxTime \in Nat /\ MaxFresh \in Nat
ASSUME AccountAssumption == DOMAIN AccountOf = Psks
ASSUME NoneAssumption == None \notin Devices

VARIABLES
    now,
    fresh,    \* ephemeral keys and nonces drawn so far
    records,  \* records ever published
    primary,  \* primary[psk]: the primary's side of the ceremony
    device,   \* device[d]: the new device's side
    bundles   \* every bundle a device opened, with the response it came in

vars == <<now, fresh, records, primary, device, bundles>>

----------------------------------------------------------------------------
(* Derivations.                                                            *)

Aad(psk, step, extra) ==
    [account |-> AccountOf[psk], rendezvous |-> psk, step |-> step, extra |-> extra]

DhSecret(e1, e2) == {e1, e2}

MasterSecret(psk, eA, eB, thRequest) ==
    [dh |-> DhSecret(eA, eB), psk |-> psk, th |-> thRequest]

RequestSeal(psk) == [key |-> psk, aad |-> Aad(psk, "request", None)]

\* Mutant: the response is sealed under the psk alone.
ResponseSealPsk(psk, eA, eB, thRequest) ==
    [key |-> psk, aad |-> Aad(psk, "response", None)]

\* The response key comes from the master secret; the AAD names the request and
\* the responder's ephemeral key.
ResponseSeal(psk, eA, eB, thRequest) ==
    [key |-> MasterSecret(psk, eA, eB, thRequest),
     aad |-> Aad(psk, "response", [th |-> thRequest, eph |-> eB])]

\* Mutant: the tag covers the psk only.
ConfirmTagPsk(psk, eA, eB, thRequest, thResponse) ==
    [master |-> MasterSecret(psk, 0, 0, 0), th |-> 0]

ConfirmTag(psk, eA, eB, thRequest, thResponse) ==
    [master |-> MasterSecret(psk, eA, eB, thRequest), th |-> thResponse]

----------------------------------------------------------------------------
(* Records.                                                                *)

CeremonyRecord(psk, id, payload) ==
    [publisher |-> psk, recordId |-> id, expiresAtMs |-> now + RecordTtl,
     payload |-> payload]

Publish(psk, id, payload) ==
    records' = records \cup {CeremonyRecord(psk, id, payload)}

VerifyCeremonyRecord(r, psk, id) ==
    r.publisher = psk /\ r.recordId = id /\ now < r.expiresAtMs

Draw == fresh < MaxFresh /\ fresh' = fresh + 1

----------------------------------------------------------------------------

NoPrimary == [phase |-> "none", device |-> None, eph |-> 0, th |-> 0, tag |-> None]

Waiting == [NoPrimary EXCEPT !.phase = "waiting"]

NoDevice == [phase |-> "idle", psk |-> None, eph |-> 0, th |-> 0, tag |-> None]

Init ==
    /\ now = 0 /\ fresh = 0
    /\ records = {}
    /\ primary = [psk \in Psks |-> NoPrimary]
    /\ device = [d \in Devices |-> NoDevice]
    /\ bundles = {}

\* The primary draws a psk and shows the code.
GenerateDeviceLinkPsk(psk) ==
    /\ primary[psk].phase = "none"
    /\ primary' = [primary EXCEPT ![psk] = Waiting]
    /\ UNCHANGED <<now, fresh, records, device, bundles>>

LinkRequest(psk, d, issuedAtMs) ==
    [account |-> AccountOf[psk], device |-> d, ceremonyNonce |-> psk,
     issuedAtMs |-> issuedAtMs, expiresAtMs |-> issuedAtMs + RequestTtl, sig |-> d]

\* The code is entered on device d.
BuildCeremonyRequest(d, psk, skew) ==
    /\ device[d].phase = "idle" /\ primary[psk].phase # "none"
    /\ Draw
    /\ Publish(psk, "request",
               [step |-> "request", seal |-> RequestSeal(psk), nonce |-> fresh',
                plain |-> [linkRequest |-> LinkRequest(psk, d, now + skew),
                           eph |-> fresh']])
    /\ device' = [device EXCEPT ![d] = [phase |-> "requested", psk |-> psk,
                                        eph |-> fresh', th |-> fresh', tag |-> None]]
    /\ UNCHANGED <<now, primary, bundles>>

RequestAccepted(psk, q) ==
    /\ q.sig = q.device
    /\ q.account = AccountOf[psk]
    /\ q.ceremonyNonce = psk
    /\ now < q.expiresAtMs
    /\ q.issuedAtMs <= now + MaxSkew

OpenCeremonyRequest(psk, r) ==
    LET m == r.payload IN
    /\ primary[psk].phase = "waiting"
    /\ VerifyCeremonyRecord(r, psk, "request")
    /\ m.step = "request" /\ m.seal = RequestSeal(psk)
    /\ RequestAccepted(psk, m.plain.linkRequest)
    /\ primary' = [primary EXCEPT ![psk] =
                      [phase |-> "opened", device |-> m.plain.linkRequest.device,
                       eph |-> m.plain.eph, th |-> m.nonce, tag |-> None]]
    /\ UNCHANGED <<now, fresh, records, device, bundles>>

\* The owner approved: a certificate for device d goes into the bundle.
Respond(psk, d) ==
    LET p == primary[psk] IN
    /\ p.phase = "opened"
    /\ Draw
    /\ Publish(psk, "response",
               [step |-> "response", eph |-> fresh', nonce |-> fresh',
                seal |-> ResponseSeal(psk, p.eph, fresh', p.th),
                plain |-> [account |-> AccountOf[psk], grantee |-> d]])
    /\ primary' = [primary EXCEPT
                      ![psk].phase = "responded",
                      ![psk].tag = ConfirmTag(psk, p.eph, fresh', p.th, fresh')]
    /\ UNCHANGED <<now, device, bundles>>

\* Mutant: the device is taken from the request now in the slot.
BuildCeremonyResponseReread(psk) ==
    \E r \in records : /\ VerifyCeremonyRecord(r, psk, "request")
                       /\ Respond(psk, r.payload.plain.linkRequest.device)

BuildCeremonyResponse(psk) == Respond(psk, primary[psk].device)

OpenCeremonyResponse(d, r) ==
    LET s == device[d]
        m == r.payload
    IN
    /\ s.phase = "requested"
    /\ VerifyCeremonyRecord(r, s.psk, "response")
    /\ m.step = "response"
    /\ m.seal = ResponseSeal(s.psk, s.eph, m.eph, s.th)
    /\ m.plain.account = AccountOf[s.psk]
    /\ device' = [device EXCEPT
                     ![d].phase = "linked",
                     ![d].tag = ConfirmTag(s.psk, s.eph, m.eph, s.th, m.nonce)]
    /\ bundles' = bundles \cup {[device |-> d, psk |-> s.psk, eph |-> s.eph,
                                 response |-> m.nonce, bundle |-> m.plain]}
    /\ UNCHANGED <<now, fresh, records, primary>>

BuildCeremonyConfirm(d) ==
    /\ device[d].phase = "linked"
    /\ Publish(device[d].psk, "confirm", [step |-> "confirm", tag |-> device[d].tag])
    /\ device' = [device EXCEPT ![d].phase = "done"]
    /\ UNCHANGED <<now, fresh, primary, bundles>>

VerifyCeremonyConfirm(psk, r) ==
    /\ primary[psk].phase = "responded"
    /\ VerifyCeremonyRecord(r, psk, "confirm")
    /\ r.payload.step = "confirm" /\ r.payload.tag = primary[psk].tag
    /\ primary' = [primary EXCEPT ![psk].phase = "confirmed"]
    /\ UNCHANGED <<now, fresh, records, device, bundles>>

----------------------------------------------------------------------------
(* Failures.  Ephemeral keys are never stored; the primary may have stored  *)
(* the tag it expects.                                                     *)

DeviceCrash(d) ==
    /\ device[d].phase \in {"requested", "linked"}
    /\ device' = [device EXCEPT ![d] = NoDevice]
    /\ UNCHANGED <<now, fresh, records, primary, bundles>>

PrimaryCrash(psk) ==
    /\ primary[psk].phase \in {"opened", "responded"}
    /\ primary' = [primary EXCEPT ![psk] = Waiting]
    /\ UNCHANGED <<now, fresh, records, device, bundles>>

Tick ==
    /\ now < MaxTime
    /\ now' = now + 1
    /\ UNCHANGED <<fresh, records, primary, device, bundles>>

Next ==
    \/ \E psk \in Psks :
          \/ GenerateDeviceLinkPsk(psk) \/ BuildCeremonyResponse(psk) \/ PrimaryCrash(psk)
          \/ \E r \in records : OpenCeremonyRequest(psk, r) \/ VerifyCeremonyConfirm(psk, r)
    \/ \E d \in Devices :
          \/ \E psk \in Psks, skew \in Skews : BuildCeremonyRequest(d, psk, skew)
          \/ \E r \in records : OpenCeremonyResponse(d, r)
          \/ BuildCeremonyConfirm(d) \/ DeviceCrash(d)
    \/ Tick

Spec == Init /\ [][Next]_vars

----------------------------------------------------------------------------
(* Properties.                                                             *)

Draws == 0 .. MaxFresh

Tag == [master : [dh : SUBSET Draws, psk : Psks, th : Draws], th : Draws]

\* Every variable stays within its type: a side that has sealed or opened a
\* response holds a tag derived from the master secret.
TypeOK ==
    /\ now \in 0 .. MaxTime /\ fresh \in Draws
    /\ \A r \in records : r.publisher \in Psks /\ r.recordId = r.payload.step
    /\ \A psk \in Psks :
          LET p == primary[psk] IN
          /\ p.phase \in {"none", "waiting", "opened", "responded", "confirmed"}
          /\ p.device \in Devices <=> p.phase \in {"opened", "responded", "confirmed"}
          /\ p.phase \in {"responded", "confirmed"} => p.tag \in Tag
    /\ \A d \in Devices :
          LET s == device[d] IN
          /\ s.phase \in {"idle", "requested", "linked", "done"}
          /\ s.phase # "idle" => s.psk \in Psks
          /\ s.phase \in {"linked", "done"} => s.tag \in Tag

\* A bundle that opens can be installed: its certificate is for the device that
\* opened it, and its account is the one of the code entered there, whichever
\* other devices used the code, and however often either side tried again.
Installable ==
    \A b \in bundles : /\ b.bundle.grantee = b.device
                       /\ b.bundle.account = AccountOf[b.psk]

\* Whatever the node serves, both sides hold what their phase needs and a bundle
\* that opened can be installed.
BundlesSound == TypeOK /\ Installable

\* "a photographed code (psk) cannot decrypt an intercepted response": a response
\* is opened with the ephemeral key of one request only; another device with the
\* same code, or the same device after a crash, cannot open it.
OpenedOnce ==
    \A b1, b2 \in bundles : b1.response = b2.response => b1 = b2

\* "proves the RIGHT device derived K": when the primary accepts a confirmation,
\* the device it approved has opened the very response the primary sealed last.
ConfirmAgreement ==
    \A psk \in Psks :
        LET p == primary[psk] IN
        p.phase = "confirmed" =>
            \E b \in bundles : /\ b.device = p.device /\ b.psk = psk
                               /\ b.response = p.tag.th /\ b.eph = p.eph
=============================================================================
