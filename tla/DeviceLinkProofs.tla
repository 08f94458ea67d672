-------------------------- MODULE DeviceLinkProofs --------------------------
(***************************************************************************)
(* The device-link ceremony, for any codes, devices, clocks, crashes and    *)
(* records served again or out of order: a bundle that opens is for the     *)
(* device that opened it, a response opens once, and an accepted            *)
(* confirmation is from the device the primary approved.                    *)
(***************************************************************************)
EXTENDS DeviceLink, TLAPS

Holding == {"opened", "responded", "confirmed"}

PrimaryType ==
    [phase : {"none", "waiting"} \cup Holding, device : Devices \cup {None},
     eph : Draws, th : Draws, tag : Tag \cup {None}]

DeviceType ==
    [phase : {"idle", "requested", "linked", "done"}, psk : Psks \cup {None},
     eph : Draws, th : Draws, tag : Tag \cup {None}]

Types ==
    /\ now \in 0 .. MaxTime /\ fresh \in Draws
    /\ primary \in [Psks -> PrimaryType]
    /\ device \in [Devices -> DeviceType]

(* r is device d's request under psk, with ephemeral key and nonce e. *)
IsRequest(r, psk, d, e) ==
    /\ r.payload.step = "request" /\ r.publisher = psk
    /\ r.payload.nonce = e /\ r.payload.plain.eph = e
    /\ r.payload.plain.linkRequest.device = d

Asked(psk, d, e) == \E r \in records : IsRequest(r, psk, d, e)

(* r is the answer under psk to request e, with ephemeral key and nonce f. *)
IsResponse(r, psk, e, f, plain) ==
    /\ r.payload.step = "response" /\ r.publisher = psk
    /\ r.payload.nonce = f /\ r.payload.eph = f
    /\ r.payload.seal = ResponseSeal(psk, e, f, e)
    /\ r.payload.plain = plain

Answered(psk, e, f, plain) == \E r \in records : IsResponse(r, psk, e, f, plain)

Bundle(psk, d) == [account |-> AccountOf[psk], grantee |-> d]

(* The tag of the response f to request e. *)
TagOf(psk, e, f) == ConfirmTag(psk, e, f, e, f)

RecordSound(r) ==
    /\ r.publisher \in Psks /\ r.recordId = r.payload.step
    /\ \/ \E d \in Devices, e \in 1 .. fresh : IsRequest(r, r.publisher, d, e)
       \/ \E d \in Devices, e \in Draws, f \in 1 .. fresh :
             /\ IsResponse(r, r.publisher, e, f, Bundle(r.publisher, d))
             /\ Asked(r.publisher, d, e)
       \/ /\ r.payload.step = "confirm"
          /\ \E b \in bundles : /\ b.psk = r.publisher
                                /\ r.payload.tag = TagOf(b.psk, b.eph, b.response)

RecordsInv == \A r \in records : RecordSound(r)

(* A number drawn is the nonce of one record. *)
DrawnOnce ==
    \A r, u \in records :
        (/\ r.payload.step \in {"request", "response"}
         /\ u.payload.step \in {"request", "response"}
         /\ r.payload.nonce = u.payload.nonce) => r = u

BundlesInv ==
    \A b \in bundles :
        /\ b = [device |-> b.device, psk |-> b.psk, eph |-> b.eph,
                response |-> b.response, bundle |-> b.bundle]
        /\ Asked(b.psk, b.device, b.eph)
        /\ Answered(b.psk, b.eph, b.response, b.bundle)

(* A primary holds the request it opened and the tag of its response. *)
PrimarySound(psk, p) ==
    /\ p.phase \notin Holding => p.device = None
    /\ p.phase \in Holding => /\ p.device \in Devices /\ p.eph = p.th
                              /\ Asked(psk, p.device, p.eph)
    /\ p.phase \in {"responded", "confirmed"} =>
          p.tag.th \in Draws /\ p.tag = TagOf(psk, p.eph, p.tag.th)
    /\ p.phase = "confirmed" =>
          \E b \in bundles : /\ b.device = p.device /\ b.psk = psk
                             /\ b.response = p.tag.th /\ b.eph = p.eph

PrimaryInv == \A psk \in Psks : PrimarySound(psk, primary[psk])

(* A device holds its request, and the tag of the bundle it opened. *)
DeviceSound(d, s) ==
    /\ s.phase # "idle" => s.psk \in Psks
    /\ s.phase = "requested" => s.eph = s.th /\ Asked(s.psk, d, s.eph)
    /\ s.phase \in {"linked", "done"} =>
          \E b \in bundles : /\ b.psk = s.psk /\ b.response \in Draws /\ b.eph \in Draws
                             /\ s.tag = TagOf(b.psk, b.eph, b.response)

DeviceInv == \A d \in Devices : DeviceSound(d, device[d])

CeremonyInv ==
    /\ Types /\ RecordsInv /\ DrawnOnce /\ BundlesInv /\ PrimaryInv /\ DeviceInv

-----------------------------------------------------------------------------
(* Seals and tags name what they were made from.                           *)

LEMMA SealInjective ==
    ASSUME NEW psk, NEW e, NEW f, NEW g, NEW psk2, NEW e2, NEW f2, NEW g2,
           ResponseSeal(psk, e, f, g) = ResponseSeal(psk2, e2, f2, g2)
    PROVE  psk = psk2 /\ g = g2 /\ f = f2
  <1>1. /\ MasterSecret(psk, e, f, g) = MasterSecret(psk2, e2, f2, g2)
        /\ Aad(psk, "response", [th |-> g, eph |-> f]) = Aad(psk2, "response", [th |-> g2, eph |-> f2])
    BY DEF ResponseSeal
  <1>2. psk = psk2 /\ g = g2
    BY <1>1 DEF MasterSecret
  <1>3. [th |-> g, eph |-> f] = [th |-> g2, eph |-> f2]
    BY <1>1 DEF Aad
  <1> QED BY <1>2, <1>3

LEMMA TagInjective ==
    ASSUME NEW psk, NEW e, NEW f, NEW psk2, NEW e2, NEW f2,
           TagOf(psk, e, f) = TagOf(psk2, e2, f2)
    PROVE  psk = psk2 /\ e = e2 /\ f = f2
  <1>1. MasterSecret(psk, e, f, e) = MasterSecret(psk2, e2, f2, e2) /\ f = f2
    BY DEF TagOf, ConfirmTag
  <1> QED BY <1>1 DEF MasterSecret

LEMMA TagTyped ==
    ASSUME NEW psk \in Psks, NEW e \in Draws, NEW f \in Draws
    PROVE  TagOf(psk, e, f) \in Tag /\ TagOf(psk, e, f).th = f
  BY DEF TagOf, ConfirmTag, MasterSecret, DhSecret, Tag

LEMMA RequestUnique ==
    ASSUME DrawnOnce, NEW psk, NEW d, NEW psk2, NEW d2, NEW e, Asked(psk, d, e), Asked(psk2, d2, e)
    PROVE  psk = psk2 /\ d = d2
  <1>1. PICK r \in records : IsRequest(r, psk, d, e)
    BY DEF Asked
  <1>2. PICK u \in records : IsRequest(u, psk2, d2, e)
    BY DEF Asked
  <1>3. r = u
    BY <1>1, <1>2 DEF DrawnOnce, IsRequest
  <1> QED BY <1>1, <1>2, <1>3 DEF IsRequest

(* What a response in the slot says. *)
LEMMA ResponseFacts ==
    ASSUME RecordsInv, NEW r \in records, r.payload.step = "response"
    PROVE  \E d \in Devices, e \in Draws, f \in 1 .. fresh :
              /\ IsResponse(r, r.publisher, e, f, Bundle(r.publisher, d))
              /\ Asked(r.publisher, d, e)
  BY DEF RecordsInv, RecordSound, IsRequest

LEMMA RequestFacts ==
    ASSUME RecordsInv, NEW r \in records, r.payload.step = "request"
    PROVE  \E d \in Devices, e \in 1 .. fresh : IsRequest(r, r.publisher, d, e)
  BY DEF RecordsInv, RecordSound, IsResponse

LEMMA ConfirmFacts ==
    ASSUME RecordsInv, NEW r \in records, r.payload.step = "confirm"
    PROVE  \E b \in bundles : b.psk = r.publisher /\ r.payload.tag = TagOf(b.psk, b.eph, b.response)
  BY DEF RecordsInv, RecordSound, IsResponse, IsRequest

LEMMA DrawsFacts ==
    ASSUME Types
    PROVE  fresh \in Nat /\ 1 .. fresh \subseteq Draws
  BY BoundsAssumption DEF Types, Draws

-----------------------------------------------------------------------------
(* Records and bundles are never taken back.                               *)

Grows == records \subseteq records' /\ bundles \subseteq bundles' /\ 1 .. fresh \subseteq 1 .. fresh'

LEMMA GrownAsked ==
    ASSUME Grows, NEW psk, NEW d, NEW e, Asked(psk, d, e)
    PROVE  Asked(psk, d, e)'
  BY DEF Grows, Asked, IsRequest

LEMMA GrownAnswered ==
    ASSUME Grows, NEW psk, NEW e, NEW f, NEW x, Answered(psk, e, f, x)
    PROVE  Answered(psk, e, f, x)'
  BY DEF Grows, Answered, IsResponse

LEMMA GrownRecord ==
    ASSUME Grows, NEW r, RecordSound(r)
    PROVE  RecordSound(r)'
  <1>1. r.publisher \in Psks /\ r.recordId = r.payload.step
    BY DEF RecordSound
  <1>2. CASE \E d \in Devices, e \in 1 .. fresh : IsRequest(r, r.publisher, d, e)
    BY <1>1, <1>2 DEF RecordSound, Grows, IsRequest
  <1>3. CASE \E d \in Devices, e \in Draws, f \in 1 .. fresh :
                /\ IsResponse(r, r.publisher, e, f, Bundle(r.publisher, d))
                /\ Asked(r.publisher, d, e)
    <2>1. PICK d \in Devices, e \in Draws, f \in 1 .. fresh :
               /\ IsResponse(r, r.publisher, e, f, Bundle(r.publisher, d))
               /\ Asked(r.publisher, d, e)
      BY <1>3
    <2>2. Asked(r.publisher, d, e)' /\ f \in 1 .. fresh'
      BY <2>1, GrownAsked DEF Grows
    <2>3. IsResponse(r, r.publisher, e, f, Bundle(r.publisher, d))'
      BY <2>1 DEF IsResponse
    <2> QED BY <1>1, <2>2, <2>3 DEF RecordSound
  <1>4. CASE /\ r.payload.step = "confirm"
             /\ \E b \in bundles : /\ b.psk = r.publisher
                                   /\ r.payload.tag = TagOf(b.psk, b.eph, b.response)
    BY <1>1, <1>4 DEF RecordSound, Grows
  <1> QED BY <1>2, <1>3, <1>4 DEF RecordSound

LEMMA GrownRecords ==
    ASSUME RecordsInv, Grows, \A r \in records' : r \in records \/ RecordSound(r)'
    PROVE  RecordsInv'
  BY GrownRecord DEF RecordsInv

LEMMA GrownBundles ==
    ASSUME BundlesInv, Grows, UNCHANGED bundles
    PROVE  BundlesInv'
  BY GrownAsked, GrownAnswered DEF BundlesInv

LEMMA GrownPrimary ==
    ASSUME Grows, NEW psk, NEW p, PrimarySound(psk, p)
    PROVE  PrimarySound(psk, p)'
  <1>1. p.phase \in Holding => Asked(psk, p.device, p.eph)'
    BY GrownAsked DEF PrimarySound
  <1>2. bundles \subseteq bundles'
    BY DEF Grows
  <1> QED BY <1>1, <1>2 DEF PrimarySound

LEMMA GrownDevice ==
    ASSUME Grows, NEW d, NEW s, DeviceSound(d, s)
    PROVE  DeviceSound(d, s)'
  <1>1. s.phase = "requested" => Asked(s.psk, d, s.eph)'
    BY GrownAsked DEF DeviceSound
  <1>2. bundles \subseteq bundles'
    BY DEF Grows
  <1> QED BY <1>1, <1>2 DEF DeviceSound

(* A step that sets psk's primary to p and takes nothing back. *)
LEMMA SetPrimary ==
    ASSUME Types, PrimaryInv, Grows, NEW psk \in Psks, NEW p \in PrimaryType,
           primary' = [primary EXCEPT ![psk] = p], PrimarySound(psk, p)'
    PROVE  PrimaryInv' /\ primary' \in [Psks -> PrimaryType]
  <1>1. primary \in [Psks -> PrimaryType]
    BY DEF Types
  <1>2. primary' \in [Psks -> PrimaryType]
    BY <1>1
  <1>3. ASSUME NEW x \in Psks
        PROVE  PrimarySound(x, primary[x])'
    <2>1. PICK v : v = primary'[x]
      OBVIOUS
    <2>2. CASE x = psk
      BY <1>1, <2>2 DEF PrimarySound, Asked
    <2>3. CASE x # psk
      <3>1. v = primary[x]
        BY <1>1, <2>1, <2>3
      <3>2. PrimarySound(x, v)'
        BY <3>1, GrownPrimary DEF PrimaryInv
      <3> QED BY <2>1, <3>2 DEF PrimarySound, Asked
    <2> QED BY <2>2, <2>3
  <1> QED BY <1>2, <1>3 DEF PrimaryInv

(* A step that sets device d's side to s and takes nothing back. *)
LEMMA SetDevice ==
    ASSUME Types, DeviceInv, Grows, NEW d \in Devices, NEW s \in DeviceType,
           device' = [device EXCEPT ![d] = s], DeviceSound(d, s)'
    PROVE  DeviceInv' /\ device' \in [Devices -> DeviceType]
  <1>1. device \in [Devices -> DeviceType]
    BY DEF Types
  <1>2. device' \in [Devices -> DeviceType]
    BY <1>1
  <1>3. ASSUME NEW x \in Devices
        PROVE  DeviceSound(x, device[x])'
    <2>1. PICK v : v = device'[x]
      OBVIOUS
    <2>2. CASE x = d
      BY <1>1, <2>2 DEF DeviceSound, Asked
    <2>3. CASE x # d
      <3>1. v = device[x]
        BY <1>1, <2>1, <2>3
      <3>2. DeviceSound(x, v)'
        BY <3>1, GrownDevice DEF DeviceInv
      <3> QED BY <2>1, <3>2 DEF DeviceSound, Asked
    <2> QED BY <2>2, <2>3
  <1> QED BY <1>2, <1>3 DEF DeviceInv

LEMMA SamePrimary ==
    ASSUME PrimaryInv, Grows, UNCHANGED primary
    PROVE  PrimaryInv'
  <1>1. ASSUME NEW psk \in Psks
        PROVE  PrimarySound(psk, primary[psk])'
    <2>1. PICK p : p = primary[psk]
      OBVIOUS
    <2>2. PrimarySound(psk, p)'
      BY <2>1, GrownPrimary DEF PrimaryInv
    <2> QED BY <2>1, <2>2 DEF PrimarySound, Asked
  <1> QED BY <1>1 DEF PrimaryInv

LEMMA SameDevice ==
    ASSUME DeviceInv, Grows, UNCHANGED device
    PROVE  DeviceInv'
  <1>1. ASSUME NEW d \in Devices
        PROVE  DeviceSound(d, device[d])'
    <2>1. PICK s : s = device[d]
      OBVIOUS
    <2>2. DeviceSound(d, s)'
      BY <2>1, GrownDevice DEF DeviceInv
    <2> QED BY <2>1, <2>2 DEF DeviceSound, Asked
  <1> QED BY <1>1 DEF DeviceInv

-----------------------------------------------------------------------------
(* One lemma per action.                                                   *)

(* Steps of the primary that publish nothing. *)
LEMMA PrimaryStep ==
    ASSUME CeremonyInv, UNCHANGED <<now, fresh, records, device, bundles>>,
           NEW psk \in Psks, NEW p \in PrimaryType, primary' = [primary EXCEPT ![psk] = p],
           PrimarySound(psk, p)
    PROVE  CeremonyInv'
  <1> USE DEF CeremonyInv
  <1>1. Grows
    BY DEF Grows
  <1>2. PrimarySound(psk, p)'
    BY <1>1, GrownPrimary
  <1>3. PrimaryInv' /\ primary' \in [Psks -> PrimaryType]
    BY <1>1, <1>2, SetPrimary
  <1>4. Types'
    BY <1>3 DEF Types
  <1>5. RecordsInv' /\ BundlesInv' /\ DeviceInv'
    BY <1>1, GrownRecords, GrownBundles, SameDevice
  <1>6. DrawnOnce'
    BY DEF DrawnOnce
  <1> QED BY <1>3, <1>4, <1>5, <1>6

LEMMA WaitingSound ==
    ASSUME NEW psk
    PROVE  Waiting \in PrimaryType /\ PrimarySound(psk, Waiting)
  BY BoundsAssumption DEF Waiting, NoPrimary, PrimaryType, PrimarySound, Holding, Draws

LEMMA GenerateStep ==
    ASSUME CeremonyInv, NEW psk \in Psks, GenerateDeviceLinkPsk(psk) \/ PrimaryCrash(psk)
    PROVE  CeremonyInv'
  BY WaitingSound, PrimaryStep DEF GenerateDeviceLinkPsk, PrimaryCrash

LEMMA OpenRequestStep ==
    ASSUME CeremonyInv, NEW psk \in Psks, NEW r \in records, OpenCeremonyRequest(psk, r)
    PROVE  CeremonyInv'
  <1> USE DEF CeremonyInv
  <1>1. /\ r.payload.step = "request" /\ r.publisher = psk
        /\ primary' = [primary EXCEPT ![psk] =
                          [phase |-> "opened", device |-> r.payload.plain.linkRequest.device,
                           eph |-> r.payload.plain.eph, th |-> r.payload.nonce, tag |-> None]]
        /\ UNCHANGED <<now, fresh, records, device, bundles>>
    BY DEF OpenCeremonyRequest, VerifyCeremonyRecord
  <1>2. PICK d \in Devices, e \in 1 .. fresh : IsRequest(r, psk, d, e)
    BY <1>1, RequestFacts
  <1>3. PICK p : p = [phase |-> "opened", device |-> d, eph |-> e, th |-> e, tag |-> None]
    OBVIOUS
  <1>4. primary' = [primary EXCEPT ![psk] = p]
    BY <1>1, <1>2, <1>3 DEF IsRequest
  <1>5. p \in PrimaryType
    BY <1>3, DrawsFacts DEF PrimaryType, Holding
  <1>6. PrimarySound(psk, p)
    BY <1>2, <1>3 DEF PrimarySound, Holding, Asked
  <1> QED BY <1>1, <1>4, <1>5, <1>6, PrimaryStep

LEMMA VerifyConfirmStep ==
    ASSUME CeremonyInv, NEW psk \in Psks, NEW r \in records, VerifyCeremonyConfirm(psk, r)
    PROVE  CeremonyInv'
  <1> USE DEF CeremonyInv
  <1>1. PICK p, q : p = primary[psk] /\ q = [p EXCEPT !.phase = "confirmed"]
    OBVIOUS
  <1>2. /\ p.phase = "responded" /\ r.payload.step = "confirm" /\ r.payload.tag = p.tag
        /\ primary' = [primary EXCEPT ![psk] = q]
        /\ UNCHANGED <<now, fresh, records, device, bundles>>
    BY <1>1 DEF VerifyCeremonyConfirm
  <1>3. p \in PrimaryType
    BY <1>1 DEF Types
  <1>4. /\ q \in PrimaryType /\ q.phase = "confirmed" /\ q.device = p.device
        /\ q.eph = p.eph /\ q.th = p.th /\ q.tag = p.tag
    BY <1>1, <1>3 DEF PrimaryType, Holding
  <1>5. /\ p.device \in Devices /\ p.eph = p.th /\ Asked(psk, p.device, p.eph)
        /\ p.tag.th \in Draws /\ p.tag = TagOf(psk, p.eph, p.tag.th)
    BY <1>1, <1>2 DEF PrimaryInv, PrimarySound, Holding
  <1>6. PICK b \in bundles : p.tag = TagOf(b.psk, b.eph, b.response)
    BY <1>2, ConfirmFacts
  <1>7. b.psk = psk /\ b.eph = p.eph /\ b.response = p.tag.th
    BY <1>5, <1>6, TagInjective
  <1>8. Asked(b.psk, b.device, b.eph)
    BY DEF BundlesInv
  <1>9. b.device = p.device
    BY <1>5, <1>7, <1>8, RequestUnique
  <1>10. PrimarySound(psk, q)
    BY <1>4, <1>5, <1>7, <1>9 DEF PrimarySound, Holding
  <1> QED BY <1>2, <1>4, <1>10, PrimaryStep

(* A new record with the number drawn for it. *)
LEMMA DrawRecord ==
    ASSUME Types, RecordsInv, DrawnOnce, NEW r, r.payload.nonce = fresh + 1,
           records' = records \cup {r}
    PROVE  DrawnOnce'
  <1>1. ASSUME NEW u \in records, u.payload.step \in {"request", "response"}
        PROVE  u.payload.nonce # fresh + 1
    <2>1. u.payload.nonce \in 1 .. fresh
      BY <1>1, RequestFacts, ResponseFacts DEF IsRequest, IsResponse
    <2> QED BY <2>1, DrawsFacts
  <1> QED BY <1>1 DEF DrawnOnce

LEMMA RequestStep ==
    ASSUME CeremonyInv, NEW d \in Devices, NEW psk \in Psks, NEW skew \in Skews,
           BuildCeremonyRequest(d, psk, skew)
    PROVE  CeremonyInv'
  <1> USE DEF CeremonyInv
  <1>1. PICK e : e = fresh + 1
    OBVIOUS
  <1>2. fresh < MaxFresh /\ fresh' = e /\ UNCHANGED <<now, primary, bundles>>
    BY <1>1 DEF BuildCeremonyRequest, Draw
  <1>3. PICK r : /\ r = CeremonyRecord(psk, "request",
                          [step |-> "request", seal |-> RequestSeal(psk), nonce |-> e,
                           plain |-> [linkRequest |-> LinkRequest(psk, d, now + skew), eph |-> e]])
    OBVIOUS
  <1>4. records' = records \cup {r}
    BY <1>2, <1>3 DEF BuildCeremonyRequest, Publish
  <1>5. /\ r.publisher = psk /\ r.recordId = "request" /\ IsRequest(r, psk, d, e)
        /\ r.payload.step = "request" /\ r.payload.nonce = e
    BY <1>3 DEF CeremonyRecord, LinkRequest, IsRequest
  <1>6. fresh \in Nat /\ e \in 1 .. fresh' /\ e \in Draws
    BY <1>1, <1>2, DrawsFacts, BoundsAssumption DEF Types, Draws
  <1>7. Grows
    BY <1>1, <1>2, <1>4, <1>6 DEF Grows
  <1>8. RecordSound(r)'
    BY <1>5, <1>6 DEF RecordSound, IsRequest
  <1>9. RecordsInv' /\ BundlesInv' /\ PrimaryInv'
    BY <1>2, <1>4, <1>7, <1>8, GrownRecords, GrownBundles, SamePrimary
  <1>10. DrawnOnce'
    BY <1>1, <1>4, <1>5, DrawRecord
  <1>11. PICK s : s = [phase |-> "requested", psk |-> psk, eph |-> e, th |-> e, tag |-> None]
    OBVIOUS
  <1>12. device' = [device EXCEPT ![d] = s]
    BY <1>2, <1>11 DEF BuildCeremonyRequest
  <1>13. s \in DeviceType
    BY <1>6, <1>11 DEF DeviceType
  <1>14. DeviceSound(d, s)'
    <2>1. Asked(psk, d, e)'
      BY <1>4, <1>5 DEF Asked, IsRequest
    <2> QED BY <1>11, <2>1 DEF DeviceSound
  <1>15. DeviceInv' /\ device' \in [Devices -> DeviceType]
    BY <1>7, <1>12, <1>13, <1>14, SetDevice
  <1>16. Types'
    BY <1>2, <1>6, <1>15 DEF Types
  <1> QED BY <1>9, <1>10, <1>15, <1>16

LEMMA ResponseStep ==
    ASSUME CeremonyInv, NEW psk \in Psks, BuildCeremonyResponse(psk)
    PROVE  CeremonyInv'
  <1> USE DEF CeremonyInv
  <1>1. PICK f, p, d : f = fresh + 1 /\ p = primary[psk] /\ d = p.device
    OBVIOUS
  <1>r. Respond(psk, d)
    BY <1>1 DEF BuildCeremonyResponse
  <1>2. p.phase = "opened" /\ fresh < MaxFresh /\ fresh' = f /\ UNCHANGED <<now, device, bundles>>
    BY <1>1, <1>r DEF Respond, Draw
  <1>3. p \in PrimaryType /\ d \in Devices /\ p.eph = p.th /\ Asked(psk, d, p.eph)
    BY <1>1, <1>2 DEF PrimaryInv, PrimarySound, Types, Holding
  <1>4. PICK r : r = CeremonyRecord(psk, "response",
                        [step |-> "response", eph |-> f, nonce |-> f,
                         seal |-> ResponseSeal(psk, p.eph, f, p.eph), plain |-> Bundle(psk, d)])
    OBVIOUS
  <1>5. records' = records \cup {r}
    BY <1>1, <1>2, <1>3, <1>4, <1>r DEF Respond, Publish, Bundle
  <1>6. /\ r.publisher = psk /\ r.recordId = "response" /\ r.payload.step = "response"
        /\ r.payload.nonce = f /\ IsResponse(r, psk, p.eph, f, Bundle(psk, d))
    BY <1>4 DEF CeremonyRecord, IsResponse
  <1>7. fresh \in Nat /\ f \in 1 .. fresh' /\ f \in Draws
    BY <1>1, <1>2, DrawsFacts, BoundsAssumption DEF Types, Draws
  <1>8. Grows
    BY <1>1, <1>2, <1>5, <1>7 DEF Grows
  <1>9. RecordSound(r)'
    <2>1. Asked(psk, d, p.eph)'
      BY <1>3, <1>8, GrownAsked
    <2>2. p.eph \in Draws
      BY <1>3 DEF PrimaryType
    <2> QED BY <1>3, <1>6, <1>7, <2>1, <2>2 DEF RecordSound, IsResponse
  <1>10. RecordsInv' /\ BundlesInv' /\ DeviceInv'
    BY <1>2, <1>5, <1>8, <1>9, GrownRecords, GrownBundles, SameDevice
  <1>11. DrawnOnce'
    BY <1>1, <1>5, <1>6, DrawRecord
  <1>12. PICK t, q : t = TagOf(psk, p.eph, f) /\ q = [p EXCEPT !.phase = "responded", !.tag = t]
    OBVIOUS
  <1>13. primary' = [primary EXCEPT ![psk] = q]
    <2>1. t = ConfirmTag(psk, p.eph, fresh', p.th, fresh')
      BY <1>2, <1>3, <1>12 DEF TagOf
    <2>2. primary' = [primary EXCEPT ![psk].phase = "responded", ![psk].tag = t]
      BY <1>1, <1>r, <2>1 DEF Respond
    <2>3. primary \in [Psks -> PrimaryType]
      BY DEF Types
    <2> QED BY <1>1, <1>12, <2>2, <2>3
  <1>14. t \in Tag /\ t.th = f
    BY <1>3, <1>7, <1>12, TagTyped DEF PrimaryType
  <1>15. /\ q \in PrimaryType /\ q.phase = "responded" /\ q.device = d
         /\ q.eph = p.eph /\ q.th = p.th /\ q.tag = t
    BY <1>1, <1>3, <1>12, <1>14 DEF PrimaryType, Holding
  <1>16. PrimarySound(psk, q)'
    <2>1. Asked(psk, d, p.eph)'
      BY <1>3, <1>8, GrownAsked
    <2> QED BY <1>3, <1>7, <1>12, <1>14, <1>15, <2>1 DEF PrimarySound, Holding
  <1>17. PrimaryInv' /\ primary' \in [Psks -> PrimaryType]
    BY <1>8, <1>13, <1>15, <1>16, SetPrimary
  <1>18. Types'
    BY <1>2, <1>7, <1>17 DEF Types
  <1> QED BY <1>10, <1>11, <1>17, <1>18

LEMMA OpenResponseStep ==
    ASSUME CeremonyInv, NEW d \in Devices, NEW r \in records, OpenCeremonyResponse(d, r)
    PROVE  CeremonyInv'
  <1> USE DEF CeremonyInv
  <1>1. PICK s, m : s = device[d] /\ m = r.payload
    OBVIOUS
  <1>2. /\ s.phase = "requested" /\ r.publisher = s.psk /\ m.step = "response"
        /\ m.seal = ResponseSeal(s.psk, s.eph, m.eph, s.th)
        /\ device' = [device EXCEPT ![d].phase = "linked",
                         ![d].tag = ConfirmTag(s.psk, s.eph, m.eph, s.th, m.nonce)]
        /\ bundles' = bundles \cup {[device |-> d, psk |-> s.psk, eph |-> s.eph,
                                     response |-> m.nonce, bundle |-> m.plain]}
        /\ UNCHANGED <<now, fresh, records, primary>>
    BY <1>1 DEF OpenCeremonyResponse, VerifyCeremonyRecord
  <1>3. s \in DeviceType /\ s.psk \in Psks /\ s.eph = s.th /\ Asked(s.psk, d, s.eph)
    BY <1>1, <1>2 DEF Types, DeviceInv, DeviceSound
  <1>4. PICK c \in Devices, e \in Draws, f \in 1 .. fresh : IsResponse(r, s.psk, e, f, Bundle(s.psk, c))
    BY <1>1, <1>2, ResponseFacts
  <1>5. /\ m.nonce = f /\ m.eph = f /\ m.seal = ResponseSeal(s.psk, e, f, e)
        /\ f \in Draws /\ s.eph \in Draws
    BY <1>1, <1>3, <1>4, DrawsFacts DEF IsResponse, DeviceType
  <1>6. e = s.eph
    <2>1. ResponseSeal(s.psk, e, f, e) = ResponseSeal(s.psk, s.eph, f, s.eph)
      BY <1>2, <1>3, <1>5
    <2> QED BY ONLY <2>1, SealInjective
  <1>7. PICK b : b = [device |-> d, psk |-> s.psk, eph |-> s.eph, response |-> f, bundle |-> m.plain]
    OBVIOUS
  <1>8. bundles' = bundles \cup {b}
    BY <1>2, <1>5, <1>7
  <1>9. Grows
    BY <1>2, <1>8 DEF Grows
  <1>10. BundlesInv'
    <2> SUFFICES ASSUME NEW x \in bundles'
                 PROVE  /\ x = [device |-> x.device, psk |-> x.psk, eph |-> x.eph,
                                response |-> x.response, bundle |-> x.bundle]
                        /\ Asked(x.psk, x.device, x.eph)'
                        /\ Answered(x.psk, x.eph, x.response, x.bundle)'
      BY DEF BundlesInv
    <2>1. CASE x \in bundles
      BY <1>9, <2>1, GrownAsked, GrownAnswered DEF BundlesInv
    <2>2. CASE x = b
      <3>1. Answered(s.psk, s.eph, f, m.plain)
        BY <1>1, <1>4, <1>6 DEF Answered, IsResponse
      <3> QED BY <1>3, <1>7, <1>9, <2>2, <3>1, GrownAsked, GrownAnswered
    <2> QED BY <1>8, <2>1, <2>2
  <1>11. PICK t, u : t = TagOf(s.psk, s.eph, f) /\ u = [s EXCEPT !.phase = "linked", !.tag = t]
    OBVIOUS
  <1>12. device' = [device EXCEPT ![d] = u]
    <2>1. t = ConfirmTag(s.psk, s.eph, m.eph, s.th, m.nonce)
      BY <1>3, <1>5, <1>11 DEF TagOf
    <2>2. device' = [device EXCEPT ![d].phase = "linked", ![d].tag = t]
      BY <1>2, <2>1
    <2>3. device \in [Devices -> DeviceType]
      BY DEF Types
    <2> QED BY <1>1, <1>11, <2>2, <2>3
  <1>13. t \in Tag
    BY <1>3, <1>5, <1>11, TagTyped
  <1>14. u \in DeviceType /\ u.phase = "linked" /\ u.psk = s.psk /\ u.tag = t
    BY <1>3, <1>11, <1>13 DEF DeviceType
  <1>15. DeviceSound(d, u)'
    <2>1. /\ b \in bundles' /\ b.psk = s.psk /\ b.eph = s.eph /\ b.response = f
      BY <1>7, <1>8
    <2> QED BY <1>3, <1>5, <1>11, <1>14, <2>1 DEF DeviceSound
  <1>16. DeviceInv' /\ device' \in [Devices -> DeviceType]
    BY <1>9, <1>12, <1>14, <1>15, SetDevice
  <1>17. RecordsInv' /\ PrimaryInv'
    BY <1>2, <1>9, GrownRecords, SamePrimary
  <1>18. Types' /\ DrawnOnce'
    BY <1>2, <1>16 DEF Types, DrawnOnce
  <1> QED BY <1>10, <1>16, <1>17, <1>18

LEMMA ConfirmStep ==
    ASSUME CeremonyInv, NEW d \in Devices, BuildCeremonyConfirm(d)
    PROVE  CeremonyInv'
  <1> USE DEF CeremonyInv
  <1>1. PICK s, u, r : /\ s = device[d] /\ u = [s EXCEPT !.phase = "done"]
                       /\ r = CeremonyRecord(s.psk, "confirm", [step |-> "confirm", tag |-> s.tag])
    OBVIOUS
  <1>2. /\ s.phase = "linked" /\ records' = records \cup {r}
        /\ device' = [device EXCEPT ![d] = u]
        /\ UNCHANGED <<now, fresh, primary, bundles>>
    BY <1>1 DEF BuildCeremonyConfirm, Publish
  <1>3. s \in DeviceType /\ s.psk \in Psks /\ DeviceSound(d, s)
    BY <1>1, <1>2 DEF Types, DeviceInv, DeviceSound
  <1>4. /\ r.publisher = s.psk /\ r.recordId = "confirm"
        /\ r.payload.step = "confirm" /\ r.payload.tag = s.tag
    BY <1>1 DEF CeremonyRecord
  <1>5. Grows
    BY <1>2 DEF Grows
  <1>6. RecordSound(r)'
    <2>1. \E b \in bundles' : b.psk = s.psk /\ s.tag = TagOf(b.psk, b.eph, b.response)
      BY <1>2, <1>3 DEF DeviceSound
    <2> QED BY <1>3, <1>4, <2>1 DEF RecordSound
  <1>7. RecordsInv' /\ BundlesInv' /\ PrimaryInv'
    BY <1>2, <1>5, <1>6, GrownRecords, GrownBundles, SamePrimary
  <1>8. DrawnOnce'
    BY <1>2, <1>4 DEF DrawnOnce
  <1>9. /\ u \in DeviceType /\ u.phase = "done" /\ u.psk = s.psk /\ u.tag = s.tag
    BY <1>1, <1>3 DEF DeviceType
  <1>10. DeviceSound(d, u)'
    BY <1>2, <1>3, <1>9 DEF DeviceSound
  <1>11. DeviceInv' /\ device' \in [Devices -> DeviceType]
    BY <1>2, <1>5, <1>9, <1>10, SetDevice
  <1>12. Types'
    BY <1>2, <1>11 DEF Types
  <1> QED BY <1>7, <1>8, <1>11, <1>12

LEMMA DeviceCrashStep ==
    ASSUME CeremonyInv, NEW d \in Devices, DeviceCrash(d)
    PROVE  CeremonyInv'
  <1> USE DEF CeremonyInv
  <1>1. /\ device' = [device EXCEPT ![d] = NoDevice]
        /\ UNCHANGED <<now, fresh, records, primary, bundles>>
    BY DEF DeviceCrash
  <1>2. Grows
    BY <1>1 DEF Grows
  <1>3. NoDevice \in DeviceType /\ DeviceSound(d, NoDevice)'
    BY BoundsAssumption DEF NoDevice, DeviceType, DeviceSound, Draws
  <1>4. DeviceInv' /\ device' \in [Devices -> DeviceType]
    BY <1>1, <1>2, <1>3, SetDevice
  <1>5. RecordsInv' /\ BundlesInv' /\ PrimaryInv'
    BY <1>1, <1>2, GrownRecords, GrownBundles, SamePrimary
  <1>6. Types' /\ DrawnOnce'
    BY <1>1, <1>4 DEF Types, DrawnOnce
  <1> QED BY <1>4, <1>5, <1>6

(* A tick, or no step. *)
LEMMA TickStep ==
    ASSUME CeremonyInv, Tick \/ UNCHANGED vars
    PROVE  CeremonyInv'
  <1> USE DEF CeremonyInv
  <1>1. UNCHANGED <<fresh, records, primary, device, bundles>> /\ now' \in 0 .. MaxTime
    BY BoundsAssumption DEF Tick, vars, Types
  <1>2. Grows
    BY <1>1 DEF Grows
  <1>3. RecordsInv' /\ BundlesInv' /\ PrimaryInv' /\ DeviceInv'
    BY <1>1, <1>2, GrownRecords, GrownBundles, SamePrimary, SameDevice
  <1>4. Types' /\ DrawnOnce'
    BY <1>1 DEF Types, DrawnOnce
  <1> QED BY <1>3, <1>4

-----------------------------------------------------------------------------

LEMMA CeremonyInductive == Spec => []CeremonyInv
  <1>1. Init => CeremonyInv
    <2> SUFFICES ASSUME Init PROVE CeremonyInv
      OBVIOUS
    <2> USE DEF Init
    <2>1. Types
      BY BoundsAssumption
         DEF Types, NoPrimary, NoDevice, PrimaryType, DeviceType, Draws
    <2>2. RecordsInv /\ DrawnOnce /\ BundlesInv
      BY DEF RecordsInv, DrawnOnce, BundlesInv
    <2>3. PrimaryInv /\ DeviceInv
      BY DEF PrimaryInv, PrimarySound, NoPrimary, Holding, DeviceInv, DeviceSound, NoDevice
    <2> QED BY <2>1, <2>2, <2>3 DEF CeremonyInv
  <1>2. CeremonyInv /\ [Next]_vars => CeremonyInv'
    <2> SUFFICES ASSUME CeremonyInv, [Next]_vars PROVE CeremonyInv'
      OBVIOUS
    <2>1. CASE Tick \/ UNCHANGED vars
      BY <2>1, TickStep
    <2>2. ASSUME NEW psk \in Psks,
                 \/ GenerateDeviceLinkPsk(psk) \/ BuildCeremonyResponse(psk) \/ PrimaryCrash(psk)
                 \/ \E r \in records : OpenCeremonyRequest(psk, r) \/ VerifyCeremonyConfirm(psk, r)
          PROVE  CeremonyInv'
      BY <2>2, GenerateStep, ResponseStep, OpenRequestStep, VerifyConfirmStep
    <2>3. ASSUME NEW d \in Devices,
                 \/ \E psk \in Psks, skew \in Skews : BuildCeremonyRequest(d, psk, skew)
                 \/ \E r \in records : OpenCeremonyResponse(d, r)
                 \/ BuildCeremonyConfirm(d) \/ DeviceCrash(d)
          PROVE  CeremonyInv'
      BY <2>3, RequestStep, OpenResponseStep, ConfirmStep, DeviceCrashStep
    <2> QED BY <2>1, <2>2, <2>3 DEF Next
  <1> QED BY <1>1, <1>2, PTL DEF Spec

(* The bundle's certificate was made for the device whose request is named   *)
(* by the seal that opened.                                                  *)
LEMMA BundleOwner ==
    ASSUME CeremonyInv, NEW b \in bundles
    PROVE  b.bundle.grantee = b.device /\ b.bundle.account = AccountOf[b.psk]
  <1> USE DEF CeremonyInv
  <1>1. Asked(b.psk, b.device, b.eph) /\ Answered(b.psk, b.eph, b.response, b.bundle)
    BY DEF BundlesInv
  <1>2. PICK r \in records : IsResponse(r, b.psk, b.eph, b.response, b.bundle)
    BY <1>1 DEF Answered
  <1>3. PICK d \in Devices, e \in Draws, f \in 1 .. fresh :
             /\ IsResponse(r, r.publisher, e, f, Bundle(r.publisher, d))
             /\ Asked(r.publisher, d, e)
    BY <1>2, ResponseFacts DEF IsResponse
  <1>4. r.publisher = b.psk /\ b.bundle = Bundle(b.psk, d)
    BY <1>2, <1>3 DEF IsResponse
  <1>5. ResponseSeal(b.psk, e, f, e) = ResponseSeal(b.psk, b.eph, b.response, b.eph)
    BY <1>2, <1>3, <1>4 DEF IsResponse
  <1>6. e = b.eph
    BY ONLY <1>5, SealInjective
  <1>7. d = b.device
    BY <1>1, <1>3, <1>4, <1>6, RequestUnique
  <1> QED BY <1>4, <1>7 DEF Bundle

(* For any codes, devices and clocks, with crashes, retries and a node that  *)
(* serves any record for any slot: each side holds what its phase needs, and *)
(* a bundle that opens is for the device that opened it and the account of   *)
(* its code (buildCeremonyResponse, openCeremonyResponse).                   *)
THEOREM BundlesInstallable == Spec => []BundlesSound
  <1>1. CeremonyInv => TypeOK
    <2> SUFFICES ASSUME CeremonyInv PROVE TypeOK
      OBVIOUS
    <2> USE DEF CeremonyInv
    <2>1. \A r \in records : r.publisher \in Psks /\ r.recordId = r.payload.step
      BY DEF RecordsInv, RecordSound
    <2>2. ASSUME NEW psk \in Psks
          PROVE  /\ primary[psk].phase \in {"none", "waiting", "opened", "responded", "confirmed"}
                 /\ primary[psk].device \in Devices <=>
                       primary[psk].phase \in {"opened", "responded", "confirmed"}
                 /\ primary[psk].phase \in {"responded", "confirmed"} => primary[psk].tag \in Tag
      <3>1. PICK p : p = primary[psk]
        OBVIOUS
      <3>2. p \in PrimaryType /\ PrimarySound(psk, p)
        BY <3>1 DEF Types, PrimaryInv
      <3>3. p.phase \in {"responded", "confirmed"} => p.tag \in Tag
        BY <3>2, TagTyped DEF PrimarySound, PrimaryType
      <3> QED BY <3>1, <3>2, <3>3, NoneAssumption DEF PrimarySound, PrimaryType, Holding
    <2>3. ASSUME NEW d \in Devices
          PROVE  /\ device[d].phase \in {"idle", "requested", "linked", "done"}
                 /\ device[d].phase # "idle" => device[d].psk \in Psks
                 /\ device[d].phase \in {"linked", "done"} => device[d].tag \in Tag
      <3>1. PICK s : s = device[d]
        OBVIOUS
      <3>2. s \in DeviceType /\ DeviceSound(d, s)
        BY <3>1 DEF Types, DeviceInv
      <3>3. s.phase \in {"linked", "done"} => s.tag \in Tag
        BY <3>2, TagTyped DEF DeviceSound, DeviceType
      <3> QED BY <3>1, <3>2, <3>3 DEF DeviceSound, DeviceType
    <2> QED BY <2>1, <2>2, <2>3 DEF TypeOK, Types
  <1>2. CeremonyInv => Installable
    BY BundleOwner DEF Installable
  <1>3. CeremonyInv => BundlesSound
    BY <1>1, <1>2 DEF BundlesSound
  <1> QED BY <1>3, CeremonyInductive, PTL

(* A response opens with the ephemeral key of one request only: another      *)
(* device with the same code, or the same device after a crash, cannot open  *)
(* it (deriveResponseKey, openCeremonyResponse).                             *)
THEOREM ResponsesOpenOnce == Spec => []OpenedOnce
  <1>1. CeremonyInv => OpenedOnce
    <2> SUFFICES ASSUME CeremonyInv, NEW b \in bundles, NEW c \in bundles, b.response = c.response
                 PROVE  b = c
      BY DEF OpenedOnce
    <2> USE DEF CeremonyInv
    <2>1. PICK r \in records : IsResponse(r, b.psk, b.eph, b.response, b.bundle)
      BY DEF BundlesInv, Answered
    <2>2. PICK u \in records : IsResponse(u, c.psk, c.eph, c.response, c.bundle)
      BY DEF BundlesInv, Answered
    <2>3. r = u
      BY <2>1, <2>2 DEF DrawnOnce, IsResponse
    <2>4. b.psk = c.psk /\ b.bundle = c.bundle
      BY <2>1, <2>2, <2>3 DEF IsResponse
    <2>5. ResponseSeal(b.psk, b.eph, b.response, b.eph) = ResponseSeal(c.psk, c.eph, c.response, c.eph)
      BY <2>1, <2>2, <2>3 DEF IsResponse
    <2>6. b.eph = c.eph
      BY ONLY <2>5, SealInjective
    <2>7. b.device = c.device
      BY <2>4, <2>6, RequestUnique DEF BundlesInv
    <2> QED BY <2>4, <2>6, <2>7 DEF BundlesInv
  <1> QED BY <1>1, CeremonyInductive, PTL

(* A confirmation that the primary accepts is from the device it approved,   *)
(* which opened the very response the primary sealed last                    *)
(* (verifyCeremonyConfirm).                                                  *)
THEOREM ConfirmationsAgree == Spec => []ConfirmAgreement
  <1>1. CeremonyInv => ConfirmAgreement
    BY DEF CeremonyInv, PrimaryInv, PrimarySound, ConfirmAgreement
  <1> QED BY <1>1, CeremonyInductive, PTL
=============================================================================
