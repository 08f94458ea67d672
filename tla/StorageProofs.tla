--------------------------- MODULE StorageProofs ---------------------------
(***************************************************************************)
(* What a client stores.                                                    *)
(*                                                                         *)
(* The vault: its owner is never locked out, for any calls that overlap;    *)
(* and with calls that do not overlap an account handed back is the one     *)
(* stored, and only clearing the vault gives up an account.                 *)
(*                                                                         *)
(* The peer-link storage, for any accounts, links, sessions, events and     *)
(* calls, and any interleaving of their turns: its records are versioned    *)
(* and the indexes, the event log, the pages read from it and the listings  *)
(* agree with them.                                                         *)
(***************************************************************************)
EXTENDS PeerLinkStore, Keystore, FiniteSetTheorems, SequenceTheorems,
        WellFoundedInduction, TLAPS

----------------------------------------------------------------------------
(* The vault: envelopes and the calls under way.                           *)


(* Sealed under the key of its own salt; a device key unless version 1. *)
Sealed(env) == env.key.salt = env.salt
Keyed(env) == env.payload.keystoreVersion # 1 => env.payload.device # NoKey

StoredSealed ==
    HasKeystore => Sealed(stored) /\ Keyed(stored) /\ stored.key.password \in known

CallsSealed ==
    \A s \in Slots : ops[s] # Idle => Sealed(ops[s].env) /\ Keyed(ops[s].env)

VaultInv == KeystoreTypeOK /\ StoredSealed /\ CallsSealed

----------------------------------------------------------------------------
(* The records.                                                            *)

(* What is stored is an envelope or is none. *)
LEMMA StoredEnvelope ==
    KeystoreTypeOK /\ HasKeystore => stored \in EnvelopeType
  BY DEF KeystoreTypeOK, HasKeystore

(* A call that is not idle has an envelope; its step says what else. *)
LEMMA OpFacts ==
    ASSUME NEW op \in OpType
    PROVE  /\ op.step \in {"idle", "unlock", "reseal", "write"}
           /\ op.step = "idle" <=> op = Idle
           /\ op # Idle => op.env \in EnvelopeType
           /\ op.step \in {"unlock", "reseal"} => op.password \in Passwords
           /\ op.step = "write" => op.result \subseteq ResultType
  BY DEF OpType, Idle

LEMMA EnvelopeFacts ==
    ASSUME NEW env \in EnvelopeType
    PROVE  /\ env.salt \in 0 .. MaxFresh
           /\ env.key \in [password : Passwords, salt : 0 .. MaxFresh]
           /\ env.key.password \in Passwords
           /\ env.key.salt \in 0 .. MaxFresh
           /\ env.payload \in PayloadType
           /\ env.payload.account \in Accounts
           /\ env.payload.device \in DeviceKeys
  BY DEF EnvelopeType, PayloadType

LEMMA EnvelopeMade ==
    ASSUME NEW salt \in 0 .. MaxFresh, NEW payload \in PayloadType,
           NEW key \in [password : Passwords, salt : 0 .. MaxFresh]
    PROVE  /\ Envelope(salt, key, payload) \in EnvelopeType
           /\ Envelope(salt, key, payload).salt = salt
           /\ Envelope(salt, key, payload).key = key
           /\ Envelope(salt, key, payload).payload = payload
  BY DEF EnvelopeType, Envelope

LEMMA DeriveMade ==
    ASSUME NEW p \in Passwords, NEW salt \in 0 .. MaxFresh
    PROVE  /\ Derive(p, salt) \in [password : Passwords, salt : 0 .. MaxFresh]
           /\ Derive(p, salt).password = p
           /\ Derive(p, salt).salt = salt
  BY DEF Derive

(* A payload without a chain, of either version that has none. *)
LEMMA PlainPayload ==
    ASSUME NEW a \in Accounts, NEW d \in DeviceKeys, NEW v \in {1, 2}
    PROVE  /\ Payload(v, a, d, << >>) \in PayloadType
           /\ Payload(v, a, d, << >>).account = a
           /\ Payload(v, a, d, << >>).device = d
           /\ Payload(v, a, d, << >>).keystoreVersion = v
  BY DEF Payload, PayloadType, Chains

(* A payload with a chain that was checked. *)
LEMMA DelegatedPayload ==
    ASSUME NEW a \in Accounts, NEW chain \in Chains,
           normalizeDelegatedCertChain(chain, a, CeremonyKey)
    PROVE  /\ Payload(3, a, CeremonyKey, chain) \in PayloadType
           /\ Payload(3, a, CeremonyKey, chain).device = CeremonyKey
           /\ Payload(3, a, CeremonyKey, chain).keystoreVersion = 3
  <1>1. CeremonyKey \in DeviceKeys
    BY DEF DeviceKeys
  <1> QED BY <1>1 DEF Payload, PayloadType

LEMMA ResultMade ==
    ASSUME NEW payload \in PayloadType, payload.device # NoKey
    PROVE  Result(payload) \in ResultType
  BY DEF Result, ResultType, PayloadType

(* The version upgrade keeps salt, key and account. *)
LEMMA UpgradedMade ==
    ASSUME NEW env \in EnvelopeType, NEW d \in 1 .. MaxFresh
    PROVE  /\ Upgraded(env, d) \in EnvelopeType
           /\ Upgraded(env, d).salt = env.salt
           /\ Upgraded(env, d).key = env.key
           /\ Upgraded(env, d).payload \in PayloadType
           /\ Upgraded(env, d).payload.account = env.payload.account
           /\ Upgraded(env, d).payload.device # NoKey
  <1>1. d \in DeviceKeys /\ d # NoKey
    BY ValuesAssumption, BoundAssumption DEF DeviceKeys
  <1> QED
    BY <1>1, EnvelopeFacts, PlainPayload, EnvelopeMade DEF Upgraded

LEMMA WritingMade ==
    ASSUME NEW env \in EnvelopeType, NEW result \in SUBSET ResultType
    PROVE  /\ Writing(env, result) \in OpType
           /\ Writing(env, result) # Idle
           /\ Writing(env, result).step = "write"
           /\ Writing(env, result).env = env
           /\ Writing(env, result).result = result
  BY DEF Writing, OpType, Idle

----------------------------------------------------------------------------
(* The owner is not locked out.                                            *)

(* Init: a new vault, or one of version 1. *)
LEMMA VaultInit == KeystoreInit => VaultInv
  <1> SUFFICES ASSUME KeystoreInit PROVE VaultInv
    OBVIOUS
  <1>1. ops \in [Slots -> OpType] /\ \A s \in Slots : ops[s] = Idle
    BY DEF KeystoreInit, OpType
  <1>2. fresh \in 0 .. MaxFresh /\ returned \subseteq ResultType
    BY BoundAssumption DEF KeystoreInit
  <1>3. CASE stored = None /\ known = {}
    BY <1>1, <1>2, <1>3
    DEF VaultInv, KeystoreTypeOK, StoredSealed, CallsSealed, HasKeystore
  <1>4. CASE \E a \in Accounts, p \in Passwords :
               /\ stored = Envelope(0, Derive(p, 0), Payload(1, a, NoKey, << >>))
               /\ known = {p}
    <2> PICK a \in Accounts, p \in Passwords :
               /\ stored = Envelope(0, Derive(p, 0), Payload(1, a, NoKey, << >>))
               /\ known = {p}
      BY <1>4
    <2>1. 0 \in 0 .. MaxFresh /\ NoKey \in DeviceKeys
      BY BoundAssumption DEF DeviceKeys
    <2>2. stored \in EnvelopeType /\ Sealed(stored) /\ Keyed(stored)
      BY <2>1, PlainPayload, DeriveMade, EnvelopeMade DEF Sealed, Keyed
    <2>3. stored.key.password \in known
      BY <2>1, PlainPayload, DeriveMade, EnvelopeMade
    <2> QED
      BY <1>1, <1>2, <2>2, <2>3 DEF VaultInv, KeystoreTypeOK, StoredSealed, CallsSealed
  <1> QED BY <1>3, <1>4 DEF KeystoreInit

(* A call that leaves the store alone and becomes op. *)
LEMMA CallSet ==
    ASSUME VaultInv, NEW s \in Slots, NEW op \in OpType,
           op # Idle => Sealed(op.env) /\ Keyed(op.env),
           ops' = [ops EXCEPT ![s] = op],
           fresh' \in 0 .. MaxFresh, returned' \subseteq ResultType,
           UNCHANGED <<stored, known>>
    PROVE  VaultInv'
  <1>1. ops' \in [Slots -> OpType] /\ \A t \in Slots : ops'[t] = IF t = s THEN op ELSE ops[t]
    BY DEF VaultInv, KeystoreTypeOK
  <1>2. KeystoreTypeOK'
    BY <1>1 DEF VaultInv, KeystoreTypeOK
  <1>3. StoredSealed'
    BY DEF VaultInv, StoredSealed, HasKeystore
  <1>4. CallsSealed'
    BY <1>1 DEF VaultInv, CallsSealed
  <1> QED BY <1>2, <1>3, <1>4 DEF VaultInv

(* A write that ends, with or without effect. *)
LEMMA WriteEnds ==
    ASSUME VaultInv, NEW s \in Slots, ops[s].step = "write",
           \/ stored' = ops[s].env
           \/ stored' = stored /\ known \subseteq known',
           known' \subseteq known \cup {ops[s].env.key.password},
           ops[s].env.key.password \in known',
           ops' = [ops EXCEPT ![s] = Idle],
           returned' \subseteq ResultType, UNCHANGED fresh
    PROVE  VaultInv'
  <1>1. /\ ops[s].env \in EnvelopeType /\ Sealed(ops[s].env) /\ Keyed(ops[s].env)
        /\ ops[s].env.key.password \in Passwords
    BY OpFacts, EnvelopeFacts DEF VaultInv, KeystoreTypeOK, CallsSealed
  <1>2. ops' \in [Slots -> OpType] /\ \A t \in Slots : ops'[t] = IF t = s THEN Idle ELSE ops[t]
    BY DEF VaultInv, KeystoreTypeOK, OpType
  <1>3. KeystoreTypeOK'
    BY <1>1, <1>2 DEF VaultInv, KeystoreTypeOK
  <1>4. StoredSealed'
    BY <1>1 DEF VaultInv, StoredSealed, HasKeystore
  <1>5. CallsSealed'
    BY <1>2 DEF VaultInv, CallsSealed
  <1> QED BY <1>3, <1>4, <1>5 DEF VaultInv

(* A fresh value is a salt and a device key. *)
LEMMA DrawFacts ==
    ASSUME KeystoreTypeOK, Draw
    PROVE  /\ fresh' \in 0 .. MaxFresh /\ fresh' \in 1 .. MaxFresh
           /\ fresh' = fresh + 1 /\ fresh' \in DeviceKeys /\ fresh' # NoKey
  BY BoundAssumption, ValuesAssumption DEF KeystoreTypeOK, Draw, DeviceKeys

(* Creating seals a payload with a device key. *)
LEMMA CreateKeeps ==
    ASSUME VaultInv, NEW s \in Slots, NEW p \in Passwords, NEW payload \in PayloadType,
           payload.device # NoKey, CreateSealed(s, p, payload)
    PROVE  VaultInv'
  <1> DEFINE env == Envelope(fresh', Derive(p, fresh'), payload)
             op == Writing(env, {Result(payload)})
  <1>1. Draw /\ KeystoreTypeOK
    BY DEF CreateSealed, VaultInv
  <1>2. env \in EnvelopeType /\ Sealed(env) /\ Keyed(env)
    BY <1>1, DrawFacts, DeriveMade, EnvelopeMade DEF Sealed, Keyed
  <1>3. {Result(payload)} \in SUBSET ResultType
    BY ResultMade
  <1> HIDE DEF env
  <1>4. op \in OpType /\ op.env = env
    BY <1>2, <1>3, WritingMade
  <1>5. ops' = [ops EXCEPT ![s] = op] /\ UNCHANGED <<stored, known, returned>>
    BY DEF CreateSealed, env
  <1> HIDE DEF op
  <1> QED
    BY <1>1, <1>2, <1>4, <1>5, DrawFacts, CallSet DEF KeystoreTypeOK

LEMMA VaultStep == VaultInv /\ [KeystoreNext]_keystoreVars => VaultInv'
  <1> SUFFICES ASSUME VaultInv, [KeystoreNext]_keystoreVars PROVE VaultInv'
    OBVIOUS
  <1>0. KeystoreTypeOK /\ CallsSealed /\ StoredSealed
    BY DEF VaultInv
  <1>i. Idle \in OpType
    BY DEF OpType
  <1>1. ASSUME NEW s \in Slots, NEW p \in Passwords, NEW a \in Accounts,
               CreateKeystoreAccount(s, p, a)
        PROVE  VaultInv'
    <2>1. Draw
      BY <1>1 DEF CreateKeystoreAccount, CreateSealed
    <2>2. fresh + 1 \in DeviceKeys /\ fresh + 1 # NoKey
      BY <1>0, <2>1, DrawFacts
    <2> QED
      BY <1>1, <2>2, PlainPayload, CreateKeeps DEF CreateKeystoreAccount
  <1>2. ASSUME NEW s \in Slots, NEW p \in Passwords, NEW a \in Accounts, NEW chain \in Chains,
               CreateDelegatedKeystoreAccount(s, p, a, chain)
        PROVE  VaultInv'
    <2>1. CeremonyKey # NoKey
      BY ValuesAssumption
    <2> QED
      BY <1>2, <2>1, DelegatedPayload, CreateKeeps DEF CreateDelegatedKeystoreAccount
  <1>3. ASSUME NEW s \in Slots, NEW p \in Passwords, NEW then \in {"unlock", "reseal"},
               Open(s, p, then)
        PROVE  VaultInv'
    <2> DEFINE op == [step |-> then, env |-> stored, password |-> p]
    <2>1. stored \in EnvelopeType /\ Sealed(stored) /\ Keyed(stored)
      BY <1>0, <1>3, StoredEnvelope DEF Open, StoredSealed
    <2>2. op \in OpType /\ op.env = stored
      BY <2>1 DEF OpType
    <2>3. ops' = [ops EXCEPT ![s] = op] /\ UNCHANGED <<stored, fresh, returned, known>>
      BY <1>3 DEF Open
    <2> HIDE DEF op
    <2> QED BY <1>0, <2>1, <2>2, <2>3, CallSet DEF KeystoreTypeOK
  <1>4. ASSUME NEW s \in Slots, NEW p \in Passwords, ResealKeystoreEnvelope(s, p)
        PROVE  VaultInv'
    <2> DEFINE env == Envelope(fresh', Derive(p, fresh'), ops[s].env.payload)
               op == Writing(env, {})
    <2>1. /\ ops[s].env \in EnvelopeType /\ Keyed(ops[s].env)
          /\ ops[s].env.payload \in PayloadType
      BY <1>0, <1>4, OpFacts, EnvelopeFacts
      DEF KeystoreTypeOK, CallsSealed, ResealKeystoreEnvelope
    <2>2. Draw
      BY <1>4 DEF ResealKeystoreEnvelope
    <2>3. env \in EnvelopeType /\ Sealed(env) /\ Keyed(env)
      BY <1>0, <2>1, <2>2, DrawFacts, DeriveMade, EnvelopeMade DEF Sealed, Keyed
    <2> HIDE DEF env
    <2>4. op \in OpType /\ op.env = env
      BY <2>3, WritingMade
    <2>5. ops' = [ops EXCEPT ![s] = op] /\ UNCHANGED <<stored, known, returned>>
      BY <1>4 DEF ResealKeystoreEnvelope, env
    <2> HIDE DEF op
    <2> QED BY <1>0, <2>2, <2>3, <2>4, <2>5, DrawFacts, CallSet DEF KeystoreTypeOK
  <1>5. ASSUME NEW s \in Slots, Refuse(s)
        PROVE  VaultInv'
    BY <1>0, <1>5, <1>i, CallSet DEF Refuse, KeystoreTypeOK
  <1>6. ASSUME NEW s \in Slots, UnlockReturn(s)
        PROVE  VaultInv'
    <2>1. /\ ops[s].env.payload \in PayloadType /\ ops[s].env.payload.device # NoKey
      BY <1>0, <1>6, OpFacts, EnvelopeFacts DEF KeystoreTypeOK, CallsSealed, UnlockReturn, Keyed
    <2>2. returned' \subseteq ResultType
      BY <1>0, <1>6, <2>1, ResultMade DEF UnlockReturn, KeystoreTypeOK
    <2> QED BY <1>0, <1>6, <1>i, <2>2, CallSet DEF UnlockReturn, KeystoreTypeOK
  <1>7. ASSUME NEW s \in Slots, MigrateV1ToV2(s)
        PROVE  VaultInv'
    <2> DEFINE env == Upgraded(ops[s].env, fresh')
               op == Writing(env, {Result(env.payload)})
    <2>1. ops[s].env \in EnvelopeType /\ Sealed(ops[s].env)
      BY <1>0, <1>7, OpFacts DEF KeystoreTypeOK, CallsSealed, MigrateV1ToV2
    <2>2. Draw
      BY <1>7 DEF MigrateV1ToV2
    <2>3. /\ env \in EnvelopeType /\ Sealed(env) /\ Keyed(env)
          /\ env.payload \in PayloadType /\ env.payload.device # NoKey
      BY <1>0, <2>1, <2>2, DrawFacts, UpgradedMade DEF Sealed, Keyed
    <2>4. ops' = [ops EXCEPT ![s] = op] /\ UNCHANGED <<stored, known, returned>>
      BY <1>7 DEF MigrateV1ToV2
    <2> HIDE DEF env
    <2>5. op \in OpType /\ op.env = env
      BY <2>3, ResultMade, WritingMade
    <2> HIDE DEF op
    <2> QED BY <1>0, <2>2, <2>3, <2>4, <2>5, DrawFacts, CallSet DEF KeystoreTypeOK
  <1>8. ASSUME NEW s \in Slots, PutKeystoreEnvelope(s)
        PROVE  VaultInv'
    <2>1. returned' \subseteq ResultType
      BY <1>0, <1>8, OpFacts DEF PutKeystoreEnvelope, KeystoreTypeOK
    <2> QED BY <1>8, <2>1, WriteEnds DEF PutKeystoreEnvelope
  <1>9. ASSUME NEW s \in Slots, PutRejected(s)
        PROVE  VaultInv'
    BY <1>0, <1>9, WriteEnds DEF PutRejected, KeystoreTypeOK
  <1>10. ASSUME NEW value \in {None, Malformed}, Forget(value)
         PROVE  VaultInv'
    BY <1>0, <1>10
    DEF Forget, VaultInv, KeystoreTypeOK, StoredSealed, CallsSealed, HasKeystore
  <1>11. ASSUME Crash PROVE VaultInv'
    <2> DEFINE writes == {s \in Slots : ops[s].step = "write"}
    <2>1. \A s \in writes : /\ ops[s].env \in EnvelopeType
                            /\ Sealed(ops[s].env) /\ Keyed(ops[s].env)
                            /\ ops[s].env.key.password \in Passwords
      BY <1>0, OpFacts, EnvelopeFacts DEF KeystoreTypeOK, CallsSealed
    <2>2. /\ stored' \in {stored} \cup {ops[s].env : s \in writes}
          /\ known' = known \cup {ops[s].env.key.password : s \in writes}
          /\ ops' = [s \in Slots |-> Idle] /\ UNCHANGED <<fresh, returned>>
      BY <1>11 DEF Crash
    <2> HIDE DEF writes
    <2>3. KeystoreTypeOK'
      BY <1>0, <1>i, <2>1, <2>2 DEF KeystoreTypeOK
    <2>4. StoredSealed'
      BY <1>0, <2>1, <2>2 DEF StoredSealed, HasKeystore
    <2>5. CallsSealed'
      BY <2>2 DEF CallsSealed
    <2> QED BY <2>3, <2>4, <2>5 DEF VaultInv
  <1>12. CASE UNCHANGED keystoreVars
    BY <1>12 DEF keystoreVars, VaultInv, KeystoreTypeOK, StoredSealed, CallsSealed, HasKeystore
  <1> QED
    BY <1>1, <1>2, <1>3, <1>4, <1>5, <1>6, <1>7, <1>8, <1>9, <1>10, <1>11, <1>12
    DEF KeystoreNext, Unlock, Reseal, ClearKeystore, Damage

(* The stored envelope opens with a password its owner knows. *)
LEMMA VaultOpens == VaultInv => VaultSound
  <1> SUFFICES ASSUME VaultInv, HasKeystore
               PROVE  \E p \in known : Opens(stored, p)
    BY DEF VaultSound, Openable, VaultInv
  <1>1. stored \in EnvelopeType
    BY StoredEnvelope DEF VaultInv
  <1>2. Derive(stored.key.password, stored.salt) = stored.key
    BY <1>1 DEF VaultInv, StoredSealed, Sealed, Derive, EnvelopeType
  <1> QED BY <1>2 DEF Opens, VaultInv, StoredSealed

(* However calls overlap, fail or are cut off by a crash, what is stored is *)
(* a usable payload and its owner knows the password: the upgrade of        *)
(* migrateV1ToV2 keeps salt and key together and resealKeystoreEnvelope     *)
(* replaces both.                                                           *)
THEOREM NeverLockedOut == KeystoreSpec => []VaultSound
  <1>1. VaultInv => VaultSound
    BY VaultOpens
  <1> QED BY VaultInit, VaultStep, <1>1, PTL DEF KeystoreSpec

----------------------------------------------------------------------------
(* Calls that do not overlap.                                              *)

(* What the call in slot s may do to the store: it read what is stored; or  *)
(* it creates over nothing, reseals the payload, or upgrades version 1.     *)
CallFits(s) ==
    /\ ops[s].step \in {"unlock", "reseal"} => HasKeystore /\ ops[s].env = stored
    /\ ops[s].step = "write" =>
          \/ ~HasKeystore /\ ops[s].result = {Result(ops[s].env.payload)}
             /\ ops[s].env.payload.keystoreVersion # 1
          \/ /\ HasKeystore
             /\ ops[s].env.payload = stored.payload /\ ops[s].result = {}
          \/ /\ HasKeystore /\ stored.payload.keystoreVersion = 1
             /\ ops[s].env.payload.account = stored.payload.account
             /\ ops[s].env.payload.keystoreVersion # 1
             /\ ops[s].result = {Result(ops[s].env.payload)}

(* Only a payload with a device key is ever handed back. *)
HandedBack == returned # {} => HasKeystore /\ stored.payload.keystoreVersion # 1

SerialInv == Persisted /\ HandedBack /\ \A s \in Slots : CallFits(s)

(* One step with one slot: the account stored is kept, unless it is cleared. *)
Kept ==
    HasKeystore /\ HasKeystore' =>
        /\ stored'.payload.account = stored.payload.account
        /\ stored.payload.keystoreVersion # 1 => stored'.payload = stored.payload

Serial == \E s : Slots = {s}

LEMMA SerialInit == KeystoreInit => SerialInv
  BY DEF KeystoreInit, SerialInv, Persisted, HandedBack, CallFits, Idle

(* A call that leaves the store alone, in a slot that is the only one. *)
LEMMA FitsSet ==
    ASSUME VaultInv, SerialInv, NEW s, Slots = {s}, NEW op,
           ops' = [ops EXCEPT ![s] = op], UNCHANGED <<stored, returned>>,
           op = Idle \/ CallFits(s)'
    PROVE  SerialInv' /\ Kept
  <1>1. ops'[s] = op
    BY DEF VaultInv, KeystoreTypeOK
  <1>2. CallFits(s)'
    BY <1>1 DEF CallFits, Idle
  <1> QED
    BY <1>2 DEF SerialInv, Persisted, HandedBack, Kept, HasKeystore

(* The only write under way takes effect, and its result is handed back or  *)
(* is not.                                                                  *)
LEMMA FitsWrite ==
    ASSUME VaultInv, SerialInv, NEW s, Slots = {s}, ops[s].step = "write",
           stored' \in {stored, ops[s].env}, ops'[s] = Idle,
           \/ returned' = returned
           \/ returned' = returned \cup ops[s].result /\ stored' = ops[s].env
    PROVE  SerialInv' /\ Kept
  <1>1. ops[s].env \in EnvelopeType /\ CallFits(s)
    BY OpFacts DEF VaultInv, KeystoreTypeOK, SerialInv
  <1>2. stored' = ops[s].env => HasKeystore'
    BY <1>1, StoredAssumption DEF HasKeystore
  <1>3. CallFits(s)'
    BY DEF CallFits, Idle
  <1>4. ~HasKeystore => returned = {}
    BY DEF SerialInv, Persisted
  <1>5. HasKeystore /\ stored.payload.keystoreVersion = 1 => returned = {}
    BY DEF SerialInv, HandedBack
  <1>6. CASE stored' = stored /\ returned' = returned
    BY <1>3, <1>6 DEF SerialInv, Persisted, HandedBack, Kept, HasKeystore
  <1>7. CASE stored' = ops[s].env
    <2>1. CASE ~HasKeystore /\ ops[s].result = {Result(ops[s].env.payload)}
               /\ ops[s].env.payload.keystoreVersion # 1
      BY <1>2, <1>3, <1>4, <1>7, <2>1 DEF SerialInv, Persisted, HandedBack, Kept
    <2>2. CASE HasKeystore /\ ops[s].env.payload = stored.payload /\ ops[s].result = {}
      BY <1>2, <1>3, <1>7, <2>2 DEF SerialInv, Persisted, HandedBack, Kept
    <2>3. CASE /\ HasKeystore /\ stored.payload.keystoreVersion = 1
               /\ ops[s].env.payload.account = stored.payload.account
               /\ ops[s].env.payload.keystoreVersion # 1
               /\ ops[s].result = {Result(ops[s].env.payload)}
      BY <1>2, <1>3, <1>5, <1>7, <2>3 DEF SerialInv, Persisted, HandedBack, Kept
    <2> QED BY <1>1, <2>1, <2>2, <2>3 DEF CallFits
  <1> QED BY <1>6, <1>7

LEMMA FitsCreate ==
    ASSUME VaultInv, SerialInv, NEW s, Slots = {s}, NEW p \in Passwords,
           NEW payload \in PayloadType, payload.device # NoKey,
           payload.keystoreVersion # 1, CreateSealed(s, p, payload)
    PROVE  SerialInv' /\ Kept
  <1> DEFINE env == Envelope(fresh', Derive(p, fresh'), payload)
             op == Writing(env, {Result(payload)})
  <1>1. env \in EnvelopeType /\ env.payload = payload
    BY DrawFacts, DeriveMade, EnvelopeMade DEF CreateSealed, VaultInv
  <1>2. {Result(payload)} \in SUBSET ResultType
    BY ResultMade
  <1> HIDE DEF env
  <1>3. op.step = "write" /\ op.env = env /\ op.result = {Result(payload)}
    BY <1>1, <1>2, WritingMade
  <1>4. /\ ops' = [ops EXCEPT ![s] = op] /\ UNCHANGED <<stored, returned>>
        /\ ~HasKeystore
    BY DEF CreateSealed, env
  <1> HIDE DEF op
  <1>5. ops'[s] = op /\ ~HasKeystore'
    BY <1>4 DEF VaultInv, KeystoreTypeOK, HasKeystore
  <1>6. CallFits(s)'
    BY <1>1, <1>3, <1>5 DEF CallFits
  <1> QED BY <1>4, <1>6, FitsSet

LEMMA SerialStep ==
    ASSUME VaultInv, SerialInv, [KeystoreNext]_keystoreVars, NEW s, Slots = {s}
    PROVE  SerialInv' /\ Kept
  <1>0. KeystoreTypeOK /\ ops[s] \in OpType /\ CallFits(s)
    BY DEF VaultInv, KeystoreTypeOK, SerialInv
  <1>1. ASSUME NEW p \in Passwords, NEW a \in Accounts, CreateKeystoreAccount(s, p, a)
        PROVE  SerialInv' /\ Kept
    <2>1. fresh + 1 \in DeviceKeys /\ fresh + 1 # NoKey
      BY <1>0, <1>1, DrawFacts DEF CreateKeystoreAccount, CreateSealed
    <2> QED
      BY <1>1, <2>1, PlainPayload, FitsCreate DEF CreateKeystoreAccount
  <1>2. ASSUME NEW p \in Passwords, NEW a \in Accounts, NEW chain \in Chains,
               CreateDelegatedKeystoreAccount(s, p, a, chain)
        PROVE  SerialInv' /\ Kept
    <2>1. CeremonyKey # NoKey
      BY ValuesAssumption
    <2> QED
      BY <1>2, <2>1, DelegatedPayload, FitsCreate DEF CreateDelegatedKeystoreAccount
  <1>3. ASSUME NEW p \in Passwords, NEW then \in {"unlock", "reseal"}, Open(s, p, then)
        PROVE  SerialInv' /\ Kept
    <2> DEFINE op == [step |-> then, env |-> stored, password |-> p]
    <2>1. /\ ops' = [ops EXCEPT ![s] = op] /\ UNCHANGED <<stored, returned>>
          /\ HasKeystore
      BY <1>3 DEF Open
    <2>2. ops'[s] = op /\ HasKeystore'
      BY <2>1 DEF VaultInv, KeystoreTypeOK, HasKeystore
    <2>3. CallFits(s)'
      BY <2>1, <2>2 DEF CallFits
    <2> QED BY <2>1, <2>3, FitsSet
  <1>4. ASSUME NEW p \in Passwords, ResealKeystoreEnvelope(s, p)
        PROVE  SerialInv' /\ Kept
    <2> DEFINE env == Envelope(fresh', Derive(p, fresh'), ops[s].env.payload)
               op == Writing(env, {})
    <2>1. /\ HasKeystore /\ ops[s].env = stored /\ stored.payload \in PayloadType
      BY <1>0, <1>4, OpFacts, EnvelopeFacts DEF CallFits, ResealKeystoreEnvelope
    <2>2. env \in EnvelopeType /\ env.payload = stored.payload
      BY <1>0, <1>4, <2>1, DrawFacts, DeriveMade, EnvelopeMade DEF ResealKeystoreEnvelope
    <2>3. ops' = [ops EXCEPT ![s] = op] /\ UNCHANGED <<stored, returned>>
      BY <1>4 DEF ResealKeystoreEnvelope
    <2> HIDE DEF env
    <2>4. op.step = "write" /\ op.env = env /\ op.result = {}
      BY <2>2, WritingMade
    <2> HIDE DEF op
    <2>5. ops'[s] = op /\ HasKeystore'
      BY <2>1, <2>3 DEF VaultInv, KeystoreTypeOK, HasKeystore
    <2>6. CallFits(s)'
      BY <2>2, <2>3, <2>4, <2>5 DEF CallFits
    <2> QED BY <2>3, <2>6, FitsSet
  <1>5. ASSUME Refuse(s)
        PROVE  SerialInv' /\ Kept
    BY <1>5, FitsSet DEF Refuse
  <1>6. ASSUME UnlockReturn(s)
        PROVE  SerialInv' /\ Kept
    <2>1. /\ HasKeystore /\ ops[s].env = stored /\ UNCHANGED stored
          /\ stored.payload.keystoreVersion # 1
          /\ returned' = returned \cup {Result(stored.payload)}
      BY <1>0, <1>6 DEF CallFits, UnlockReturn
    <2>2. ops'[s] = Idle
      BY <1>6 DEF UnlockReturn, VaultInv, KeystoreTypeOK
    <2>3. CallFits(s)'
      BY <2>2 DEF CallFits, Idle
    <2> QED
      BY <2>1, <2>3 DEF SerialInv, Persisted, HandedBack, Kept, HasKeystore
  <1>7. ASSUME MigrateV1ToV2(s)
        PROVE  SerialInv' /\ Kept
    <2> DEFINE env == Upgraded(ops[s].env, fresh')
               op == Writing(env, {Result(env.payload)})
    <2>1. /\ HasKeystore /\ ops[s].env = stored /\ stored \in EnvelopeType
          /\ stored.payload.keystoreVersion = 1
      BY <1>0, <1>7, OpFacts DEF CallFits, MigrateV1ToV2
    <2>2. /\ env \in EnvelopeType /\ env.payload.account = stored.payload.account
          /\ env.payload \in PayloadType /\ env.payload.device # NoKey
      BY <1>0, <1>7, <2>1, DrawFacts, UpgradedMade DEF MigrateV1ToV2
    <2>v. env.payload.keystoreVersion # 1
      BY DEF Upgraded, Envelope, Payload
    <2>3. ops' = [ops EXCEPT ![s] = op] /\ UNCHANGED <<stored, returned>>
      BY <1>7 DEF MigrateV1ToV2
    <2> HIDE DEF env
    <2>4. op.step = "write" /\ op.env = env /\ op.result = {Result(env.payload)}
      BY <2>2, ResultMade, WritingMade
    <2> HIDE DEF op
    <2>5. ops'[s] = op /\ HasKeystore'
      BY <2>1, <2>3 DEF VaultInv, KeystoreTypeOK, HasKeystore
    <2>6. CallFits(s)'
      BY <2>1, <2>2, <2>v, <2>3, <2>4, <2>5 DEF CallFits
    <2> QED BY <2>3, <2>6, FitsSet
  <1>8. ASSUME PutKeystoreEnvelope(s)
        PROVE  SerialInv' /\ Kept
    BY <1>8, FitsWrite DEF PutKeystoreEnvelope, VaultInv, KeystoreTypeOK
  <1>9. ASSUME PutRejected(s)
        PROVE  SerialInv' /\ Kept
    BY <1>9, FitsWrite DEF PutRejected, VaultInv, KeystoreTypeOK
  <1>10. ASSUME NEW value \in {None, Malformed}, Forget(value), ops[s] = Idle
         PROVE  SerialInv' /\ Kept
    BY <1>10
    DEF Forget, SerialInv, Persisted, HandedBack, Kept, HasKeystore, CallFits, Idle
  <1>11. ASSUME Crash PROVE SerialInv' /\ Kept
    <2>1. /\ ops'[s] = Idle /\ UNCHANGED returned
          /\ stored' \in {stored} \cup (IF ops[s].step = "write" THEN {ops[s].env} ELSE {})
      BY <1>11 DEF Crash
    <2>2. CASE ops[s].step = "write"
      BY <2>1, <2>2, FitsWrite
    <2>3. CASE ops[s].step # "write"
      BY <2>1, <2>3
      DEF SerialInv, Persisted, HandedBack, Kept, HasKeystore, CallFits, Idle
    <2> QED BY <2>2, <2>3
  <1>12. CASE UNCHANGED keystoreVars
    BY <1>12 DEF keystoreVars, SerialInv, Persisted, HandedBack, Kept, HasKeystore, CallFits
  <1> QED
    BY <1>1, <1>2, <1>3, <1>4, <1>5, <1>6, <1>7, <1>8, <1>9, <1>10, <1>11, <1>12
    DEF KeystoreNext, Unlock, Reseal, ClearKeystore, Damage

LEMMA SerialNext ==
    ASSUME Serial
    PROVE  VaultInv /\ SerialInv /\ [KeystoreNext]_keystoreVars => SerialInv' /\ Kept
  BY SerialStep DEF Serial

(* With calls that do not overlap, an account that createKeystoreAccount or *)
(* an unlock hands back is the one stored: after rejected writes, crashes,  *)
(* password changes and the upgrade of version 1.                           *)
THEOREM HandedBackPersisted ==
    ASSUME Serial
    PROVE  KeystoreSpec => []Persisted
  <1>1. SerialInv => Persisted
    BY DEF SerialInv
  <1> QED
    BY <1>1, VaultInit, VaultStep, SerialInit, SerialNext, PTL DEF KeystoreSpec

(* With calls that do not overlap, no step but clearing the vault gives up  *)
(* the account stored, or the payload once it has a device key.             *)
THEOREM AccountKept ==
    ASSUME Serial
    PROVE  KeystoreSpec => VaultKept
  <1>1. VaultInv /\ SerialInv /\ [KeystoreNext]_keystoreVars =>
          [HasKeystore /\ HasKeystore' =>
             /\ stored'.payload.account = stored.payload.account
             /\ stored.payload.keystoreVersion # 1 => stored'.payload = stored.payload]_keystoreVars
    BY SerialNext DEF Kept
  <1> QED
    BY <1>1, VaultInit, VaultStep, SerialInit, SerialNext, PTL DEF KeystoreSpec, VaultKept

----------------------------------------------------------------------------
(* The peer-link storage.                                                  *)


(* Keys.                                                                   *)

LEMMA KeyFacts ==
    /\ \A a, b : Link(a, b)[1] = "records" /\ Link(a, b)[2] = a /\ Link(a, b)[3] = b
    /\ \A a, b : Pair(a, b)[1] = "pairs" /\ Pair(a, b)[2] = a /\ Pair(a, b)[3] = b
    /\ \A a, b : Session(a, b)[1] = "sessions" /\ Session(a, b)[2] = a /\ Session(a, b)[3] = b
    /\ \A a, b : /\ SessionIndex(a, b)[1] = "sessions:by-peer-link"
                 /\ SessionIndex(a, b)[2] = a /\ SessionIndex(a, b)[3] = b
    /\ \A a, b : Attempt(a, b)[1] = "handshakes" /\ Attempt(a, b)[2] = a /\ Attempt(a, b)[3] = b
    /\ \A a, b : Event(a, b)[1] = "events" /\ Event(a, b)[2] = a /\ Event(a, b)[3] = b
    /\ \A a, b : /\ EventIndex(a, b)[1] = "events:index"
                 /\ EventIndex(a, b)[2] = a /\ EventIndex(a, b)[3] = b
    /\ \A a : Identity(a)[1] = "keys:identity"
    /\ \A a, b : InvitePreKey(a, b)[1] = "keys:invite"
  BY DEF Link, Pair, Session, SessionIndex, Attempt, Event, EventIndex, Identity, InvitePreKey

(* Keys of different stores differ, keys of one store determine their parts. *)
LEMMA KeysDiffer ==
    /\ \A a, b, c, d : Link(a, b) # Pair(c, d) /\ Link(a, b) # SessionIndex(c, d)
                       /\ Link(a, b) # Event(c, d) /\ Link(a, b) # EventIndex(c, d)
                       /\ Link(a, b) # Session(c, d) /\ Link(a, b) # Attempt(c, d)
    /\ \A a, b, c, d : Session(a, b) # Pair(c, d) /\ Session(a, b) # SessionIndex(c, d)
                       /\ Session(a, b) # Event(c, d) /\ Session(a, b) # EventIndex(c, d)
                       /\ Session(a, b) # Attempt(c, d)
    /\ \A a, b, c, d : Attempt(a, b) # Pair(c, d) /\ Attempt(a, b) # SessionIndex(c, d)
                       /\ Attempt(a, b) # Event(c, d) /\ Attempt(a, b) # EventIndex(c, d)
    /\ \A a, b, c, d : Pair(a, b) # SessionIndex(c, d) /\ Pair(a, b) # Event(c, d)
                       /\ Pair(a, b) # EventIndex(c, d)
    /\ \A a, b, c, d : SessionIndex(a, b) # Event(c, d) /\ SessionIndex(a, b) # EventIndex(c, d)
    /\ \A a, b, c, d : Event(a, b) # EventIndex(c, d)
    /\ \A a, b, c, d : /\ Link(a, b) = Link(c, d) => a = c /\ b = d
                       /\ Pair(a, b) = Pair(c, d) => a = c /\ b = d
                       /\ Session(a, b) = Session(c, d) => a = c /\ b = d
                       /\ SessionIndex(a, b) = SessionIndex(c, d) => a = c /\ b = d
                       /\ Attempt(a, b) = Attempt(c, d) => a = c /\ b = d
                       /\ Event(a, b) = Event(c, d) => a = c /\ b = d
                       /\ EventIndex(a, b) = EventIndex(c, d) => a = c /\ b = d
  BY KeyFacts

(* A key of the key material is no key of the other stores. *)
MaterialKeys == {Identity(o) : o \in Owners} \cup {InvitePreKey(o, i) : o \in Owners, i \in Invites}

LEMMA MaterialDiffers ==
    \A k \in MaterialKeys : \A a, b :
        /\ k # Link(a, b) /\ k # Pair(a, b) /\ k # Session(a, b) /\ k # SessionIndex(a, b)
        /\ k # Attempt(a, b) /\ k # Event(a, b) /\ k # EventIndex(a, b)
  BY KeyFacts DEF MaterialKeys

LEMMA RecordKeyFacts ==
    /\ \A o \in Owners, l \in Links : Link(o, l) \in RecordKeys
    /\ \A o \in Owners, s \in Sessions : Session(o, s) \in RecordKeys
    /\ \A o \in Owners, a \in Attempts : Attempt(o, a) \in RecordKeys
    /\ \A a, b : Pair(a, b) \notin RecordKeys /\ SessionIndex(a, b) \notin RecordKeys
                 /\ Event(a, b) \notin RecordKeys /\ EventIndex(a, b) \notin RecordKeys
    /\ \A k \in MaterialKeys : k \notin RecordKeys
  BY KeysDiffer, MaterialDiffers DEF RecordKeys

----------------------------------------------------------------------------
(* Queues of calls, told apart by their numbers.                           *)

Before(q, a, b) == \E i, j \in DOMAIN q : i < j /\ q[i] = a /\ q[j] = b

Numbered(q) == q \in Seq(ToSet(q)) /\ \A i, j \in DOMAIN q : q[i].by = q[j].by => i = j

LEMMA SequenceOfItself == ASSUME NEW S, NEW q \in Seq(S) PROVE q \in Seq(ToSet(q))
  BY DEF ToSet

LEMMA QueueAppend ==
    ASSUME NEW q, Numbered(q), NEW c, \A a \in ToSet(q) : a.by # c.by
    PROVE  /\ Numbered(Append(q, c)) /\ ToSet(Append(q, c)) = ToSet(q) \cup {c}
           /\ Len(Append(q, c)) = Len(q) + 1
           /\ \A a, b \in ToSet(q) : Before(Append(q, c), a, b) => Before(q, a, b)
           /\ \A a, b \in ToSet(q) : Before(q, a, b) => Before(Append(q, c), a, b)
           /\ \A a \in ToSet(q) : Before(Append(q, c), a, c) /\ ~Before(Append(q, c), c, a)
           /\ ~Before(Append(q, c), c, c)
  <1>1. PICK S, r, n : S = ToSet(q) \cup {c} /\ r = Append(q, c) /\ n = Len(q)
    OBVIOUS
  <1>2. q \in Seq(S) /\ r \in Seq(S) /\ n \in Nat /\ DOMAIN q = 1 .. n /\ DOMAIN r = 1 .. n + 1
        /\ Len(r) = n + 1 /\ r[n + 1] = c /\ \A i \in 1 .. n : r[i] = q[i]
    BY <1>1 DEF Numbered
  <1>3. \A i \in 1 .. n + 1 : i \in 1 .. n \/ i = n + 1
    BY <1>2
  <1>4. \A i \in 1 .. n : i \in 1 .. n + 1 /\ i < n + 1 /\ q[i] \in ToSet(q)
    BY <1>2 DEF ToSet
  <1>5. ToSet(r) = S
    BY <1>1, <1>2, <1>3, <1>4 DEF ToSet
  <1>6. \A i \in 1 .. n : r[i].by # r[n + 1].by /\ r[i] # c
    BY <1>2, <1>4
  <1>7. Numbered(r)
    <2>1. \A i, j \in 1 .. n + 1 : r[i].by = r[j].by => i = j
      BY <1>2, <1>3, <1>6 DEF Numbered
    <2> QED BY <1>2, <1>5, <2>1 DEF Numbered
  <1>8. \A a, b \in ToSet(q) : Before(r, a, b) => Before(q, a, b)
    <2> SUFFICES ASSUME NEW a \in ToSet(q), NEW b \in ToSet(q), Before(r, a, b) PROVE Before(q, a, b)
      OBVIOUS
    <2>1. PICK i, j \in 1 .. n + 1 : i < j /\ r[i] = a /\ r[j] = b
      BY <1>2 DEF Before
    <2>2. i # n + 1 /\ j # n + 1
      BY <1>2, <2>1
    <2>3. i \in 1 .. n /\ j \in 1 .. n
      BY <1>3, <2>2
    <2> QED BY <1>2, <2>1, <2>3 DEF Before
  <1>9. \A a, b \in ToSet(q) : Before(q, a, b) => Before(r, a, b)
    BY <1>2, <1>4 DEF Before
  <1>10. \A a \in ToSet(q) : Before(r, a, c)
    <2> SUFFICES ASSUME NEW a \in ToSet(q) PROVE Before(r, a, c)
      OBVIOUS
    <2>1. PICK i \in 1 .. n : q[i] = a
      BY <1>2 DEF ToSet
    <2>2. n + 1 \in 1 .. n + 1
      BY <1>2
    <2> QED BY <1>2, <1>4, <2>1, <2>2 DEF Before
  <1>11. \A a : ~Before(r, c, a)
    <2> SUFFICES ASSUME NEW a, NEW i \in 1 .. n + 1, NEW j \in 1 .. n + 1, i < j, r[i] = c PROVE FALSE
      BY <1>2 DEF Before
    <2>1. i = n + 1
      BY <1>3, <1>6
    <2> QED BY <1>2, <2>1
  <1> QED BY <1>1, <1>2, <1>5, <1>7, <1>8, <1>9, <1>10, <1>11

LEMMA QueueTail ==
    ASSUME NEW q, Numbered(q), q # <<>>
    PROVE  /\ Numbered(Tail(q)) /\ ToSet(Tail(q)) = ToSet(q) \ {Head(q)} /\ Head(q) \in ToSet(q)
           /\ Len(Tail(q)) = Len(q) - 1
           /\ \A a, b \in ToSet(Tail(q)) : Before(Tail(q), a, b) => Before(q, a, b)
           /\ \A a, b \in ToSet(Tail(q)) : Before(q, a, b) => Before(Tail(q), a, b)
           /\ \A a \in ToSet(Tail(q)) : a.by # Head(q).by /\ Before(q, Head(q), a)
           /\ \A a : ~Before(q, a, Head(q))
  <1>1. PICK S, t, h, n : S = ToSet(q) /\ t = Tail(q) /\ h = Head(q) /\ n = Len(q)
    OBVIOUS
  <1>2. q \in Seq(S) /\ n \in Nat /\ n # 0 /\ DOMAIN q = 1 .. n /\ h = q[1]
    BY <1>1 DEF Numbered
  <1>3. t \in Seq(S) /\ DOMAIN t = 1 .. n - 1 /\ Len(t) = n - 1 /\ \A i \in 1 .. n - 1 : t[i] = q[i + 1]
    BY <1>1, <1>2
  <1>4. \A i \in 1 .. n - 1 : i + 1 \in 1 .. n /\ i + 1 # 1
    BY <1>2
  <1>5. \A i \in 1 .. n : i = 1 \/ (i - 1 \in 1 .. n - 1 /\ (i - 1) + 1 = i /\ 1 < i)
    BY <1>2
  <1>6. 1 \in 1 .. n /\ h \in S
    BY <1>1, <1>2 DEF ToSet
  <1>7. \A i \in 1 .. n : i # 1 => q[i].by # h.by /\ q[i] # h
    BY <1>2, <1>6 DEF Numbered
  <1>8. ToSet(t) = S \ {h}
    <2>1. ASSUME NEW a \in ToSet(t) PROVE a \in S \ {h}
      <3>1. PICK i \in 1 .. n - 1 : a = q[i + 1]
        BY <1>3 DEF ToSet
      <3> QED BY <1>1, <1>2, <1>4, <1>7, <3>1 DEF ToSet
    <2>2. ASSUME NEW a \in S \ {h} PROVE a \in ToSet(t)
      <3>1. PICK i \in 1 .. n : a = q[i]
        BY <1>1, <1>2 DEF ToSet
      <3>2. i - 1 \in 1 .. n - 1 /\ (i - 1) + 1 = i
        BY <1>2, <1>5, <3>1
      <3>3. t[i - 1] = a
        BY <1>3, <3>1, <3>2
      <3> QED BY <1>3, <3>2, <3>3 DEF ToSet
    <2> QED BY <2>1, <2>2
  <1>9. Numbered(t)
    <2>1. ASSUME NEW i \in 1 .. n - 1, NEW j \in 1 .. n - 1, t[i].by = t[j].by PROVE i = j
      <3>1. q[i + 1].by = q[j + 1].by /\ i + 1 \in 1 .. n /\ j + 1 \in 1 .. n
        BY <1>3, <1>4, <2>1
      <3>2. i + 1 = j + 1
        BY <1>2, <3>1 DEF Numbered
      <3> QED BY <1>2, <3>2
    <2>2. t \in Seq(ToSet(t))
      BY <1>3, SequenceOfItself
    <2> QED BY <1>3, <2>1, <2>2 DEF Numbered
  <1>10. \A a, b : Before(t, a, b) => Before(q, a, b)
    <2> SUFFICES ASSUME NEW a, NEW b, Before(t, a, b) PROVE Before(q, a, b)
      OBVIOUS
    <2>1. PICK i, j \in 1 .. n - 1 : i < j /\ t[i] = a /\ t[j] = b
      BY <1>3 DEF Before
    <2>2. i + 1 < j + 1
      BY <1>2, <2>1
    <2> QED BY <1>2, <1>3, <1>4, <2>1, <2>2 DEF Before
  <1>11. \A a, b \in ToSet(t) : Before(q, a, b) => Before(t, a, b)
    <2> SUFFICES ASSUME NEW a \in ToSet(t), NEW b \in ToSet(t), Before(q, a, b) PROVE Before(t, a, b)
      OBVIOUS
    <2>1. PICK i, j \in 1 .. n : i < j /\ q[i] = a /\ q[j] = b
      BY <1>2 DEF Before
    <2>2. i # 1 /\ j # 1
      BY <1>2, <1>8, <2>1
    <2>3. /\ i - 1 \in 1 .. n - 1 /\ (i - 1) + 1 = i /\ j - 1 \in 1 .. n - 1 /\ (j - 1) + 1 = j
          /\ i - 1 < j - 1
      BY <1>2, <1>5, <2>1, <2>2
    <2>4. t[i - 1] = a /\ t[j - 1] = b
      BY <1>3, <2>1, <2>3
    <2> QED BY <1>3, <2>3, <2>4 DEF Before
  <1>12. \A a \in ToSet(t) : a.by # h.by /\ Before(q, h, a)
    <2> SUFFICES ASSUME NEW a \in ToSet(t) PROVE a.by # h.by /\ Before(q, h, a)
      OBVIOUS
    <2>1. PICK i \in 1 .. n : a = q[i] /\ i # 1
      BY <1>1, <1>2, <1>8 DEF ToSet
    <2>2. 1 < i
      BY <1>5, <2>1
    <2> QED BY <1>2, <1>6, <1>7, <2>1, <2>2 DEF Before
  <1>13. \A a : ~Before(q, a, h)
    <2> SUFFICES ASSUME NEW a, NEW i \in 1 .. n, NEW j \in 1 .. n, i < j, q[j] = h PROVE FALSE
      BY <1>2 DEF Before
    <2>1. j = 1
      BY <1>7
    <2> QED BY <1>2, <2>1
  <1> QED BY <1>1, <1>3, <1>6, <1>8, <1>9, <1>10, <1>11, <1>12, <1>13

(* A call that goes to the end of the queue. *)
LEMMA QueueRotate ==
    ASSUME NEW q, Numbered(q), q # <<>>, NEW c, c.by = Head(q).by
    PROVE  LET r == Append(Tail(q), c)
               S == ToSet(q) \ {Head(q)}
           IN /\ Numbered(r) /\ ToSet(r) = S \cup {c} /\ Head(q) \in ToSet(q) /\ Len(r) = Len(q)
              /\ \A a, b \in S : Before(r, a, b) <=> Before(q, a, b)
              /\ \A a \in S : /\ a.by # c.by /\ Before(q, Head(q), a)
                              /\ Before(r, a, c) /\ ~Before(r, c, a)
              /\ ~Before(r, c, c)
  <1>1. PICK t, S : t = Tail(q) /\ S = ToSet(q) \ {Head(q)}
    OBVIOUS
  <1>2. /\ Numbered(t) /\ ToSet(t) = S /\ Head(q) \in ToSet(q) /\ Len(t) = Len(q) - 1
        /\ \A a, b \in S : Before(t, a, b) <=> Before(q, a, b)
        /\ \A a \in S : a.by # c.by /\ Before(q, Head(q), a)
    BY <1>1, QueueTail
  <1>3. /\ Numbered(Append(t, c)) /\ ToSet(Append(t, c)) = S \cup {c} /\ Len(Append(t, c)) = Len(t) + 1
        /\ \A a, b \in S : Before(Append(t, c), a, b) <=> Before(t, a, b)
        /\ \A a \in S : Before(Append(t, c), a, c) /\ ~Before(Append(t, c), c, a)
        /\ ~Before(Append(t, c), c, c)
    BY <1>2, QueueAppend
  <1>4. Len(q) \in Nat
    BY DEF Numbered
  <1>5. Len(Append(t, c)) = Len(q)
    BY <1>2, <1>3, <1>4
  <1> QED BY <1>1, <1>2, <1>3, <1>5

----------------------------------------------------------------------------
(* Types.                                                                  *)

StoreKeys ==
    RecordKeys
        \cup {Pair(o, p) : o \in Owners, p \in Peers}
        \cup {SessionIndex(o, l) : o \in Owners, l \in Links}
        \cup {Event(o, e) : o \in Owners, e \in Events}
        \cup {EventIndex(o, l) : o \in Owners, l \in Links}
        \cup MaterialKeys

Opt(S) == {<<>>} \cup {<<x>> : x \in S}

LinkRecs == [peer : Peers, version : Nat \ {0}, by : 1 .. MaxCalls]
SessionRecs == [link : Links, status : Statuses, version : Nat \ {0}, by : 1 .. MaxCalls]
EventRecs == [link : Links]

(* v is a value for the key k. *)
Fits(k, v) ==
    /\ k \in StoreKeys
    /\ k[1] = "records" => v \in LinkRecs
    /\ k[1] = "pairs" => v \in Links
    /\ k[1] \in {"sessions", "handshakes"} => v \in SessionRecs
    /\ k[1] = "sessions:by-peer-link" => v \in Sessions
    /\ k[1] = "events" => v \in EventRecs
    /\ k[1] = "events:index" => v \in Seq(Events)

StoreOK(f) == \A k \in DOMAIN f : Fits(k, f[k])

(* What a call has read, at each of its awaits. *)
CallOK(c) ==
    /\ c = [req |-> c.req, by |-> c.by, pc |-> c.pc, seen |-> c.seen]
    /\ c.by \in 1 .. MaxCalls /\ c.req \in Requests \cup ListRequests
    /\ c.req.op = "createLink" => \/ c.pc = "read" /\ c.seen \in Opt(LinkRecs)
                                  \/ c.pc = "pair" /\ c.seen \in Opt(Links)
                                  \/ c.pc = "index"
    /\ c.req.op = "updateLink" => \/ c.pc = "read" /\ c.seen \in Opt(LinkRecs)
                                  \/ c.pc = "index"
    /\ c.req.op = "putSession" => \/ c.pc = "read" /\ c.seen \in Opt(SessionRecs)
                                  \/ c.pc = "index"
    /\ c.req.op = "deleteSession" =>
          \/ c.pc = "read" /\ c.seen \in Opt(SessionRecs)
          \/ c.pc = "deleted" /\ \E r \in SessionRecs : c.seen = <<r>>
          \/ c.pc = "index" /\ \E l \in Links : \E x \in Opt(Sessions) : c.seen = <<l>> \o x
    /\ c.req.op \in {"createAttempt", "updateAttempt"} => c.pc = "read" /\ c.seen \in Opt(SessionRecs)
    /\ c.req.op = "append" => \/ c.pc = "read" /\ c.seen \in Opt(EventRecs)
                              \/ c.pc = "written"
                              \/ c.pc = "index" /\ c.seen \in Opt(Seq(Events))
    /\ c.req.op = "list" => c.pc = "list" /\ c.seen = [todo |-> c.seen.todo, out |-> c.seen.out,
                                                       began |-> c.seen.began]

IndexKeys == {SessionIndex(o, l) : o \in Owners, l \in Links}

LatestOK(f) == DOMAIN f \subseteq IndexKeys /\ \A i \in DOMAIN f : f[i] \in Sessions

ReaderOK(r) ==
    /\ r = [index |-> r.index, pc |-> r.pc, cursor |-> r.cursor, limit |-> r.limit,
            ids |-> r.ids, got |-> r.got]
    /\ \E o \in Owners, l \in Links : r.index = EventIndex(o, l)
    /\ r.pc \in {"idle", "page", "done"} /\ r.cursor \in Opt(Events) /\ r.limit \in Nat
    /\ r.ids \in Seq(Events) /\ r.got \in Seq(Events)

TypeInv ==
    /\ StoreOK(kv) /\ Numbered(queue) /\ \A c \in ToSet(queue) : CallOK(c) /\ c.by <= calls
    /\ calls \in 0 .. MaxCalls /\ Len(queue) <= calls
    /\ LatestOK(latest) /\ ReaderOK(reader)
    /\ acked \subseteq {<<EventIndex(o, l), e>> : o \in Owners, l \in Links, e \in Events}

LEMMA RequestFacts ==
    ASSUME NEW r \in Requests \cup ListRequests
    PROVE  /\ r.owner \in Owners
           /\ r.op \in {"createLink", "updateLink", "putSession", "deleteSession", "createAttempt",
                        "updateAttempt", "append", "list"}
           /\ r \in Requests <=> r.op # "list"
           /\ r.op \in {"createLink", "updateLink"} => r.link \in Links /\ r.peer \in Peers
           /\ r.op \in {"createLink", "putSession", "createAttempt"} => r.version \in Nat
           /\ r.op \in {"updateLink", "updateAttempt"} => r.expected \in Nat
           /\ r.op \in {"putSession", "deleteSession"} => r.session \in Sessions
           /\ r.op = "putSession" => r.link \in Links /\ r.status \in Statuses
           /\ r.op \in {"createAttempt", "updateAttempt"} =>
                 r.attempt \in Attempts /\ r.link \in Links /\ r.status \in Statuses
           /\ r.op = "append" => r.event \in Events /\ r.link \in Links
           /\ r.op = "list" => \/ r.of \in {"recoverable", "pending"}
                               \/ r.of = "link" /\ r.link \in Links
  <1>1. CASE r \in LinkRequests
    BY <1>1, VersionsAssumption DEF LinkRequests, Requests
  <1>2. CASE r \in SessionRequests
    BY <1>2, VersionsAssumption DEF SessionRequests, Requests
  <1>3. CASE r \in AttemptRequests
    BY <1>3, VersionsAssumption DEF AttemptRequests, Requests
  <1>4. CASE r \in EventRequests
    BY <1>4 DEF EventRequests, Requests
  <1>5. CASE r \in ListRequests
    BY <1>5 DEF ListRequests, Requests, LinkRequests, SessionRequests, AttemptRequests, EventRequests
  <1> QED BY <1>1, <1>2, <1>3, <1>4, <1>5 DEF Requests

LEMMA FirstKeyFacts ==
    ASSUME NEW r \in Requests
    PROVE  /\ r.op \in {"createLink", "updateLink"} => FirstKey(r) = Link(r.owner, r.link)
           /\ r.op \in {"putSession", "deleteSession"} => FirstKey(r) = Session(r.owner, r.session)
           /\ r.op \in {"createAttempt", "updateAttempt"} => FirstKey(r) = Attempt(r.owner, r.attempt)
           /\ r.op = "append" => FirstKey(r) = Event(r.owner, r.event)
           /\ FirstKey(r) \in StoreKeys
  <1>1. r \in Requests \cup ListRequests
    OBVIOUS
  <1>2. /\ r.op \in {"createLink", "updateLink"} => FirstKey(r) = Link(r.owner, r.link)
        /\ r.op \in {"putSession", "deleteSession"} => FirstKey(r) = Session(r.owner, r.session)
        /\ r.op \in {"createAttempt", "updateAttempt"} => FirstKey(r) = Attempt(r.owner, r.attempt)
        /\ r.op = "append" => FirstKey(r) = Event(r.owner, r.event)
    BY DEF FirstKey
  <1>3. FirstKey(r) \in StoreKeys
    BY <1>1, <1>2, RequestFacts, RecordKeyFacts DEF StoreKeys
  <1> QED BY <1>2, <1>3

LEMMA StoreSet ==
    ASSUME StoreOK(kv), NEW k, NEW v, Fits(k, v), Set(k, v)
    PROVE  StoreOK(kv')
  BY DEF StoreOK, Set

LEMMA StoreDelete ==
    ASSUME StoreOK(kv), NEW k, Delete(k)
    PROVE  StoreOK(kv')
  BY DEF StoreOK, Delete

LEMMA GetFacts ==
    ASSUME StoreOK(kv), NEW k
    PROVE  /\ Get(k) = <<>> <=> k \notin DOMAIN kv
           /\ k \in DOMAIN kv => Get(k) = <<kv[k]>> /\ Fits(k, kv[k])
           /\ Get(k) \in {<<>>, <<kv[k]>>}
  BY DEF Get, StoreOK

LEMMA OptFacts ==
    ASSUME NEW S, NEW x \in Opt(S), x # <<>>
    PROVE  x = <<x[1]>> /\ x[1] \in S /\ Len(x) = 1
  BY DEF Opt

(* The call at the head of the queue goes on as x, or ends. *)
Awaits(x) == queue' = Append(Tail(queue), x)
Ends == queue' = Tail(queue)

LEMMA HeadFacts ==
    ASSUME TypeInv, queue # <<>>
    PROVE  cur \in ToSet(queue) /\ CallOK(cur) /\ cur.req = req /\ req \in Requests \cup ListRequests
  <1>1. cur \in ToSet(queue)
    BY QueueTail DEF TypeInv, cur
  <1>2. CallOK(cur)
    BY <1>1 DEF TypeInv
  <1>3. cur.req \in Requests \cup ListRequests
    BY <1>2 DEF CallOK
  <1> QED BY <1>1, <1>2, <1>3 DEF req

LEMMA TypeTurn ==
    ASSUME TypeInv, queue # <<>>, Ends \/ \E x : Awaits(x) /\ CallOK(x) /\ x.by = cur.by,
           UNCHANGED <<calls, reader>>, StoreOK(kv'), LatestOK(latest'),
           acked' \subseteq {<<EventIndex(o, l), e>> : o \in Owners, l \in Links, e \in Events}
    PROVE  TypeInv'
  <1>1. Numbered(queue) /\ Len(queue) <= calls /\ calls \in 0 .. MaxCalls
    BY DEF TypeInv
  <1>2. Len(queue) \in Nat /\ calls \in Nat
    BY <1>1, CallsAssumption DEF Numbered
  <1>3. Numbered(queue') /\ Len(queue') <= calls /\ \A c \in ToSet(queue') : CallOK(c) /\ c.by <= calls
    <2>1. CASE Ends
      <3>1. /\ Numbered(queue') /\ ToSet(queue') \subseteq ToSet(queue) /\ Len(queue') = Len(queue) - 1
        BY <1>1, <2>1, QueueTail DEF Ends
      <3>2. Len(queue') <= calls
        BY <1>1, <1>2, <3>1
      <3> QED BY <3>1, <3>2 DEF TypeInv
    <2>2. ASSUME NEW x, Awaits(x), CallOK(x), x.by = cur.by
          PROVE  Numbered(queue') /\ Len(queue') <= calls /\ \A c \in ToSet(queue') : CallOK(c) /\ c.by <= calls
      <3>1. /\ Numbered(queue') /\ ToSet(queue') \subseteq ToSet(queue) \cup {x} /\ Len(queue') = Len(queue)
        BY <1>1, <2>2, QueueRotate DEF Awaits, cur
      <3>2. x.by <= calls
        BY <2>2, HeadFacts DEF TypeInv
      <3> QED BY <1>1, <2>2, <3>1, <3>2 DEF TypeInv
    <2> QED BY <2>1, <2>2
  <1>4. ReaderOK(reader')
    BY DEF TypeInv
  <1> QED BY <1>1, <1>3, <1>4 DEF TypeInv

(* A turn that leaves the store and the ghosts alone. *)
LEMMA TypeQuiet ==
    ASSUME TypeInv, queue # <<>>, Ends \/ \E x : Awaits(x) /\ CallOK(x) /\ x.by = cur.by,
           UNCHANGED <<kv, calls, reader>>, UNCHANGED ghosts
    PROVE  TypeInv'
  <1>1. StoreOK(kv') /\ LatestOK(latest') /\ acked' = acked
    BY DEF TypeInv, ghosts
  <1>2. acked' \subseteq {<<EventIndex(o, l), e>> : o \in Owners, l \in Links, e \in Events}
    BY <1>1 DEF TypeInv
  <1> QED BY <1>1, <1>2, TypeTurn

(* A turn that writes one key. *)
LEMMA TypeWrite ==
    ASSUME TypeInv, queue # <<>>, Ends \/ \E x : Awaits(x) /\ CallOK(x) /\ x.by = cur.by,
           UNCHANGED <<calls, reader>>, NEW k, NEW v, Fits(k, v), Set(k, v), UNCHANGED ghosts
    PROVE  TypeInv'
  <1>0. StoreOK(kv) /\ LatestOK(latest)
    BY DEF TypeInv
  <1>1. StoreOK(kv') /\ LatestOK(latest') /\ acked' = acked
    <2>1. StoreOK(kv')
      BY <1>0, StoreSet
    <2> QED BY <1>0, <2>1 DEF ghosts
  <1>2. acked' \subseteq {<<EventIndex(o, l), e>> : o \in Owners, l \in Links, e \in Events}
    BY <1>1 DEF TypeInv
  <1> QED BY <1>1, <1>2, TypeTurn

(* The call at the head of the queue at its next await. *)
Now(pc, seen) == [req |-> req, by |-> cur.by, pc |-> pc, seen |-> seen]

LEMMA AwaitFacts ==
    ASSUME TypeInv, queue # <<>>, NEW pc, NEW seen, Await(pc, seen)
    PROVE  Awaits(Now(pc, seen)) /\ Now(pc, seen).by = cur.by /\ UNCHANGED calls
  <1>1. cur = [req |-> cur.req, by |-> cur.by, pc |-> cur.pc, seen |-> cur.seen]
    BY HeadFacts DEF CallOK
  <1>2. [cur EXCEPT !.pc = pc, !.seen = seen] = [req |-> req, by |-> cur.by, pc |-> pc, seen |-> seen]
    <2>1. PICK c : c = cur
      OBVIOUS
    <2>2. PICK r, b, p, s : c = [req |-> r, by |-> b, pc |-> p, seen |-> s]
      BY <1>1, <2>1
    <2>3. [c EXCEPT !.pc = pc, !.seen = seen] = [req |-> r, by |-> b, pc |-> pc, seen |-> seen]
      <3>1. PICK d : d = [c EXCEPT !.pc = pc]
        OBVIOUS
      <3>2. d = [req |-> r, by |-> b, pc |-> pc, seen |-> s]
        BY <2>2, <3>1
      <3>3. [d EXCEPT !.seen = seen] = [req |-> r, by |-> b, pc |-> pc, seen |-> seen]
        BY <3>2
      <3>4. [c EXCEPT !.pc = pc, !.seen = seen] = [d EXCEPT !.seen = seen]
        BY <3>1
      <3> QED BY <3>3, <3>4
    <2>4. c.req = r /\ c.by = b
      BY <2>2
    <2> QED BY <2>1, <2>3, <2>4 DEF req
  <1> QED BY <1>2 DEF Await, Awaits, Now

LEMMA TypeEnd ==
    ASSUME TypeInv, NEW op, NEW pc, End(op, pc)
    PROVE  TypeInv'
  BY TypeQuiet DEF End, Resume, Return, Ends

LEMMA FitsFacts ==
    /\ \A o \in Owners, l \in Links : \A v \in LinkRecs : Fits(Link(o, l), v)
    /\ \A o \in Owners, p \in Peers : \A v \in Links : Fits(Pair(o, p), v)
    /\ \A o \in Owners, s \in Sessions : \A v \in SessionRecs : Fits(Session(o, s), v)
    /\ \A o \in Owners, l \in Links : \A v \in Sessions : Fits(SessionIndex(o, l), v)
    /\ \A o \in Owners, a \in Attempts : \A v \in SessionRecs : Fits(Attempt(o, a), v)
    /\ \A o \in Owners, e \in Events : \A v \in EventRecs : Fits(Event(o, e), v)
    /\ \A o \in Owners, l \in Links : \A v \in Seq(Events) : Fits(EventIndex(o, l), v)
    /\ \A k \in MaterialKeys : \A v : Fits(k, v)
  <1>1. \A k \in MaterialKeys : k[1] \in {"keys:identity", "keys:invite"}
    BY KeyFacts DEF MaterialKeys
  <1> QED BY <1>1, KeyFacts, RecordKeyFacts DEF Fits, StoreKeys

(* The types that a read of a key gives. *)
LEMMA GetTyped ==
    ASSUME StoreOK(kv)
    PROVE  /\ \A o, l : Get(Link(o, l)) \in Opt(LinkRecs)
           /\ \A o, p : Get(Pair(o, p)) \in Opt(Links)
           /\ \A o, s : Get(Session(o, s)) \in Opt(SessionRecs)
           /\ \A o, l : Get(SessionIndex(o, l)) \in Opt(Sessions)
           /\ \A o, a : Get(Attempt(o, a)) \in Opt(SessionRecs)
           /\ \A o, e : Get(Event(o, e)) \in Opt(EventRecs)
           /\ \A o, l : Get(EventIndex(o, l)) \in Opt(Seq(Events))
  <1>1. \A k : Get(k) = <<>> \/ (Get(k) = <<kv[k]>> /\ Fits(k, kv[k]))
    BY GetFacts
  <1> QED BY <1>1, KeyFacts DEF Fits, Opt

LEMMA VersionFacts ==
    /\ \A v \in Nat : NormalizeVersion(v) \in Nat \ {0}
    /\ \A v \in Nat \ {0} : v + 1 \in Nat \ {0}
  BY DEF NormalizeVersion

----------------------------------------------------------------------------
(* The turns, one by one.                                                  *)

LEMMA NowFacts ==
    ASSUME TypeInv, queue # <<>>, NEW pc, NEW seen
    PROVE  /\ Now(pc, seen).req = req /\ Now(pc, seen).by = cur.by
           /\ Now(pc, seen).pc = pc /\ Now(pc, seen).seen = seen
           /\ Now(pc, seen).by \in 1 .. MaxCalls /\ req \in Requests \cup ListRequests
           /\ Now(pc, seen) = [req |-> Now(pc, seen).req, by |-> Now(pc, seen).by,
                               pc |-> Now(pc, seen).pc, seen |-> Now(pc, seen).seen]
  BY HeadFacts DEF Now, CallOK

LEMMA DoCreateLinkRead ==
    ASSUME TypeInv, CreateLinkRead
    PROVE  /\ queue # <<>> /\ req.op = "createLink" /\ cur.pc = "read" /\ cur.seen = <<>>
           /\ Awaits(Now("pair", Get(Pair(req.owner, req.peer)))) /\ TypeInv'
           /\ UNCHANGED <<kv, calls, reader>> /\ UNCHANGED ghosts
  <1>1. /\ queue # <<>> /\ req.op = "createLink" /\ cur.pc = "read" /\ cur.seen = <<>>
        /\ UNCHANGED <<kv, ghosts, reader>>
    BY DEF CreateLinkRead, Resume
  <1>2. PICK x : x = Now("pair", Get(Pair(req.owner, req.peer)))
    OBVIOUS
  <1>3. Awaits(x) /\ x.by = cur.by /\ UNCHANGED calls
    BY <1>1, <1>2, AwaitFacts DEF CreateLinkRead
  <1>4. Get(Pair(req.owner, req.peer)) \in Opt(Links)
    BY GetTyped DEF TypeInv
  <1>5. CallOK(x)
    BY <1>1, <1>2, <1>4, NowFacts DEF CallOK
  <1>6. TypeInv'
    BY <1>1, <1>3, <1>5, TypeQuiet
  <1> QED BY <1>1, <1>2, <1>3, <1>6

LEMMA DoCreateLinkWrite ==
    ASSUME TypeInv, CreateLinkWrite
    PROVE  /\ queue # <<>> /\ req.op = "createLink" /\ cur.pc = "pair" /\ cur.seen \in {<<>>, <<req.link>>}
           /\ req.owner \in Owners /\ req.link \in Links /\ req.peer \in Peers
           /\ \E v \in LinkRecs : /\ Set(Link(req.owner, req.link), v)
                                  /\ v.peer = req.peer /\ v.by = cur.by /\ v.version >= 1
           /\ Awaits(Now("index", <<>>)) /\ TypeInv'
           /\ UNCHANGED <<calls, reader>> /\ UNCHANGED ghosts
  <1>1. /\ queue # <<>> /\ req.op = "createLink" /\ cur.pc = "pair" /\ cur.seen \in {<<>>, <<req.link>>}
        /\ UNCHANGED <<ghosts, reader>>
    BY DEF CreateLinkWrite, Resume, PairFree
  <1>2. PICK x, v : /\ x = Now("index", <<>>)
                    /\ v = [peer |-> req.peer, version |-> NormalizeVersion(req.version), by |-> cur.by]
    OBVIOUS
  <1>3. Awaits(x) /\ x.by = cur.by /\ UNCHANGED calls
    BY <1>1, <1>2, AwaitFacts DEF CreateLinkWrite
  <1>4. req.owner \in Owners /\ req.link \in Links /\ req.peer \in Peers /\ req.version \in Nat
        /\ cur.by \in 1 .. MaxCalls
    BY <1>1, HeadFacts, RequestFacts DEF CallOK
  <1>5. CallOK(x)
    BY <1>1, <1>2, NowFacts DEF CallOK
  <1>6. NormalizeVersion(req.version) \in Nat \ {0}
    BY <1>4, VersionFacts
  <1>7. v \in LinkRecs /\ v.peer = req.peer /\ v.by = cur.by /\ v.version \in Nat \ {0}
    BY <1>2, <1>4, <1>6 DEF LinkRecs
  <1>8. Set(Link(req.owner, req.link), v)
    BY <1>2 DEF CreateLinkWrite, LinkRecord
  <1>9. Fits(Link(req.owner, req.link), v)
    BY <1>4, <1>7, FitsFacts
  <1>10. TypeInv'
    BY <1>1, <1>3, <1>5, <1>8, <1>9, TypeWrite
  <1>11. v.version >= 1
    BY <1>7
  <1> QED BY <1>1, <1>2, <1>3, <1>4, <1>7, <1>8, <1>10, <1>11

LEMMA MatchesFacts ==
    ASSUME NEW S, cur.seen \in Opt(S), MatchesVersion(cur.seen)
    PROVE  cur.seen = <<cur.seen[1]>> /\ cur.seen[1] \in S
  BY OptFacts DEF MatchesVersion

LEMMA DoUpdateLinkWrite ==
    ASSUME TypeInv, UpdateLinkWrite
    PROVE  /\ queue # <<>> /\ req.op = "updateLink" /\ cur.pc = "read"
           /\ req.owner \in Owners /\ req.link \in Links /\ req.peer \in Peers
           /\ \E v \in LinkRecs, r \in LinkRecs :
                 /\ Set(Link(req.owner, req.link), v)
                 /\ cur.seen = <<r>> /\ r.peer = req.peer
                 /\ v.peer = req.peer /\ v.by = cur.by /\ v.version = r.version + 1
           /\ Awaits(Now("index", <<>>)) /\ TypeInv'
           /\ UNCHANGED <<calls, reader>> /\ UNCHANGED ghosts
  <1>1. /\ queue # <<>> /\ req.op = "updateLink" /\ cur.pc = "read" /\ MatchesVersion(cur.seen)
        /\ cur.seen[1].peer = req.peer /\ UNCHANGED <<ghosts, reader>>
    BY DEF UpdateLinkWrite, Resume, SamePair
  <1>2. cur.seen \in Opt(LinkRecs) /\ cur.by \in 1 .. MaxCalls
    BY <1>1, HeadFacts DEF CallOK
  <1>3. PICK r \in LinkRecs : cur.seen = <<r>> /\ cur.seen[1] = r /\ r.version \in Nat \ {0}
    BY <1>1, <1>2, MatchesFacts DEF LinkRecs
  <1>4. PICK x, v : /\ x = Now("index", <<>>)
                    /\ v = [peer |-> req.peer, version |-> r.version + 1, by |-> cur.by]
    OBVIOUS
  <1>5. Awaits(x) /\ x.by = cur.by /\ UNCHANGED calls
    BY <1>1, <1>4, AwaitFacts DEF UpdateLinkWrite
  <1>6. req.owner \in Owners /\ req.link \in Links /\ req.peer \in Peers
    BY <1>1, HeadFacts, RequestFacts
  <1>7. CallOK(x)
    BY <1>1, <1>4, NowFacts DEF CallOK
  <1>8. r.version + 1 \in Nat \ {0}
    BY <1>3, VersionFacts
  <1>9. v \in LinkRecs /\ v.peer = req.peer /\ v.by = cur.by /\ v.version = r.version + 1
    BY <1>2, <1>4, <1>6, <1>8 DEF LinkRecs
  <1>10. Set(Link(req.owner, req.link), v)
    BY <1>3, <1>4 DEF UpdateLinkWrite, LinkRecord
  <1>11. Fits(Link(req.owner, req.link), v)
    BY <1>6, <1>9, FitsFacts
  <1>12. TypeInv'
    BY <1>1, <1>5, <1>7, <1>10, <1>11, TypeWrite
  <1>13. \E v1 \in LinkRecs, r1 \in LinkRecs :
                 /\ Set(Link(req.owner, req.link), v1)
                 /\ cur.seen = <<r1>> /\ r1.peer = req.peer
                 /\ v1.peer = req.peer /\ v1.by = cur.by /\ v1.version = r1.version + 1
    BY <1>1, <1>3, <1>9, <1>10
  <1> QED BY <1>1, <1>4, <1>5, <1>6, <1>12, <1>13

LEMMA DoLinkIndexWrite ==
    ASSUME TypeInv, LinkIndexWrite
    PROVE  /\ queue # <<>> /\ req.op \in {"createLink", "updateLink"} /\ cur.pc = "index"
           /\ req.owner \in Owners /\ req.link \in Links /\ req.peer \in Peers
           /\ Set(Pair(req.owner, req.peer), req.link)
           /\ Ends /\ TypeInv' /\ UNCHANGED <<calls, reader>> /\ UNCHANGED ghosts
  <1>1. /\ queue # <<>> /\ req.op \in {"createLink", "updateLink"} /\ cur.pc = "index"
        /\ Set(Pair(req.owner, req.peer), req.link) /\ Ends
        /\ UNCHANGED <<calls, ghosts, reader>>
    BY DEF LinkIndexWrite, Resume, Return, Ends
  <1>2. req.owner \in Owners /\ req.link \in Links /\ req.peer \in Peers
    BY <1>1, HeadFacts, RequestFacts
  <1>3. TypeInv'
    BY <1>1, <1>2, FitsFacts, TypeWrite
  <1> QED BY <1>1, <1>2, <1>3

LEMMA DoEnd ==
    ASSUME TypeInv, LinkRejected \/ SessionEnded \/ AttemptRejected \/ AppendRejected \/ ListReturn
    PROVE  /\ queue # <<>> /\ Ends /\ TypeInv' /\ UNCHANGED <<kv, calls, reader>> /\ UNCHANGED ghosts
           /\ LinkRejected => req.op \in {"createLink", "updateLink"} /\ cur.pc # "index"
           /\ SessionEnded => req.op = "deleteSession"
           /\ AttemptRejected => req.op \in {"createAttempt", "updateAttempt"}
           /\ AppendRejected => req.op = "append" /\ cur.pc = "read" /\ cur.seen # <<>>
           /\ ListReturn => req.op = "list"
  <1>1. \E op, pc : End(op, pc)
    BY DEF LinkRejected, SessionEnded, AttemptRejected, AppendRejected, ListReturn
  <1>2. TypeInv'
    BY <1>1, TypeEnd
  <1>3. queue # <<>> /\ Ends /\ UNCHANGED <<kv, calls, reader>> /\ UNCHANGED ghosts
    BY <1>1 DEF End, Resume, Return, Ends
  <1> QED BY <1>2, <1>3 DEF LinkRejected, SessionEnded, AttemptRejected, AppendRejected, ListReturn, End, Resume

(* The record v replaces what the call at the head of the queue has read. *)
Follows(v) ==
    /\ v.by = cur.by
    /\ cur.seen = <<>> => v.version >= 1
    /\ \A r : cur.seen = <<r>> => v.version = r.version + 1

LEMMA FollowsFacts ==
    ASSUME cur.seen \in Opt(SessionRecs), NEW v, v.by = cur.by,
           \/ cur.seen = <<>> /\ v.version \in Nat \ {0}
           \/ cur.seen # <<>> /\ v.version = cur.seen[1].version + 1
    PROVE  Follows(v)
  <1>1. cur.seen = <<>> => v.version >= 1
    OBVIOUS
  <1>2. ASSUME NEW r, cur.seen = <<r>> PROVE v.version = r.version + 1
    <2>1. cur.seen # <<>> /\ cur.seen[1] = r
      BY <1>2
    <2> QED BY <2>1
  <1> QED BY <1>1, <1>2 DEF Follows

LEMMA DoPutSessionWrite ==
    ASSUME TypeInv, PutSessionWrite
    PROVE  /\ queue # <<>> /\ req.op = "putSession" /\ cur.pc = "read"
           /\ req.owner \in Owners /\ req.session \in Sessions /\ req.link \in Links
           /\ \E v \in SessionRecs : Set(Session(req.owner, req.session), v) /\ Follows(v)
           /\ Awaits(Now("index", <<>>)) /\ TypeInv'
           /\ UNCHANGED <<calls, reader>> /\ UNCHANGED ghosts
  <1>1. /\ queue # <<>> /\ req.op = "putSession" /\ cur.pc = "read" /\ UNCHANGED <<ghosts, reader>>
    BY DEF PutSessionWrite, Resume
  <1>2. cur.seen \in Opt(SessionRecs) /\ cur.by \in 1 .. MaxCalls
    BY <1>1, HeadFacts DEF CallOK
  <1>3. PICK x, v : /\ x = Now("index", <<>>)
                    /\ v = [link |-> req.link, status |-> req.status,
                            version |-> SessionVersion, by |-> cur.by]
    OBVIOUS
  <1>4. Awaits(x) /\ x.by = cur.by /\ UNCHANGED calls
    BY <1>1, <1>3, AwaitFacts DEF PutSessionWrite
  <1>5. /\ req.owner \in Owners /\ req.session \in Sessions /\ req.link \in Links
        /\ req.status \in Statuses /\ req.version \in Nat
    BY <1>1, HeadFacts, RequestFacts
  <1>6. CallOK(x)
    BY <1>1, <1>3, NowFacts DEF CallOK
  <1>7. /\ SessionVersion \in Nat \ {0}
        /\ cur.seen # <<>> => SessionVersion = cur.seen[1].version + 1
    <2>1. CASE cur.seen = <<>>
      BY <1>5, <2>1, VersionFacts DEF SessionVersion
    <2>2. CASE cur.seen # <<>>
      <3>1. cur.seen[1] \in SessionRecs
        BY <1>2, <2>2, OptFacts
      <3>2. cur.seen[1].version \in Nat \ {0}
        BY <3>1 DEF SessionRecs
      <3> QED BY <2>2, <3>2, VersionFacts DEF SessionVersion
    <2> QED BY <2>1, <2>2
  <1>8. v \in SessionRecs /\ v.by = cur.by /\ v.version = SessionVersion
    BY <1>2, <1>3, <1>5, <1>7 DEF SessionRecs
  <1>9. Follows(v)
    BY <1>2, <1>7, <1>8, FollowsFacts
  <1>10. Set(Session(req.owner, req.session), v)
    BY <1>3 DEF PutSessionWrite
  <1>11. TypeInv'
    BY <1>1, <1>4, <1>5, <1>6, <1>8, <1>10, FitsFacts, TypeWrite
  <1> QED BY <1>1, <1>3, <1>4, <1>5, <1>8, <1>9, <1>10, <1>11

LEMMA LatestKept ==
    ASSUME LatestOK(latest)
    PROVE  /\ LatestOK([j \in LatestOthers |-> latest[j]])
           /\ \A i \in IndexKeys, s \in Sessions :
                 LatestOK([j \in LatestOthers \cup {i} |-> IF j = i THEN s ELSE latest[j]])
  BY DEF LatestOK, LatestOthers

LEMMA DoPutSessionIndex ==
    ASSUME TypeInv, PutSessionIndex
    PROVE  LET i == SessionIndex(req.owner, req.link) IN
           /\ queue # <<>> /\ req.op = "putSession" /\ cur.pc = "index"
           /\ req.owner \in Owners /\ req.session \in Sessions /\ req.link \in Links
           /\ Set(i, req.session)
           /\ latest' = [j \in LatestOthers \cup {i} |-> IF j = i THEN req.session ELSE latest[j]]
           /\ moved' = IF IndexedElsewhere(req.owner, req.session, i)
                       THEN moved \cup {Session(req.owner, req.session)} ELSE moved
           /\ Ends /\ TypeInv' /\ UNCHANGED <<calls, reader, raced, acked>>
  <1>1. PICK i : i = SessionIndex(req.owner, req.link)
    OBVIOUS
  <1>2. /\ queue # <<>> /\ req.op = "putSession" /\ cur.pc = "index" /\ Set(i, req.session)
        /\ latest' = [j \in LatestOthers \cup {i} |-> IF j = i THEN req.session ELSE latest[j]]
        /\ moved' = IF IndexedElsewhere(req.owner, req.session, i)
                    THEN moved \cup {Session(req.owner, req.session)} ELSE moved
        /\ Ends /\ UNCHANGED <<calls, reader, raced, acked>>
    BY <1>1 DEF PutSessionIndex, Resume, Return, Ends
  <1>3. req.owner \in Owners /\ req.session \in Sessions /\ req.link \in Links
    BY <1>2, HeadFacts, RequestFacts
  <1>4. i \in IndexKeys /\ Fits(i, req.session)
    BY <1>1, <1>3, FitsFacts DEF IndexKeys
  <1>5. StoreOK(kv')
    BY <1>2, <1>4, StoreSet DEF TypeInv
  <1>6. LatestOK(latest')
    BY <1>2, <1>3, <1>4, LatestKept DEF TypeInv
  <1>7. acked' \subseteq {<<EventIndex(o, l), e>> : o \in Owners, l \in Links, e \in Events}
    BY <1>2 DEF TypeInv
  <1>8. TypeInv'
    BY <1>2, <1>5, <1>6, <1>7, TypeTurn
  <1> QED BY <1>1, <1>2, <1>3, <1>8

LEMMA DoDeleteSessionRecord ==
    ASSUME TypeInv, DeleteSessionRecord
    PROVE  /\ queue # <<>> /\ req.op = "deleteSession" /\ cur.pc = "read"
           /\ req.owner \in Owners /\ req.session \in Sessions /\ cur.seen \in Opt(SessionRecs)
           /\ Delete(Session(req.owner, req.session))
           /\ Session(req.owner, req.session) \in DOMAIN kv
           /\ latest' = [j \in LatestOthers |-> latest[j]]
           /\ \/ cur.seen = <<>> /\ Ends
              \/ cur.seen # <<>> /\ Awaits(Now("deleted", cur.seen))
           /\ TypeInv' /\ UNCHANGED <<calls, reader, raced, moved, acked>>
  <1>1. /\ queue # <<>> /\ req.op = "deleteSession" /\ cur.pc = "read"
        /\ Delete(Session(req.owner, req.session))
        /\ Session(req.owner, req.session) \in DOMAIN kv
        /\ latest' = [j \in LatestOthers |-> latest[j]]
        /\ UNCHANGED <<reader, raced, moved, acked>>
    BY DEF DeleteSessionRecord, Resume
  <1>2. cur.seen \in Opt(SessionRecs)
    BY <1>1, HeadFacts DEF CallOK
  <1>3. req.owner \in Owners /\ req.session \in Sessions
    BY <1>1, HeadFacts, RequestFacts
  <1>4. /\ \/ cur.seen = <<>> /\ Ends
           \/ cur.seen # <<>> /\ Awaits(Now("deleted", cur.seen))
        /\ UNCHANGED calls
    <2>1. CASE cur.seen = <<>>
      BY <2>1 DEF DeleteSessionRecord, Return, Ends
    <2>2. CASE cur.seen # <<>>
      <3>1. Await("deleted", cur.seen)
        BY <2>2 DEF DeleteSessionRecord
      <3> QED BY <1>1, <2>2, <3>1, AwaitFacts
    <2> QED BY <2>1, <2>2
  <1>5. cur.seen # <<>> => CallOK(Now("deleted", cur.seen))
    <2>1. cur.seen # <<>> => \E r \in SessionRecs : cur.seen = <<r>>
      BY <1>2, OptFacts
    <2> QED BY <1>1, <2>1, NowFacts DEF CallOK
  <1>6. StoreOK(kv') /\ LatestOK(latest')
    BY <1>1, StoreDelete, LatestKept DEF TypeInv
  <1>7. acked' \subseteq {<<EventIndex(o, l), e>> : o \in Owners, l \in Links, e \in Events}
    BY <1>1 DEF TypeInv
  <1>8. cur.seen # <<>> => Now("deleted", cur.seen).by = cur.by
    BY <1>1, NowFacts
  <1>9. TypeInv'
    BY <1>1, <1>4, <1>5, <1>6, <1>7, <1>8, TypeTurn
  <1> QED BY <1>1, <1>2, <1>3, <1>4, <1>9

LEMMA ConcatTwo == ASSUME NEW a, NEW b PROVE <<a>> \o <<b>> = <<a, b>>
  <1>1. PICK S, p, q, r : S = {a, b} /\ p = <<a>> /\ q = <<b>> /\ r = <<a, b>>
    OBVIOUS
  <1>2. p \in Seq(S) /\ q \in Seq(S) /\ r \in Seq(S)
    BY <1>1
  <1>3. Len(p) = 1 /\ Len(q) = 1 /\ Len(r) = 2 /\ p[1] = a /\ q[1] = b /\ r[1] = a /\ r[2] = b
    BY <1>1
  <1>4. PICK s : s = p \o q
    OBVIOUS
  <1>5. s \in Seq(S) /\ Len(s) = 2 /\ s[1] = a /\ s[2] = b
    <2>1. /\ s \in Seq(S) /\ Len(s) = Len(p) + Len(q)
          /\ \A i \in 1 .. Len(p) + Len(q) : s[i] = IF i <= Len(p) THEN p[i] ELSE q[i - Len(p)]
      BY <1>2, <1>4, ConcatProperties
    <2>2. \A i \in 1 .. 2 : s[i] = IF i <= 1 THEN p[i] ELSE q[i - 1]
      BY <1>3, <2>1
    <2>3. 1 \in 1 .. 2 /\ 2 \in 1 .. 2 /\ 1 <= 1 /\ ~(2 <= 1) /\ 2 - 1 = 1
      OBVIOUS
    <2>4. s[1] = p[1] /\ s[2] = q[2 - 1]
      BY <2>2, <2>3
    <2> QED BY <1>3, <2>1, <2>3, <2>4
  <1>6. \A i \in 1 .. 2 : s[i] = r[i]
    <2>1. \A i \in 1 .. 2 : i = 1 \/ i = 2
      OBVIOUS
    <2> QED BY <1>3, <1>5, <2>1
  <1>7. s = r
    BY <1>2, <1>3, <1>5, <1>6, SeqEqual
  <1> QED BY <1>1, <1>4, <1>7

LEMMA DoDeleteSessionReadIndex ==
    ASSUME TypeInv, DeleteSessionReadIndex
    PROVE  /\ queue # <<>> /\ req.op = "deleteSession" /\ cur.pc = "deleted" /\ req.owner \in Owners
           /\ \E r \in SessionRecs :
                 /\ cur.seen = <<r>>
                 /\ Awaits(Now("index", <<r.link>> \o Get(SessionIndex(req.owner, r.link))))
           /\ TypeInv' /\ UNCHANGED <<kv, calls, reader>> /\ UNCHANGED ghosts
  <1>1. /\ queue # <<>> /\ req.op = "deleteSession" /\ cur.pc = "deleted"
        /\ UNCHANGED <<kv, ghosts, reader>>
    BY DEF DeleteSessionReadIndex, Resume
  <1>2. PICK r \in SessionRecs : cur.seen = <<r>>
    BY <1>1, HeadFacts DEF CallOK
  <1>3. req.owner \in Owners /\ r.link \in Links /\ cur.seen[1] = r
    BY <1>1, <1>2, HeadFacts, RequestFacts DEF SessionRecs
  <1>4. PICK y, w, x : /\ y = Get(SessionIndex(req.owner, r.link)) /\ w = <<r.link>> \o y
                       /\ x = Now("index", w)
    OBVIOUS
  <1>5. Awaits(x) /\ x.by = cur.by /\ UNCHANGED calls
    BY <1>1, <1>3, <1>4, AwaitFacts DEF DeleteSessionReadIndex
  <1>6. y \in Opt(Sessions)
    BY <1>4, GetTyped DEF TypeInv
  <1>7. CallOK(x)
    <2>1. \E l \in Links : \E z \in Opt(Sessions) : w = <<l>> \o z
      BY <1>3, <1>4, <1>6
    <2>2. /\ x.req = req /\ x.by \in 1 .. MaxCalls /\ x.pc = "index" /\ x.seen = w
          /\ req \in Requests \cup ListRequests
          /\ x = [req |-> x.req, by |-> x.by, pc |-> x.pc, seen |-> x.seen]
      <3>1. x = Now("index", w)
        BY <1>4
      <3> QED BY <1>1, <3>1, NowFacts
    <2> QED BY <1>1, <2>1, <2>2 DEF CallOK
  <1>8. TypeInv'
    BY <1>1, <1>5, <1>7, TypeQuiet
  <1> QED BY <1>1, <1>2, <1>3, <1>4, <1>5, <1>8

LEMMA DoDeleteSessionIndex ==
    ASSUME TypeInv, DeleteSessionIndex
    PROVE  /\ queue # <<>> /\ req.op = "deleteSession" /\ cur.pc = "index" /\ req.owner \in Owners
           /\ \E l \in Links : /\ cur.seen = <<l, req.session>>
                               /\ Delete(SessionIndex(req.owner, l))
           /\ Ends /\ TypeInv' /\ UNCHANGED <<calls, reader>> /\ UNCHANGED ghosts
  <1>1. /\ queue # <<>> /\ req.op = "deleteSession" /\ cur.pc = "index"
        /\ Len(cur.seen) = 2 /\ cur.seen[2] = req.session
        /\ Delete(SessionIndex(req.owner, cur.seen[1])) /\ Ends
        /\ UNCHANGED <<calls, ghosts, reader>>
    BY DEF DeleteSessionIndex, Resume, IndexNamesSession, Return, Ends
  <1>2. PICK l \in Links, y \in Opt(Sessions) : cur.seen = <<l>> \o y
    BY <1>1, HeadFacts DEF CallOK
  <1>3. cur.seen = <<l, req.session>> /\ cur.seen[1] = l
    <2>1. y # <<>>
      <3>1. y = <<>> => Len(<<l>> \o y) = 1
        OBVIOUS
      <3> QED BY <1>1, <1>2, <3>1
    <2>2. PICK s : y = <<s>>
      BY <1>2, <2>1, OptFacts
    <2>3. cur.seen = <<l, s>>
      BY <1>2, <2>2, ConcatTwo
    <2> QED BY <1>1, <2>3
  <1>4. req.owner \in Owners
    BY <1>1, HeadFacts, RequestFacts
  <1>5. StoreOK(kv') /\ LatestOK(latest') /\ acked' = acked
    BY <1>1, StoreDelete DEF TypeInv, ghosts
  <1>6. acked' \subseteq {<<EventIndex(o, k), e>> : o \in Owners, k \in Links, e \in Events}
    BY <1>5 DEF TypeInv
  <1>7. TypeInv'
    BY <1>1, <1>5, <1>6, TypeTurn
  <1> QED BY <1>1, <1>3, <1>4, <1>7

LEMMA DoAttempt ==
    ASSUME TypeInv, CreateAttempt \/ UpdateAttempt
    PROVE  /\ queue # <<>> /\ req.op \in {"createAttempt", "updateAttempt"} /\ cur.pc = "read"
           /\ req.owner \in Owners /\ req.attempt \in Attempts
           /\ \E v \in SessionRecs : Set(Attempt(req.owner, req.attempt), v) /\ Follows(v)
           /\ Ends /\ TypeInv' /\ UNCHANGED <<calls, reader>> /\ UNCHANGED ghosts
  <1>1. /\ queue # <<>> /\ req.op \in {"createAttempt", "updateAttempt"} /\ cur.pc = "read"
        /\ Ends /\ UNCHANGED <<calls, ghosts, reader>>
    BY DEF CreateAttempt, UpdateAttempt, Resume, AttemptWrite, Return, Ends
  <1>2. cur.seen \in Opt(SessionRecs) /\ cur.by \in 1 .. MaxCalls
    BY <1>1, HeadFacts DEF CallOK
  <1>3. req.owner \in Owners /\ req.attempt \in Attempts /\ req.link \in Links /\ req.status \in Statuses
    BY <1>1, HeadFacts, RequestFacts
  <1>4. PICK n \in Nat \ {0} :
           /\ Set(Attempt(req.owner, req.attempt),
                  [link |-> req.link, status |-> req.status, version |-> n, by |-> cur.by])
           /\ \/ cur.seen = <<>>
              \/ cur.seen # <<>> /\ n = cur.seen[1].version + 1
    <2>1. CASE CreateAttempt
      <3>1. req.op = "createAttempt" /\ cur.seen = <<>>
        BY <2>1 DEF CreateAttempt, Resume
      <3>2. NormalizeVersion(req.version) \in Nat \ {0}
        BY <1>1, <3>1, HeadFacts, RequestFacts, VersionFacts
      <3> QED BY <2>1, <3>1, <3>2 DEF CreateAttempt, AttemptWrite
    <2>2. CASE UpdateAttempt
      <3>1. MatchesVersion(cur.seen)
        BY <2>2 DEF UpdateAttempt
      <3>2. cur.seen # <<>> /\ cur.seen[1] \in SessionRecs
        BY <1>2, <3>1, MatchesFacts DEF MatchesVersion
      <3>3. cur.seen[1].version + 1 \in Nat \ {0}
        BY <3>2, VersionFacts DEF SessionRecs
      <3> QED BY <2>2, <3>2, <3>3 DEF UpdateAttempt, AttemptWrite
    <2> QED BY <2>1, <2>2
  <1>5. PICK v : v = [link |-> req.link, status |-> req.status, version |-> n, by |-> cur.by]
    OBVIOUS
  <1>6. v \in SessionRecs /\ v.by = cur.by /\ v.version = n
    BY <1>2, <1>3, <1>5 DEF SessionRecs
  <1>7. Follows(v) /\ Set(Attempt(req.owner, req.attempt), v)
    BY <1>2, <1>4, <1>5, <1>6, FollowsFacts
  <1>8. TypeInv'
    BY <1>1, <1>3, <1>6, <1>7, FitsFacts, TypeWrite
  <1> QED BY <1>1, <1>3, <1>6, <1>7, <1>8

LEMMA DoAppendWrite ==
    ASSUME TypeInv, AppendWrite
    PROVE  /\ queue # <<>> /\ req.op = "append" /\ cur.pc = "read" /\ cur.seen = <<>>
           /\ req.owner \in Owners /\ req.event \in Events /\ req.link \in Links
           /\ Set(Event(req.owner, req.event), [link |-> req.link])
           /\ Awaits(Now("written", <<>>)) /\ TypeInv'
           /\ UNCHANGED <<calls, reader>> /\ UNCHANGED ghosts
  <1>1. /\ queue # <<>> /\ req.op = "append" /\ cur.pc = "read" /\ cur.seen = <<>>
        /\ Set(Event(req.owner, req.event), [link |-> req.link])
        /\ UNCHANGED <<ghosts, reader>>
    BY DEF AppendWrite, Resume
  <1>2. PICK x, v : x = Now("written", <<>>) /\ v = [link |-> req.link]
    OBVIOUS
  <1>3. Awaits(x) /\ x.by = cur.by /\ UNCHANGED calls
    BY <1>1, <1>2, AwaitFacts DEF AppendWrite
  <1>4. req.owner \in Owners /\ req.event \in Events /\ req.link \in Links
    BY <1>1, HeadFacts, RequestFacts
  <1>5. CallOK(x)
    BY <1>1, <1>2, NowFacts DEF CallOK
  <1>6. v \in EventRecs
    BY <1>2, <1>4 DEF EventRecs
  <1>7. Fits(Event(req.owner, req.event), v)
    BY <1>4, <1>6, FitsFacts
  <1>8. TypeInv'
    BY <1>1, <1>2, <1>3, <1>5, <1>7, TypeWrite
  <1> QED BY <1>1, <1>2, <1>3, <1>4, <1>8

LEMMA DoAppendReadIndex ==
    ASSUME TypeInv, AppendReadIndex
    PROVE  /\ queue # <<>> /\ req.op = "append" /\ cur.pc = "written"
           /\ req.owner \in Owners /\ req.event \in Events /\ req.link \in Links
           /\ Awaits(Now("index", Get(EventIndex(req.owner, req.link)))) /\ TypeInv'
           /\ UNCHANGED <<kv, calls, reader>> /\ UNCHANGED ghosts
  <1>1. /\ queue # <<>> /\ req.op = "append" /\ cur.pc = "written" /\ UNCHANGED <<kv, ghosts, reader>>
    BY DEF AppendReadIndex, Resume
  <1>2. PICK x : x = Now("index", Get(EventIndex(req.owner, req.link)))
    OBVIOUS
  <1>3. Awaits(x) /\ x.by = cur.by /\ UNCHANGED calls
    BY <1>1, <1>2, AwaitFacts DEF AppendReadIndex
  <1>4. req.owner \in Owners /\ req.event \in Events /\ req.link \in Links
    BY <1>1, HeadFacts, RequestFacts
  <1>5. Get(EventIndex(req.owner, req.link)) \in Opt(Seq(Events))
    BY GetTyped DEF TypeInv
  <1>6. CallOK(x)
    BY <1>1, <1>2, <1>5, NowFacts DEF CallOK
  <1>7. TypeInv'
    BY <1>1, <1>3, <1>6, TypeQuiet
  <1> QED BY <1>1, <1>2, <1>3, <1>4, <1>7

LEMMA AckedTyped ==
    ASSUME TypeInv, Acked, req.owner \in Owners, req.event \in Events, req.link \in Links
    PROVE  acked' \subseteq {<<EventIndex(o, l), e>> : o \in Owners, l \in Links, e \in Events}
  BY DEF TypeInv, Acked

LEMMA DoAppendIndex ==
    ASSUME TypeInv, AppendIndex
    PROVE  /\ queue # <<>> /\ req.op = "append" /\ cur.pc = "index"
           /\ req.owner \in Owners /\ req.event \in Events /\ req.link \in Links
           /\ cur.seen \in Opt(Seq(Events))
           /\ \E ids \in Seq(Events) :
                 /\ ids = IF cur.seen = <<>> THEN <<>> ELSE cur.seen[1]
                 /\ Set(EventIndex(req.owner, req.link), Append(ids, req.event))
           /\ acked' = acked \cup {<<EventIndex(req.owner, req.link), req.event>>}
           /\ Ends /\ TypeInv' /\ UNCHANGED <<calls, reader, raced, latest, moved>>
  <1>1. PICK ids : ids = IF cur.seen = <<>> THEN <<>> ELSE cur.seen[1]
    OBVIOUS
  <1>2. /\ queue # <<>> /\ req.op = "append" /\ cur.pc = "index" /\ Acked
        /\ Set(EventIndex(req.owner, req.link), Append(ids, req.event))
        /\ Ends /\ UNCHANGED <<calls, reader, raced, latest, moved>>
    BY <1>1 DEF AppendIndex, Resume, Push, Return, Ends
  <1>3. req.owner \in Owners /\ req.event \in Events /\ req.link \in Links
    BY <1>2, HeadFacts, RequestFacts
  <1>4. cur.seen \in Opt(Seq(Events))
    BY <1>2, HeadFacts DEF CallOK
  <1>5. ids \in Seq(Events)
    BY <1>1, <1>4, OptFacts
  <1>6. Fits(EventIndex(req.owner, req.link), Append(ids, req.event))
    <2>1. Append(ids, req.event) \in Seq(Events)
      BY <1>3, <1>5
    <2> QED BY <1>3, <2>1, FitsFacts
  <1>7. StoreOK(kv') /\ LatestOK(latest')
    BY <1>2, <1>6, StoreSet DEF TypeInv
  <1>8. TypeInv'
    BY <1>2, <1>3, <1>7, AckedTyped, TypeTurn
  <1> QED BY <1>1, <1>2, <1>3, <1>4, <1>5, <1>8 DEF Acked

LEMMA DoAppendRepeated ==
    ASSUME TypeInv, AppendRepeated
    PROVE  /\ queue # <<>> /\ req.op = "append" /\ cur.pc = "read"
           /\ req.owner \in Owners /\ req.event \in Events /\ req.link \in Links
           /\ cur.seen # <<>> /\ cur.seen[1].link = req.link
           /\ acked' = acked \cup {<<EventIndex(req.owner, req.link), req.event>>}
           /\ Ends /\ TypeInv' /\ UNCHANGED <<kv, calls, reader, raced, latest, moved>>
  <1>1. /\ queue # <<>> /\ req.op = "append" /\ cur.pc = "read" /\ Acked
        /\ cur.seen # <<>> /\ cur.seen[1].link = req.link
        /\ Ends /\ UNCHANGED <<kv, calls, reader, raced, latest, moved>>
    BY DEF AppendRepeated, Resume, IsRepeat, Return, Ends
  <1>2. req.owner \in Owners /\ req.event \in Events /\ req.link \in Links
    BY <1>1, HeadFacts, RequestFacts
  <1>3. StoreOK(kv') /\ LatestOK(latest')
    BY <1>1 DEF TypeInv
  <1>4. TypeInv'
    BY <1>1, <1>2, <1>3, AckedTyped, TypeTurn
  <1> QED BY <1>1, <1>2, <1>4 DEF Acked

LEMMA DoListRecord ==
    ASSUME TypeInv, ListRecord
    PROVE  /\ queue # <<>> /\ req.op = "list" /\ cur.pc = "list"
           /\ \E k \in cur.seen.todo :
                 Awaits(Now("list", [todo |-> cur.seen.todo \ {k},
                                     out |-> cur.seen.out \cup (IF Listed(req, k) THEN {<<k, kv[k]>>} ELSE {}),
                                     began |-> cur.seen.began]))
           /\ TypeInv' /\ UNCHANGED <<kv, calls, reader>> /\ UNCHANGED ghosts
  <1>1. /\ queue # <<>> /\ req.op = "list" /\ cur.pc = "list" /\ UNCHANGED <<kv, ghosts, reader>>
    BY DEF ListRecord, Resume
  <1>2. PICK k \in cur.seen.todo : Await("list", ListedAfter(k))
    BY DEF ListRecord
  <1>3. PICK s : s = cur.seen
    OBVIOUS
  <1>4. PICK t, o, b : s = [todo |-> t, out |-> o, began |-> b]
    BY <1>1, <1>3, HeadFacts DEF CallOK
  <1>5. PICK a : a = IF Listed(req, k) THEN {<<k, kv[k]>>} ELSE {}
    OBVIOUS
  <1>6. ListedAfter(k) = [todo |-> t \ {k}, out |-> o \cup a, began |-> b]
    <2>1. PICK d : d = [s EXCEPT !.todo = t \ {k}]
      OBVIOUS
    <2>2. d = [todo |-> t \ {k}, out |-> o, began |-> b]
      BY <1>4, <2>1
    <2>3. [d EXCEPT !.out = o \cup a] = [todo |-> t \ {k}, out |-> o \cup a, began |-> b]
      <3>1. PICK u, w : u = t \ {k} /\ w = o \cup a
        OBVIOUS
      <3>2. d = [todo |-> u, out |-> o, began |-> b]
        BY <2>2, <3>1
      <3>3. [d EXCEPT !.out = w] = [todo |-> u, out |-> w, began |-> b]
        BY <3>2
      <3> QED BY <3>1, <3>3
    <2>4. s.todo = t /\ s.out = o
      BY <1>4
    <2>5. ListedAfter(k) = [s EXCEPT !.todo = s.todo \ {k}, !.out = s.out \cup a]
      BY <1>3, <1>5 DEF ListedAfter
    <2>6. ListedAfter(k) = [d EXCEPT !.out = o \cup a]
      BY <2>1, <2>4, <2>5
    <2> QED BY <2>3, <2>6
  <1>7. PICK z : z = [todo |-> t \ {k}, out |-> o \cup a, began |-> b]
    OBVIOUS
  <1>8. Awaits(Now("list", z)) /\ Now("list", z).by = cur.by /\ UNCHANGED calls
    BY <1>1, <1>2, <1>6, <1>7, AwaitFacts
  <1>9. z = [todo |-> z.todo, out |-> z.out, began |-> z.began]
    BY <1>7
  <1>10. CallOK(Now("list", z))
    BY <1>1, <1>9, NowFacts DEF CallOK
  <1>11. TypeInv'
    BY <1>1, <1>8, <1>10, TypeQuiet
  <1>12. z = [todo |-> cur.seen.todo \ {k},
              out |-> cur.seen.out \cup (IF Listed(req, k) THEN {<<k, kv[k]>>} ELSE {}),
              began |-> cur.seen.began]
    BY <1>3, <1>4, <1>5, <1>7
  <1> QED BY <1>1, <1>2, <1>8, <1>11, <1>12

----------------------------------------------------------------------------
(* Calls that start, pages and key material.                               *)

Less == {x \in Nat \X Nat : x[1] < x[2]}

LEMMA Least ==
    ASSUME NEW S \in SUBSET Nat, S # {}
    PROVE  \E m \in S : \A x \in S : m <= x
  <1>1. OpToRel(<, Nat) = Less
    BY Zenon DEF OpToRel, Less
  <1>2. IsWellFoundedOn(Less, Nat)
    BY <1>1, NatLessThanWellFounded, Zenon
  <1>3. \E m \in S : \A y \in S : ~(<<y, m>> \in Less)
    BY <1>2, WFMin, Zenon
  <1>4. PICK m \in S : \A y \in S : ~(<<y, m>> \in Less)
    BY <1>3
  <1>5. \A x, y \in Nat : x < y => <<x, y>> \in Less
    BY DEF Less
  <1>6. ASSUME NEW x \in S PROVE m <= x
    <2>1. x \in Nat /\ m \in Nat
      OBVIOUS
    <2>2. ~(x < m)
      BY <1>4, <1>5, <2>1, Zenon
    <2> QED BY <2>1, <2>2
  <1> QED BY <1>6

(* A bounded set has its maximum: the least of its bounds is in it. *)

LEMMA PageStartFacts ==
    ASSUME NEW ids \in Seq(Events), NEW cursor \in Opt(Events)
    PROVE  /\ PageStart(ids, cursor) \in 0 .. Len(ids)
           /\ cursor # <<>> /\ Contains(ids, cursor[1]) =>
                 /\ PageStart(ids, cursor) \in 1 .. Len(ids)
                 /\ ids[PageStart(ids, cursor)] = cursor[1]
           /\ cursor = <<>> => PageStart(ids, cursor) = 0
  <1>1. Len(ids) \in Nat
    OBVIOUS
  <1>2. CASE cursor = <<>> \/ ~Contains(ids, cursor[1])
    BY <1>1, <1>2 DEF PageStart
  <1>3. CASE cursor # <<>> /\ Contains(ids, cursor[1])
    <2>1. PICK I : I = {i \in 1 .. Len(ids) : ids[i] = cursor[1]}
      OBVIOUS
    <2>2. I # {} /\ I \in SUBSET Nat
      BY <1>3, <2>1 DEF Contains
    <2>3. Min(I) \in I
      BY <2>2, Least DEF Min
    <2>4. PageStart(ids, cursor) = Min(I)
      BY <1>3, <2>1, <2>2 DEF PageStart, SelectInSeq
    <2>5. PageStart(ids, cursor) \in 1 .. Len(ids) /\ ids[PageStart(ids, cursor)] = cursor[1]
      BY <2>1, <2>3, <2>4
    <2> QED BY <1>1, <1>3, <2>5
  <1> QED BY <1>2, <1>3

LEMMA CallNumbers ==
    ASSUME TypeInv
    PROVE  \A a \in ToSet(queue) : a.by \in Nat /\ a.by <= calls
  <1> SUFFICES ASSUME NEW a \in ToSet(queue) PROVE a.by \in Nat /\ a.by <= calls
    OBVIOUS
  <1>1. CallOK(a) /\ a.by <= calls
    BY DEF TypeInv
  <1>2. a.by \in 1 .. MaxCalls
    BY <1>1 DEF CallOK
  <1> QED BY <1>1, <1>2

LEMMA DoStart ==
    ASSUME TypeInv, NEW r \in Requests, Start(r)
    PROVE  LET c == [req |-> r, by |-> calls + 1, pc |-> "read", seen |-> Get(FirstKey(r))] IN
           /\ queue' = Append(queue, c) /\ CallOK(c) /\ \A a \in ToSet(queue) : a.by # c.by
           /\ raced \subseteq raced' /\ raced' \subseteq raced \cup Touched(r, c.seen)
           /\ \A a \in ToSet(queue) :
                 Undecided(a) => Touched(r, c.seen) \cap Touched(a.req, a.seen) \subseteq raced'
           /\ TypeInv' /\ UNCHANGED <<kv, latest, moved, acked, reader>> /\ c.by > calls
  <1>1. PICK c : c = [req |-> r, by |-> calls + 1, pc |-> "read", seen |-> Get(FirstKey(r))]
    OBVIOUS
  <1>2. /\ queue' = Append(queue, c) /\ UNCHANGED <<kv, latest, moved, acked, reader>>
        /\ calls < MaxCalls /\ calls' = calls + 1
    BY <1>1 DEF Start
  <1>3. calls \in 0 .. MaxCalls /\ Numbered(queue) /\ Len(queue) <= calls
        /\ \A a \in ToSet(queue) : CallOK(a) /\ a.by <= calls
    BY DEF TypeInv
  <1>4. PICK n \in Nat : n = calls /\ n + 1 \in 1 .. MaxCalls /\ c.by = n + 1 /\ calls' = n + 1 /\ c.by > calls
    BY <1>1, <1>2, <1>3, CallsAssumption
  <1>5. c.req = r /\ c.pc = "read" /\ c.seen = Get(FirstKey(r))
    BY <1>1
  <1>6. /\ r.op \in {"createLink", "updateLink"} => c.seen \in Opt(LinkRecs)
        /\ r.op \in {"putSession", "deleteSession", "createAttempt", "updateAttempt"}
              => c.seen \in Opt(SessionRecs)
        /\ r.op = "append" => c.seen \in Opt(EventRecs)
    BY <1>5, FirstKeyFacts, GetTyped DEF TypeInv
  <1>7. CallOK(c)
    <2>1. r.op # "list"
      BY RequestFacts
    <2>2. c = [req |-> c.req, by |-> c.by, pc |-> c.pc, seen |-> c.seen]
      BY <1>1
    <2> QED BY <1>4, <1>5, <1>6, <2>1, <2>2 DEF CallOK
  <1>8. \A a \in ToSet(queue) : a.by # c.by
    <2>1. \A a \in ToSet(queue) : a.by \in Nat /\ a.by <= n
      BY <1>4, CallNumbers
    <2> QED BY <1>4, <2>1
  <1>9. /\ Numbered(queue') /\ ToSet(queue') = ToSet(queue) \cup {c} /\ Len(queue') = Len(queue) + 1
    BY <1>2, <1>3, <1>8, QueueAppend
  <1>10. Len(queue') <= n + 1
    <2>1. Len(queue) \in Nat
      BY <1>3 DEF Numbered
    <2> QED BY <1>3, <1>4, <1>9, <2>1
  <1>11. \A a \in ToSet(queue') : CallOK(a) /\ a.by <= n + 1
    <2>1. \A a \in ToSet(queue) : a.by \in Nat /\ a.by <= n
      BY <1>4, CallNumbers
    <2>2. \A a \in ToSet(queue) : a.by <= n + 1
      BY <1>4, <2>1
    <2>3. c.by <= n + 1
      BY <1>4
    <2> QED BY <1>3, <1>7, <1>9, <2>2, <2>3
  <1>12. TypeInv'
    <2>1. n + 1 \in 0 .. MaxCalls
      BY <1>4
    <2> QED BY <1>2, <1>4, <1>9, <1>10, <1>11, <2>1 DEF TypeInv
  <1>13. PICK W : W = {queue[i] : i \in {j \in DOMAIN queue : Undecided(queue[j])}}
    OBVIOUS
  <1>14. raced' = raced \cup UNION {Touched(r, c.seen) \cap Touched(a.req, a.seen) : a \in W}
    BY <1>5, <1>13 DEF Start
  <1>15. \A a \in ToSet(queue) : Undecided(a) => a \in W
    BY <1>13 DEF ToSet
  <1>16. \A a \in ToSet(queue) :
            Undecided(a) => Touched(r, c.seen) \cap Touched(a.req, a.seen) \subseteq raced'
    BY <1>14, <1>15
  <1>17. raced \subseteq raced' /\ raced' \subseteq raced \cup Touched(r, c.seen)
    BY <1>14
  <1> QED BY <1>1, <1>2, <1>4, <1>7, <1>8, <1>12, <1>16, <1>17

LEMMA DoStartList ==
    ASSUME TypeInv, NEW r \in ListRequests, StartList(r)
    PROVE  LET c == [req |-> r, by |-> calls + 1, pc |-> "list",
                     seen |-> [todo |-> Prefixed(r), out |-> {}, began |-> Answer(r)]] IN
           /\ queue' = Append(queue, c) /\ CallOK(c) /\ \A a \in ToSet(queue) : a.by # c.by
           /\ TypeInv' /\ UNCHANGED <<kv, reader>> /\ UNCHANGED ghosts /\ r.op = "list"
  <1>1. PICK s : s = [todo |-> Prefixed(r), out |-> {}, began |-> Answer(r)]
    OBVIOUS
  <1>2. PICK c : c = [req |-> r, by |-> calls + 1, pc |-> "list", seen |-> s]
    OBVIOUS
  <1>3. /\ queue' = Append(queue, c) /\ UNCHANGED <<kv, ghosts, reader>>
        /\ calls < MaxCalls /\ calls' = calls + 1
    BY <1>1, <1>2 DEF StartList
  <1>4. calls \in 0 .. MaxCalls /\ Numbered(queue) /\ Len(queue) <= calls
        /\ \A a \in ToSet(queue) : CallOK(a) /\ a.by <= calls
    BY DEF TypeInv
  <1>5. PICK n \in Nat : n = calls /\ n + 1 \in 1 .. MaxCalls /\ c.by = n + 1 /\ calls' = n + 1
    BY <1>2, <1>3, <1>4, CallsAssumption
  <1>6. r.op = "list" /\ r \in Requests \cup ListRequests
    BY DEF ListRequests
  <1>7. CallOK(c)
    <2>1. s = [todo |-> s.todo, out |-> s.out, began |-> s.began]
      BY <1>1
    <2>2. c.req = r /\ c.pc = "list" /\ c.seen = s
          /\ c = [req |-> c.req, by |-> c.by, pc |-> c.pc, seen |-> c.seen]
      BY <1>2
    <2> QED BY <1>5, <1>6, <2>1, <2>2 DEF CallOK
  <1>8. \A a \in ToSet(queue) : a.by \in Nat /\ a.by <= n
    BY <1>5, CallNumbers
  <1>9. \A a \in ToSet(queue) : a.by # c.by /\ a.by <= n + 1
    BY <1>5, <1>8
  <1>10. /\ Numbered(queue') /\ ToSet(queue') = ToSet(queue) \cup {c} /\ Len(queue') = Len(queue) + 1
    BY <1>3, <1>4, <1>9, QueueAppend
  <1>11. Len(queue') <= n + 1
    <2>1. Len(queue) \in Nat
      BY <1>4 DEF Numbered
    <2> QED BY <1>4, <1>5, <1>10, <2>1
  <1>12. \A a \in ToSet(queue') : CallOK(a) /\ a.by <= n + 1
    <2>1. c.by <= n + 1
      BY <1>5
    <2> QED BY <1>4, <1>7, <1>9, <1>10, <2>1
  <1>13. TypeInv'
    <2>1. n + 1 \in 0 .. MaxCalls
      BY <1>5
    <2> QED BY <1>3, <1>5, <1>10, <1>11, <1>12, <2>1 DEF TypeInv, ghosts
  <1> QED BY <1>1, <1>2, <1>3, <1>6, <1>7, <1>9, <1>13

LEMMA DoPageBegin ==
    ASSUME TypeInv, NEW limit \in Limits, PageBegin(limit)
    PROVE  /\ reader.pc = "idle"
           /\ reader' = [index |-> reader.index, pc |-> "page", cursor |-> reader.cursor, limit |-> limit,
                         ids |-> EventIds(reader.index), got |-> reader.got]
           /\ EventIds(reader.index) \in Seq(Events)
           /\ TypeInv' /\ UNCHANGED <<kv, queue, calls, raced, latest, moved, acked>>
  <1>1. reader.pc = "idle" /\ UNCHANGED <<kv, queue, calls, raced, latest, moved, acked>>
    BY DEF PageBegin, ghosts
  <1>2. PICK ids : ids = EventIds(reader.index)
    OBVIOUS
  <1>3. PICK o \in Owners, l \in Links : reader.index = EventIndex(o, l)
    BY DEF TypeInv, ReaderOK
  <1>4. ids \in Seq(Events)
    <2>1. CASE reader.index \in DOMAIN kv
      <3>1. Fits(reader.index, kv[reader.index])
        BY <2>1 DEF TypeInv, StoreOK
      <3> QED BY <1>2, <1>3, <2>1, <3>1, KeyFacts DEF EventIds, Fits
    <2>2. CASE reader.index \notin DOMAIN kv
      BY <1>2, <2>2 DEF EventIds
    <2> QED BY <2>1, <2>2
  <1>5. PICK x, p, c, n, s, g : reader = [index |-> x, pc |-> p, cursor |-> c, limit |-> n, ids |-> s, got |-> g]
    BY DEF TypeInv, ReaderOK
  <1>6. reader' = [index |-> x, pc |-> "page", cursor |-> c, limit |-> limit, ids |-> ids, got |-> g]
    <2>1. reader' = [reader EXCEPT !.pc = "page", !.limit = limit, !.ids = ids]
      BY <1>2 DEF PageBegin
    <2>2. PICK d : d = [reader EXCEPT !.pc = "page"]
      OBVIOUS
    <2>3. d = [index |-> x, pc |-> "page", cursor |-> c, limit |-> n, ids |-> s, got |-> g]
      BY <1>5, <2>2
    <2>4. PICK f : f = [d EXCEPT !.limit = limit]
      OBVIOUS
    <2>5. f = [index |-> x, pc |-> "page", cursor |-> c, limit |-> limit, ids |-> s, got |-> g]
      BY <2>3, <2>4
    <2>6. reader' = [f EXCEPT !.ids = ids]
      BY <2>1, <2>2, <2>4
    <2> QED BY <2>5, <2>6
  <1>7. reader.index = x /\ reader.cursor = c /\ reader.got = g
    BY <1>5
  <1>8. ReaderOK(reader')
    <2>1. c \in Opt(Events) /\ g \in Seq(Events) /\ limit \in Nat
      BY <1>7, LimitsAssumption DEF TypeInv, ReaderOK
    <2>2. /\ reader'.index = x /\ reader'.pc = "page" /\ reader'.cursor = c /\ reader'.limit = limit
          /\ reader'.ids = ids /\ reader'.got = g
      BY <1>6
    <2> QED BY <1>3, <1>4, <1>6, <1>7, <2>1, <2>2 DEF ReaderOK
  <1>9. TypeInv'
    BY <1>1, <1>8 DEF TypeInv
  <1> QED BY <1>1, <1>2, <1>4, <1>6, <1>7, <1>9

(* The window of a page, and the cursor after it. *)
LEMMA DoPageEnd ==
    ASSUME TypeInv, PageEnd
    PROVE  /\ reader.pc = "page" /\ reader'.index = reader.index /\ reader'.pc \in {"idle", "done"}
           /\ \E n \in 0 .. Len(reader.ids), m \in 0 .. Len(reader.ids) :
                 /\ n = PageStart(reader.ids, reader.cursor) /\ n <= m
                 /\ reader'.got = reader.got \o SubSeq(reader.ids, n + 1, m)
                 /\ \/ reader'.cursor = <<>> /\ reader'.pc = "done"
                    \/ n < m /\ reader'.cursor = <<reader.ids[m]>>
           /\ TypeInv' /\ UNCHANGED <<kv, queue, calls, raced, latest, moved, acked>>
  <1>1. reader.pc = "page" /\ UNCHANGED <<kv, queue, calls, raced, latest, moved, acked>>
    BY DEF PageEnd, ghosts
  <1>2. PICK o \in Owners, l \in Links : reader.index = EventIndex(o, l)
    BY DEF TypeInv, ReaderOK
  <1>3. PICK x, p, c, k, s, g : reader = [index |-> x, pc |-> p, cursor |-> c, limit |-> k, ids |-> s, got |-> g]
    BY DEF TypeInv, ReaderOK
  <1>4. /\ reader.index = x /\ reader.pc = p /\ reader.cursor = c /\ reader.limit = k
        /\ reader.ids = s /\ reader.got = g
    BY <1>3
  <1>5. c \in Opt(Events) /\ k \in Nat /\ s \in Seq(Events) /\ g \in Seq(Events)
    BY <1>4 DEF TypeInv, ReaderOK
  <1>6. PICK n : n = PageStart(s, c)
    OBVIOUS
  <1>7. n \in 0 .. Len(s) /\ n \in Nat /\ Len(s) \in Nat
    BY <1>5, <1>6, PageStartFacts
  <1>8. PICK more \in BOOLEAN : more = (k > 0 /\ n + k < Len(s))
    OBVIOUS
  <1>9. PICK m : m = IF more THEN n + k ELSE Len(s)
    OBVIOUS
  <1>10. /\ m \in 0 .. Len(s) /\ n <= m /\ m \in Nat /\ (more => n < m)
    <2>1. CASE more
      <3>1. k > 0 /\ n + k < Len(s) /\ m = n + k
        BY <1>8, <1>9, <2>1, Zenon
      <3> QED BY <1>5, <1>7, <3>1
    <2>2. CASE ~more
      BY <1>7, <1>9, <2>2
    <2> QED BY <2>1, <2>2
  <1>11. PICK w : w = SubSeq(s, n + 1, m)
    OBVIOUS
  <1>12. w \in Seq(Events) /\ g \o w \in Seq(Events)
    BY <1>5, <1>7, <1>10, <1>11
  <1>13. more => Last(w) = s[m] /\ s[m] \in Events
    <2> SUFFICES ASSUME more PROVE Last(w) = s[m] /\ s[m] \in Events
      OBVIOUS
    <2>1. m \in 1 .. Len(s) /\ n + 1 \in 1 .. m /\ n + 1 <= m
      BY <1>7, <1>10
    <2>2. Len(w) = m - n /\ w[m - n] = s[m]
      <3>1. /\ Len(w) = m - (n + 1) + 1
            /\ \A i \in 1 .. m - (n + 1) + 1 : w[i] = s[(n + 1) + i - 1]
        BY <1>5, <1>7, <1>10, <1>11, <2>1, SubSeqProperties
      <3>2. m - (n + 1) + 1 = m - n /\ m - n \in 1 .. m - (n + 1) + 1 /\ (n + 1) + (m - n) - 1 = m
        BY <1>7, <1>10, <2>1
      <3> QED BY <3>1, <3>2
    <2> QED BY <1>5, <2>1, <2>2 DEF Last
  <1>14. PICK cc, pp : cc = (IF more THEN <<Last(w)>> ELSE <<>>) /\ pp = (IF more THEN "idle" ELSE "done")
    OBVIOUS
  <1>15. reader' = [reader EXCEPT !.got = @ \o w, !.ids = <<>>, !.limit = 0, !.cursor = cc, !.pc = pp]
    BY <1>4, <1>6, <1>8, <1>9, <1>11, <1>14 DEF PageEnd
  <1>16. reader' = [index |-> x, pc |-> pp, cursor |-> cc, limit |-> 0, ids |-> <<>>, got |-> g \o w]
    <2>1. PICK y, e, z : y = g \o w /\ e = <<>> /\ z = 0
      OBVIOUS
    <2>2. PICK d1 : d1 = [reader EXCEPT !.got = y]
      OBVIOUS
    <2>3. PICK d2 : d2 = [d1 EXCEPT !.ids = e]
      OBVIOUS
    <2>4. PICK d3 : d3 = [d2 EXCEPT !.limit = z]
      OBVIOUS
    <2>5. PICK d4 : d4 = [d3 EXCEPT !.cursor = cc]
      OBVIOUS
    <2>6. d1 = [index |-> x, pc |-> p, cursor |-> c, limit |-> k, ids |-> s, got |-> y]
      BY <1>3, <2>2
    <2>7. d2 = [index |-> x, pc |-> p, cursor |-> c, limit |-> k, ids |-> e, got |-> y]
      BY <2>3, <2>6
    <2>8. d3 = [index |-> x, pc |-> p, cursor |-> c, limit |-> z, ids |-> e, got |-> y]
      BY <2>4, <2>7
    <2>9. d4 = [index |-> x, pc |-> p, cursor |-> cc, limit |-> z, ids |-> e, got |-> y]
      BY <2>5, <2>8
    <2>10. reader' = [d4 EXCEPT !.pc = pp]
      BY <1>4, <1>15, <2>1, <2>2, <2>3, <2>4, <2>5
    <2>11. reader' = [index |-> x, pc |-> pp, cursor |-> cc, limit |-> z, ids |-> e, got |-> y]
      BY <2>9, <2>10
    <2> QED BY <2>1, <2>11
  <1>17. /\ reader'.index = x /\ reader'.pc = pp /\ reader'.cursor = cc /\ reader'.limit = 0
         /\ reader'.ids = <<>> /\ reader'.got = g \o w
    BY <1>16
  <1>18. \/ cc = <<>> /\ pp = "done"
         \/ n < m /\ cc = <<s[m]>> /\ pp = "idle" /\ s[m] \in Events
    BY <1>10, <1>13, <1>14
  <1>19. ReaderOK(reader')
    <2>1. cc \in Opt(Events) /\ pp \in {"idle", "done"} /\ <<>> \in Seq(Events)
      BY <1>18 DEF Opt
    <2> QED BY <1>2, <1>4, <1>12, <1>16, <1>17, <2>1 DEF ReaderOK
  <1>20. TypeInv'
    BY <1>1, <1>19 DEF TypeInv
  <1>21. /\ n = PageStart(reader.ids, reader.cursor) /\ n <= m
         /\ reader'.got = reader.got \o SubSeq(reader.ids, n + 1, m)
         /\ \/ reader'.cursor = <<>> /\ reader'.pc = "done"
            \/ n < m /\ reader'.cursor = <<reader.ids[m]>>
    BY <1>4, <1>6, <1>10, <1>11, <1>17, <1>18
  <1>22. n \in 0 .. Len(reader.ids) /\ m \in 0 .. Len(reader.ids)
    BY <1>4, <1>7, <1>10
  <1>23. reader'.index = reader.index /\ reader'.pc \in {"idle", "done"}
    BY <1>4, <1>17, <1>18
  <1> QED BY <1>1, <1>20, <1>21, <1>22, <1>23

LEMMA DoKeyCall ==
    ASSUME TypeInv, NEW o \in Owners, KeyCall(o)
    PROVE  /\ \E k \in MaterialKeys : (\E v : Set(k, v)) \/ Delete(k)
           /\ TypeInv' /\ calls <= calls' /\ UNCHANGED <<queue, raced, latest, moved, acked, reader>>
  <1>1. PICK k \in MaterialKeys :
           \/ PutKey(k)
           \/ Delete(k) /\ UNCHANGED <<queue, calls, ghosts, reader>>
    BY DEF KeyCall, PutAccountIdentity, PutInvitePreKey, DeleteInvitePreKey, MaterialKeys
  <1>2. calls \in 0 .. MaxCalls /\ StoreOK(kv) /\ Len(queue) <= calls /\ Numbered(queue)
    BY DEF TypeInv
  <1>3. Len(queue) \in Nat /\ calls \in Nat
    BY <1>2, CallsAssumption DEF Numbered
  <1>4. CASE PutKey(k)
    <2>1. /\ calls < MaxCalls /\ calls' = calls + 1 /\ Set(k, calls + 1)
          /\ UNCHANGED <<queue, raced, latest, moved, acked, reader>>
      BY <1>4 DEF PutKey, ghosts
    <2>2. StoreOK(kv')
      BY <1>2, <2>1, FitsFacts, StoreSet
    <2>3. calls' \in 0 .. MaxCalls /\ Len(queue) <= calls' /\ calls <= calls'
      BY <1>2, <1>3, <2>1, CallsAssumption
    <2>4. \A a \in ToSet(queue) : a.by <= calls'
      BY <1>3, <2>1, CallNumbers
    <2>5. TypeInv'
      BY <2>1, <2>2, <2>3, <2>4 DEF TypeInv
    <2> QED BY <2>1, <2>3, <2>5
  <1>5. CASE Delete(k) /\ UNCHANGED <<queue, calls, ghosts, reader>>
    <2>1. StoreOK(kv')
      BY <1>2, <1>5, StoreDelete
    <2> QED BY <1>3, <1>5, <2>1 DEF TypeInv, ghosts
  <1> QED BY <1>1, <1>4, <1>5

LEMMA TypeInit == ASSUME Init PROVE TypeInv
  <1>1. PICK o \in Owners, l \in Links :
           reader = [index |-> EventIndex(o, l), pc |-> "idle", cursor |-> <<>>,
                     limit |-> 0, ids |-> <<>>, got |-> <<>>]
    BY DEF Init
  <1>2. ReaderOK(reader)
    BY <1>1 DEF ReaderOK, Opt
  <1>3. queue = <<>> /\ calls = 0 /\ acked = {} /\ DOMAIN kv = {} /\ DOMAIN latest = {}
    BY DEF Init
  <1>4. Numbered(queue) /\ ToSet(queue) = {} /\ Len(queue) = 0
    BY <1>3 DEF Numbered, ToSet
  <1>5. calls \in 0 .. MaxCalls /\ Len(queue) <= calls
    BY <1>3, <1>4, CallsAssumption
  <1> QED BY <1>2, <1>3, <1>4, <1>5 DEF TypeInv, StoreOK, LatestOK

----------------------------------------------------------------------------
(* What a step leaves alone.                                               *)

LinkOps == {"createLink", "updateLink"}
SessionOps == {"putSession", "deleteSession"}
AttemptOps == {"createAttempt", "updateAttempt"}
Ops == LinkOps \cup SessionOps \cup AttemptOps \cup {"append", "list"}

LinkKinds == {"records", "pairs"}
SessionKinds == {"sessions", "sessions:by-peer-link"}
AttemptKinds == {"handshakes"}
EventKinds == {"events", "events:index"}
MaterialKinds == {"keys:identity", "keys:invite"}

(* The step leaves the key k as it is. *)
Agree(k) == (k \in DOMAIN kv' <=> k \in DOMAIN kv) /\ (k \in DOMAIN kv => kv'[k] = kv[k])

LEMMA SetFacts ==
    ASSUME NEW k, NEW v, Set(k, v)
    PROVE  DOMAIN kv' = DOMAIN kv \cup {k} /\ kv'[k] = v /\ \A j : j # k => Agree(j)
  BY DEF Set, Agree

LEMMA DeleteFacts ==
    ASSUME NEW k, Delete(k)
    PROVE  DOMAIN kv' = DOMAIN kv \ {k} /\ \A j : j # k => Agree(j)
  BY DEF Delete, Agree

LEMMA KindFacts ==
    \A a, b : /\ Link(a, b)[1] \in LinkKinds /\ Pair(a, b)[1] \in LinkKinds
             /\ Session(a, b)[1] \in SessionKinds /\ SessionIndex(a, b)[1] \in SessionKinds
             /\ Attempt(a, b)[1] \in AttemptKinds
             /\ Event(a, b)[1] \in EventKinds /\ EventIndex(a, b)[1] \in EventKinds
  BY KeyFacts DEF LinkKinds, SessionKinds, AttemptKinds, EventKinds

LEMMA OnlyKinds ==
    ASSUME NEW k, NEW kinds, k[1] \in kinds, (\E v : Set(k, v)) \/ Delete(k)
    PROVE  \A j : j[1] \notin kinds => Agree(j)
  BY SetFacts, DeleteFacts

LEMMA AgreeAll == ASSUME UNCHANGED kv PROVE \A k : Agree(k)
  BY DEF Agree

LEMMA AgreeGet == ASSUME NEW k, Agree(k) PROVE Get(k)' = Get(k) /\ EventIds(k)' = EventIds(k)
  BY DEF Agree, Get, EventIds

(* The calls of operations other than moving stay as and where they are. *)
OthersKept(moving) ==
    /\ \A c : c.req.op \notin moving => (c \in ToSet(queue') <=> c \in ToSet(queue))
    /\ \A a, b \in ToSet(queue) : a.req.op \notin moving /\ b.req.op \notin moving =>
          (Before(queue', a, b) <=> Before(queue, a, b))

(* A step of operations moving that changes keys of the given kinds only. *)
Moves(moving, kinds) ==
    /\ OthersKept(moving) /\ (\A k : k[1] \notin kinds => Agree(k)) /\ raced \subseteq raced'

(* The next await of the call at the head of the queue. *)
Goes(x) == Awaits(x) /\ x.req = req /\ x.by = cur.by

LEMMA GoesFacts ==
    ASSUME TypeInv, queue # <<>>, NEW x, Goes(x)
    PROVE  LET S == ToSet(queue) \ {cur} IN
           /\ cur \in ToSet(queue) /\ ToSet(queue') = S \cup {x}
           /\ \A a, b \in S : Before(queue', a, b) <=> Before(queue, a, b)
           /\ \A a \in S : /\ a.by # cur.by /\ Before(queue, cur, a)
                           /\ Before(queue', a, x) /\ ~Before(queue', x, a)
           /\ ~Before(queue', x, x)
  <1>1. Numbered(queue) /\ x.by = Head(queue).by /\ queue' = Append(Tail(queue), x)
    BY DEF TypeInv, Goes, Awaits, cur
  <1> QED BY <1>1, QueueRotate DEF cur

LEMMA EndsFacts ==
    ASSUME TypeInv, queue # <<>>, Ends
    PROVE  LET S == ToSet(queue) \ {cur} IN
           /\ cur \in ToSet(queue) /\ ToSet(queue') = S
           /\ \A a, b \in S : Before(queue', a, b) <=> Before(queue, a, b)
           /\ \A a \in S : a.by # cur.by /\ Before(queue, cur, a)
  <1>1. Numbered(queue) /\ queue' = Tail(queue)
    BY DEF TypeInv, Ends
  <1> QED BY <1>1, QueueTail DEF cur

LEMMA StartFacts ==
    ASSUME TypeInv, NEW c, queue' = Append(queue, c), \A a \in ToSet(queue) : a.by # c.by
    PROVE  /\ ToSet(queue') = ToSet(queue) \cup {c} /\ c \notin ToSet(queue)
           /\ \A a, b \in ToSet(queue) : Before(queue', a, b) <=> Before(queue, a, b)
           /\ \A a \in ToSet(queue) : Before(queue', a, c) /\ ~Before(queue', c, a)
           /\ ~Before(queue', c, c)
  <1>1. Numbered(queue)
    BY DEF TypeInv
  <1> QED BY <1>1, QueueAppend

LEMMA TurnKeeps ==
    ASSUME TypeInv, queue # <<>>, Ends \/ \E x : Goes(x), NEW moving, req.op \in moving
    PROVE  OthersKept(moving)
  <1>1. cur.req.op \in moving
    BY DEF req
  <1>2. CASE Ends
    BY <1>1, <1>2, EndsFacts DEF OthersKept
  <1>3. ASSUME NEW x, Goes(x) PROVE OthersKept(moving)
    <2>1. x.req.op \in moving
      BY <1>3 DEF Goes
    <2> QED BY <1>1, <1>3, <2>1, GoesFacts DEF OthersKept
  <1> QED BY <1>2, <1>3

LEMMA StartKeeps ==
    ASSUME TypeInv, NEW c, queue' = Append(queue, c), \A a \in ToSet(queue) : a.by # c.by,
           NEW moving, c.req.op \in moving
    PROVE  OthersKept(moving)
  BY StartFacts DEF OthersKept

LEMMA SameQueue == ASSUME UNCHANGED queue, NEW moving PROVE OthersKept(moving)
  BY DEF OthersKept

LEMMA NowGoes ==
    ASSUME TypeInv, queue # <<>>, NEW pc, NEW seen, Awaits(Now(pc, seen))
    PROVE  Goes(Now(pc, seen))
  BY NowFacts DEF Goes

LEMMA LinkTurnMoves ==
    ASSUME TypeInv, LinkTurn
    PROVE  Moves(LinkOps, LinkKinds) /\ TypeInv' /\ UNCHANGED <<calls, reader>> /\ UNCHANGED ghosts
  <1>1. CASE CreateLinkRead
    <2>1. /\ queue # <<>> /\ req.op \in LinkOps /\ (\E x : Goes(x)) /\ UNCHANGED kv /\ TypeInv'
          /\ UNCHANGED <<calls, reader>> /\ UNCHANGED ghosts
      BY <1>1, DoCreateLinkRead, NowGoes DEF LinkOps
    <2> QED BY <2>1, TurnKeeps, AgreeAll DEF Moves, ghosts
  <1>2. CASE CreateLinkWrite \/ UpdateLinkWrite
    <2>1. PICK v : /\ queue # <<>> /\ req.op \in LinkOps /\ (\E x : Goes(x)) /\ TypeInv'
                   /\ UNCHANGED <<calls, reader>> /\ UNCHANGED ghosts
                   /\ Set(Link(req.owner, req.link), v)
      BY <1>2, DoCreateLinkWrite, DoUpdateLinkWrite, NowGoes DEF LinkOps
    <2>2. \A k : k[1] \notin LinkKinds => Agree(k)
      BY <2>1, OnlyKinds, KindFacts
    <2> QED BY <2>1, <2>2, TurnKeeps DEF Moves, ghosts
  <1>3. CASE LinkIndexWrite
    <2>1. /\ queue # <<>> /\ req.op \in LinkOps /\ Ends /\ TypeInv'
          /\ UNCHANGED <<calls, reader>> /\ UNCHANGED ghosts
          /\ Set(Pair(req.owner, req.peer), req.link)
      BY <1>3, DoLinkIndexWrite DEF LinkOps
    <2>2. \A k : k[1] \notin LinkKinds => Agree(k)
      BY <2>1, OnlyKinds, KindFacts
    <2> QED BY <2>1, <2>2, TurnKeeps DEF Moves, ghosts
  <1>4. CASE LinkRejected
    <2>1. /\ queue # <<>> /\ req.op \in LinkOps /\ Ends /\ TypeInv'
          /\ UNCHANGED <<kv, calls, reader>> /\ UNCHANGED ghosts
      BY <1>4, DoEnd DEF LinkOps
    <2> QED BY <2>1, TurnKeeps, AgreeAll DEF Moves, ghosts
  <1> QED BY <1>1, <1>2, <1>3, <1>4 DEF LinkTurn

LEMMA SessionTurnMoves ==
    ASSUME TypeInv, SessionTurn
    PROVE  Moves(SessionOps, SessionKinds) /\ TypeInv' /\ UNCHANGED <<calls, reader, raced, acked>>
  <1>1. CASE PutSessionWrite
    <2>1. PICK v : /\ queue # <<>> /\ req.op \in SessionOps /\ (\E x : Goes(x)) /\ TypeInv'
                   /\ UNCHANGED <<calls, reader>> /\ UNCHANGED ghosts
                   /\ Set(Session(req.owner, req.session), v)
      BY <1>1, DoPutSessionWrite, NowGoes DEF SessionOps
    <2>2. \A k : k[1] \notin SessionKinds => Agree(k)
      BY <2>1, OnlyKinds, KindFacts
    <2> QED BY <2>1, <2>2, TurnKeeps DEF Moves, ghosts
  <1>2. CASE PutSessionIndex
    <2>1. /\ queue # <<>> /\ req.op \in SessionOps /\ Ends /\ TypeInv'
          /\ UNCHANGED <<calls, reader, raced, acked>>
          /\ Set(SessionIndex(req.owner, req.link), req.session)
      BY <1>2, DoPutSessionIndex DEF SessionOps
    <2>2. \A k : k[1] \notin SessionKinds => Agree(k)
      BY <2>1, OnlyKinds, KindFacts
    <2> QED BY <2>1, <2>2, TurnKeeps DEF Moves
  <1>3. CASE DeleteSessionRecord
    <2>1. /\ queue # <<>> /\ req.op \in SessionOps /\ (Ends \/ \E x : Goes(x)) /\ TypeInv'
          /\ UNCHANGED <<calls, reader, raced, acked>>
          /\ Delete(Session(req.owner, req.session))
      BY <1>3, DoDeleteSessionRecord, NowGoes DEF SessionOps
    <2>2. \A k : k[1] \notin SessionKinds => Agree(k)
      BY <2>1, OnlyKinds, KindFacts
    <2> QED BY <2>1, <2>2, TurnKeeps DEF Moves
  <1>4. CASE DeleteSessionReadIndex
    <2>1. /\ queue # <<>> /\ req.op \in SessionOps /\ (\E x : Goes(x)) /\ UNCHANGED kv /\ TypeInv'
          /\ UNCHANGED <<calls, reader>> /\ UNCHANGED ghosts
      BY <1>4, DoDeleteSessionReadIndex, NowGoes DEF SessionOps
    <2> QED BY <2>1, TurnKeeps, AgreeAll DEF Moves, ghosts
  <1>5. CASE DeleteSessionIndex
    <2>1. PICK l : /\ queue # <<>> /\ req.op \in SessionOps /\ Ends /\ TypeInv'
                   /\ UNCHANGED <<calls, reader>> /\ UNCHANGED ghosts
                   /\ Delete(SessionIndex(req.owner, l))
      BY <1>5, DoDeleteSessionIndex DEF SessionOps
    <2>2. \A k : k[1] \notin SessionKinds => Agree(k)
      BY <2>1, OnlyKinds, KindFacts
    <2> QED BY <2>1, <2>2, TurnKeeps DEF Moves, ghosts
  <1>6. CASE SessionEnded
    <2>1. /\ queue # <<>> /\ req.op \in SessionOps /\ Ends /\ TypeInv'
          /\ UNCHANGED <<kv, calls, reader>> /\ UNCHANGED ghosts
      BY <1>6, DoEnd DEF SessionOps
    <2> QED BY <2>1, TurnKeeps, AgreeAll DEF Moves, ghosts
  <1> QED BY <1>1, <1>2, <1>3, <1>4, <1>5, <1>6 DEF SessionTurn

LEMMA AttemptTurnMoves ==
    ASSUME TypeInv, AttemptTurn
    PROVE  Moves(AttemptOps, AttemptKinds) /\ TypeInv' /\ UNCHANGED <<calls, reader>> /\ UNCHANGED ghosts
  <1>1. CASE CreateAttempt \/ UpdateAttempt
    <2>1. PICK v : /\ queue # <<>> /\ req.op \in AttemptOps /\ Ends /\ TypeInv'
                   /\ UNCHANGED <<calls, reader>> /\ UNCHANGED ghosts
                   /\ Set(Attempt(req.owner, req.attempt), v)
      BY <1>1, DoAttempt DEF AttemptOps
    <2>2. \A k : k[1] \notin AttemptKinds => Agree(k)
      BY <2>1, OnlyKinds, KindFacts
    <2> QED BY <2>1, <2>2, TurnKeeps DEF Moves, ghosts
  <1>2. CASE AttemptRejected
    <2>1. /\ queue # <<>> /\ req.op \in AttemptOps /\ Ends /\ TypeInv'
          /\ UNCHANGED <<kv, calls, reader>> /\ UNCHANGED ghosts
      BY <1>2, DoEnd DEF AttemptOps
    <2> QED BY <2>1, TurnKeeps, AgreeAll DEF Moves, ghosts
  <1> QED BY <1>1, <1>2 DEF AttemptTurn

LEMMA EventTurnMoves ==
    ASSUME TypeInv, EventTurn
    PROVE  Moves({"append"}, EventKinds) /\ TypeInv' /\ UNCHANGED <<calls, reader, raced, latest, moved>>
  <1>1. CASE AppendWrite
    <2>1. PICK v : /\ queue # <<>> /\ req.op \in {"append"} /\ (\E x : Goes(x)) /\ TypeInv'
                   /\ UNCHANGED <<calls, reader>> /\ UNCHANGED ghosts
                   /\ Set(Event(req.owner, req.event), v)
      BY <1>1, DoAppendWrite, NowGoes
    <2>2. \A k : k[1] \notin EventKinds => Agree(k)
      BY <2>1, OnlyKinds, KindFacts
    <2> QED BY <2>1, <2>2, TurnKeeps DEF Moves, ghosts
  <1>2. CASE AppendReadIndex
    <2>1. /\ queue # <<>> /\ req.op \in {"append"} /\ (\E x : Goes(x)) /\ UNCHANGED kv /\ TypeInv'
          /\ UNCHANGED <<calls, reader>> /\ UNCHANGED ghosts
      BY <1>2, DoAppendReadIndex, NowGoes
    <2> QED BY <2>1, TurnKeeps, AgreeAll DEF Moves, ghosts
  <1>3. CASE AppendIndex
    <2>1. PICK v : /\ queue # <<>> /\ req.op \in {"append"} /\ Ends /\ TypeInv'
                   /\ UNCHANGED <<calls, reader, raced, latest, moved>>
                   /\ Set(EventIndex(req.owner, req.link), v)
      BY <1>3, DoAppendIndex
    <2>2. \A k : k[1] \notin EventKinds => Agree(k)
      BY <2>1, OnlyKinds, KindFacts
    <2> QED BY <2>1, <2>2, TurnKeeps DEF Moves
  <1>4. CASE AppendRepeated
    <2>1. /\ queue # <<>> /\ req.op \in {"append"} /\ Ends /\ TypeInv'
          /\ UNCHANGED <<kv, calls, reader, raced, latest, moved>>
      BY <1>4, DoAppendRepeated
    <2> QED BY <2>1, TurnKeeps, AgreeAll DEF Moves
  <1>5. CASE AppendRejected
    <2>1. /\ queue # <<>> /\ req.op \in {"append"} /\ Ends /\ TypeInv'
          /\ UNCHANGED <<kv, calls, reader>> /\ UNCHANGED ghosts
      BY <1>5, DoEnd
    <2> QED BY <2>1, TurnKeeps, AgreeAll DEF Moves, ghosts
  <1> QED BY <1>1, <1>2, <1>3, <1>4, <1>5 DEF EventTurn

LEMMA ListTurnMoves ==
    ASSUME TypeInv, ListRecord \/ ListReturn
    PROVE  /\ Moves({"list"}, {}) /\ TypeInv' /\ queue # <<>> /\ req.op = "list"
           /\ UNCHANGED <<kv, calls, reader>> /\ UNCHANGED ghosts
  <1>1. /\ queue # <<>> /\ req.op \in {"list"} /\ (Ends \/ \E x : Goes(x)) /\ TypeInv'
        /\ UNCHANGED <<kv, calls, reader>> /\ UNCHANGED ghosts
    BY DoListRecord, DoEnd, NowGoes
  <1> QED BY <1>1, TurnKeeps, AgreeAll DEF Moves, ghosts

LEMMA StartMoves ==
    ASSUME TypeInv, NEW r \in Requests, Start(r), NEW moving, r.op \in moving
    PROVE  Moves(moving, {}) /\ TypeInv' /\ UNCHANGED <<kv, latest, moved, acked, reader>>
  <1>1. PICK c : c = [req |-> r, by |-> calls + 1, pc |-> "read", seen |-> Get(FirstKey(r))]
    OBVIOUS
  <1>2. /\ queue' = Append(queue, c) /\ (\A a \in ToSet(queue) : a.by # c.by) /\ raced \subseteq raced'
        /\ TypeInv' /\ UNCHANGED <<kv, latest, moved, acked, reader>>
    BY <1>1, DoStart
  <1>3. c.req.op \in moving
    BY <1>1
  <1> QED BY <1>2, <1>3, StartKeeps, AgreeAll DEF Moves

LEMMA StartListMoves ==
    ASSUME TypeInv, NEW r \in ListRequests, StartList(r)
    PROVE  Moves({"list"}, {}) /\ TypeInv' /\ UNCHANGED <<kv, reader>> /\ UNCHANGED ghosts
  <1>1. PICK c : c = [req |-> r, by |-> calls + 1, pc |-> "list",
                     seen |-> [todo |-> Prefixed(r), out |-> {}, began |-> Answer(r)]]
    OBVIOUS
  <1>2. /\ queue' = Append(queue, c) /\ (\A a \in ToSet(queue) : a.by # c.by) /\ r.op = "list"
        /\ TypeInv' /\ UNCHANGED <<kv, reader>> /\ UNCHANGED ghosts
    BY <1>1, DoStartList
  <1>3. c.req.op \in {"list"}
    BY <1>1, <1>2
  <1> QED BY <1>2, <1>3, StartKeeps, AgreeAll DEF Moves, ghosts

(* Steps outside the calls: pages, key material and steps of others. *)
Outside == (\E limit \in Limits : PageBegin(limit)) \/ PageEnd \/ (\E o \in Owners : KeyCall(o)) \/ UNCHANGED vars

LEMMA OutsideMoves ==
    ASSUME TypeInv, Outside
    PROVE  /\ Moves({}, MaterialKinds) /\ TypeInv' /\ UNCHANGED <<queue, raced, latest, moved, acked>>
           /\ (PageEnd \/ \E limit \in Limits : PageBegin(limit)) \/ UNCHANGED reader
  <1>1. CASE \E limit \in Limits : PageBegin(limit)
    <2>1. TypeInv' /\ UNCHANGED <<kv, queue, raced, latest, moved, acked>>
      BY <1>1, DoPageBegin
    <2> QED BY <1>1, <2>1, SameQueue, AgreeAll DEF Moves
  <1>2. CASE PageEnd
    <2>1. TypeInv' /\ UNCHANGED <<kv, queue, raced, latest, moved, acked>>
      BY <1>2, DoPageEnd
    <2> QED BY <1>2, <2>1, SameQueue, AgreeAll DEF Moves
  <1>3. ASSUME NEW o \in Owners, KeyCall(o)
        PROVE  Moves({}, MaterialKinds) /\ TypeInv' /\ UNCHANGED <<queue, raced, latest, moved, acked, reader>>
    <2>1. /\ TypeInv' /\ UNCHANGED <<queue, raced, latest, moved, acked, reader>>
      BY <1>3, DoKeyCall
    <2>2. PICK k \in MaterialKeys : (\E v : Set(k, v)) \/ Delete(k)
      BY <1>3, DoKeyCall
    <2>3. k[1] \in MaterialKinds
      BY KeyFacts DEF MaterialKeys, MaterialKinds
    <2>4. \A j : j # k => Agree(j)
      BY <2>2, SetFacts, DeleteFacts
    <2> QED BY <2>1, <2>3, <2>4, SameQueue DEF Moves
  <1>4. CASE UNCHANGED vars
    <2>1. TypeInv' /\ UNCHANGED <<kv, queue, raced, latest, moved, acked, reader>>
      BY <1>4 DEF vars, ghosts, TypeInv
    <2> QED BY <2>1, SameQueue, AgreeAll DEF Moves
  <1> QED BY <1>1, <1>2, <1>3, <1>4 DEF Outside

(* Every step is one of a call of one of the stores, or outside them. *)
LEMMA StepCases ==
    ASSUME [Next]_vars
    PROVE  \/ LinkTurn \/ SessionTurn \/ AttemptTurn \/ EventTurn \/ ListRecord \/ ListReturn
           \/ (\E r \in Requests : Start(r)) \/ (\E r \in ListRequests : StartList(r)) \/ Outside
  BY DEF Next, Turn, Page, Outside

LEMMA TypeStep == ASSUME TypeInv, [Next]_vars PROVE TypeInv' /\ raced \subseteq raced'
  <1>1. CASE LinkTurn
    BY <1>1, LinkTurnMoves DEF Moves
  <1>2. CASE SessionTurn
    BY <1>2, SessionTurnMoves DEF Moves
  <1>3. CASE AttemptTurn
    BY <1>3, AttemptTurnMoves DEF Moves
  <1>4. CASE EventTurn
    BY <1>4, EventTurnMoves DEF Moves
  <1>5. CASE ListRecord \/ ListReturn
    BY <1>5, ListTurnMoves DEF Moves
  <1>6. ASSUME NEW r \in Requests, Start(r) PROVE TypeInv' /\ raced \subseteq raced'
    <2>1. r.op \in {r.op}
      OBVIOUS
    <2> QED BY <1>6, <2>1, StartMoves DEF Moves
  <1>7. CASE \E r \in ListRequests : StartList(r)
    BY <1>7, StartListMoves DEF Moves
  <1>8. CASE Outside
    BY <1>8, OutsideMoves DEF Moves
  <1> QED BY <1>1, <1>2, <1>3, <1>4, <1>5, <1>6, <1>7, <1>8, StepCases

LEMMA TypesHold == ASSUME TypeInv PROVE TypeOK
  <1>1. ASSUME NEW k \in DOMAIN kv PROVE Fits(k, kv[k])
    BY DEF TypeInv, StoreOK
  <1>2. DOMAIN kv \subseteq StoreKeys
    BY <1>1 DEF Fits
  <1>3. ASSUME NEW k \in DOMAIN kv \cap RecordKeys PROVE kv[k].version \in Nat \ {0} /\ kv[k].by \in 1 .. MaxCalls
    <2>1. k[1] \in {"records", "sessions", "handshakes"}
      BY KeyFacts DEF RecordKeys
    <2>2. kv[k] \in LinkRecs \/ kv[k] \in SessionRecs
      BY <1>1, <2>1 DEF Fits
    <2> QED BY <2>2 DEF LinkRecs, SessionRecs
  <1>4. ASSUME NEW i \in DOMAIN queue
        PROVE  \/ /\ queue[i].req \in Requests
                  /\ queue[i].pc \in {"read", "pair", "index", "deleted", "written"}
               \/ queue[i].req \in ListRequests /\ queue[i].pc = "list"
    <2>1. PICK c : c = queue[i]
      OBVIOUS
    <2>2. c \in ToSet(queue)
      BY <2>1 DEF ToSet
    <2>3. CallOK(c)
      BY <2>2 DEF TypeInv
    <2>4. PICK r : r = c.req /\ r \in Requests \cup ListRequests
      BY <2>3 DEF CallOK
    <2>5. CASE r.op = "list"
      <3>1. r \in ListRequests
        BY <2>4, <2>5, RequestFacts
      <3> QED BY <2>1, <2>3, <2>4, <2>5, <3>1 DEF CallOK
    <2>6. CASE r.op # "list"
      <3>1. r \in Requests
        BY <2>4, <2>6, RequestFacts
      <3>2. r.op \in {"createLink", "updateLink", "putSession", "deleteSession", "createAttempt",
                      "updateAttempt", "append"}
        BY <2>4, <2>6, RequestFacts
      <3>3. c.pc \in {"read", "pair", "index", "deleted", "written"}
        BY <2>3, <2>4, <3>2 DEF CallOK
      <3> QED BY <2>1, <2>4, <3>1, <3>3
    <2> QED BY <2>5, <2>6
  <1>5. calls \in 0 .. MaxCalls /\ Len(queue) <= calls
    BY DEF TypeInv
  <1> QED BY <1>2, <1>3, <1>4, <1>5 DEF TypeOK, StoreKeys, MaterialKeys

----------------------------------------------------------------------------
(* What an undecided call has read still stands, unless its key was raced.  *)

VersInv ==
    /\ \A c \in ToSet(queue) : FirstKey(c.req) \notin raced =>
          /\ c.pc = "read" => c.seen = Get(FirstKey(c.req))
          /\ c.pc = "pair" => Get(FirstKey(c.req)) = <<>>
    /\ \A a, b \in ToSet(queue) :
          (a # b /\ Undecided(a) /\ Undecided(b) /\ FirstKey(a.req) = FirstKey(b.req))
              => FirstKey(a.req) \in raced

FirstKinds == {"records", "sessions", "handshakes", "events"}

(* A turn writes the key that its call read first while it is undecided. *)
TurnShape ==
    /\ queue # <<>> /\ UNCHANGED raced
    /\ \/ Ends
       \/ \E x : /\ Goes(x) /\ x.pc # "read"
                 /\ x.pc = "pair" => UNCHANGED kv /\ cur.pc = "read" /\ cur.seen = <<>>
    /\ \A k : k[1] \in FirstKinds => Agree(k) \/ (k = FirstKey(req) /\ Undecided(cur))

LEMMA UndecidedFacts ==
    ASSUME TypeInv, NEW c \in ToSet(queue), Undecided(c)
    PROVE  c.req \in Requests /\ FirstKey(c.req)[1] \in FirstKinds
  <1>1. CallOK(c)
    BY DEF TypeInv
  <1>2. PICK r : r = c.req /\ r \in Requests \cup ListRequests
    BY <1>1 DEF CallOK
  <1>3. r.op # "list"
    BY <1>1, <1>2 DEF CallOK, Undecided
  <1>4. r \in Requests
    BY <1>2, <1>3, RequestFacts
  <1>5. r.op \in {"createLink", "updateLink", "putSession", "deleteSession", "createAttempt",
                  "updateAttempt", "append"}
    BY <1>2, <1>3, RequestFacts
  <1>6. FirstKey(r)[1] \in FirstKinds
    BY <1>4, <1>5, FirstKeyFacts, KeyFacts DEF FirstKinds
  <1> QED BY <1>2, <1>4, <1>6

LEMMA VersTurn == ASSUME TypeInv, VersInv, TurnShape PROVE VersInv'
  <1>1. PICK S : S = ToSet(queue) \ {cur}
    OBVIOUS
  <1>2. /\ cur \in ToSet(queue) /\ raced' = raced /\ queue # <<>>
        /\ \/ ToSet(queue') = S
           \/ \E x : /\ ToSet(queue') = S \cup {x} /\ x.pc # "read" /\ x.req = cur.req
                     /\ x.pc = "pair" => UNCHANGED kv /\ cur.pc = "read" /\ cur.seen = <<>>
    <2>1. queue # <<>> /\ cur \in ToSet(queue) /\ raced' = raced
      BY HeadFacts DEF TurnShape
    <2>2. CASE Ends
      BY <1>1, <2>1, <2>2, EndsFacts
    <2>3. ASSUME NEW x, Goes(x), x.pc # "read",
                 x.pc = "pair" => UNCHANGED kv /\ cur.pc = "read" /\ cur.seen = <<>>
          PROVE  /\ ToSet(queue') = S \cup {x} /\ x.pc # "read" /\ x.req = cur.req
                 /\ x.pc = "pair" => UNCHANGED kv /\ cur.pc = "read" /\ cur.seen = <<>>
      BY <1>1, <2>1, <2>3, GoesFacts DEF Goes, req
    <2> QED BY <2>1, <2>2, <2>3 DEF TurnShape
  <1>3. ASSUME NEW c \in S, Undecided(c), FirstKey(c.req) \notin raced
        PROVE  Get(FirstKey(c.req))' = Get(FirstKey(c.req))
    <2>1. PICK k : k = FirstKey(c.req) /\ k[1] \in FirstKinds
      BY <1>1, <1>3, UndecidedFacts
    <2>2. Agree(k) \/ (k = FirstKey(cur.req) /\ Undecided(cur))
      BY <2>1 DEF TurnShape, req
    <2>3. ~(k = FirstKey(cur.req) /\ Undecided(cur))
      BY <1>1, <1>2, <1>3, <2>1 DEF VersInv
    <2>4. Get(k)' = Get(k)
      BY <2>2, <2>3, AgreeGet
    <2> QED BY <2>1, <2>4 DEF Get
  <1>4. ASSUME NEW c \in ToSet(queue'), FirstKey(c.req) \notin raced
        PROVE  /\ c.pc = "read" => c.seen = Get(FirstKey(c.req))'
               /\ c.pc = "pair" => Get(FirstKey(c.req))' = <<>>
    <2>1. CASE c \in S
      BY <1>1, <1>3, <1>4, <2>1 DEF VersInv, Undecided
    <2>2. CASE c \notin S
      <3>1. c.pc # "read" /\ c.req = cur.req /\ (c.pc = "pair" => UNCHANGED kv /\ cur.pc = "read" /\ cur.seen = <<>>)
        BY <1>2, <1>4, <2>2
      <3>2. c.pc = "pair" => Get(FirstKey(c.req)) = <<>> /\ UNCHANGED kv
        BY <1>2, <1>4, <3>1 DEF VersInv
      <3> QED BY <3>1, <3>2 DEF Get
    <2> QED BY <2>1, <2>2
  <1>5. ASSUME NEW a \in ToSet(queue'), NEW b \in ToSet(queue'), a # b, Undecided(a), Undecided(b),
               FirstKey(a.req) = FirstKey(b.req)
        PROVE  FirstKey(a.req) \in raced
    <2>1. \A c \in ToSet(queue') : c \notin S /\ Undecided(c) => Undecided(cur) /\ c.req = cur.req
      BY <1>2 DEF Undecided
    <2>2. CASE a \in S /\ b \in S
      BY <1>1, <1>5, <2>2 DEF VersInv
    <2>3. CASE a \in S /\ b \notin S
      BY <1>1, <1>2, <1>5, <2>1, <2>3 DEF VersInv
    <2>4. CASE a \notin S /\ b \in S
      BY <1>1, <1>2, <1>5, <2>1, <2>4 DEF VersInv
    <2>5. CASE a \notin S /\ b \notin S
      BY <1>2, <1>5, <2>5
    <2> QED BY <2>2, <2>3, <2>4, <2>5
  <1>6. \A c \in ToSet(queue') : FirstKey(c.req) \notin raced =>
               /\ c.pc = "read" => c.seen = Get(FirstKey(c.req))'
               /\ c.pc = "pair" => Get(FirstKey(c.req))' = <<>>
    BY <1>4
  <1>7. \A a, b \in ToSet(queue') :
          (a # b /\ Undecided(a) /\ Undecided(b) /\ FirstKey(a.req) = FirstKey(b.req))
              => FirstKey(a.req) \in raced
    BY <1>5
  <1> QED BY <1>2, <1>6, <1>7 DEF VersInv

LEMMA ShapeFacts ==
    /\ LinkOps \cup SessionOps \cup AttemptOps \cup {"append"} \subseteq Ops
    /\ \A a, b : /\ Link(a, b)[1] \in FirstKinds /\ Session(a, b)[1] \in FirstKinds
                 /\ Attempt(a, b)[1] \in FirstKinds /\ Event(a, b)[1] \in FirstKinds
                 /\ Pair(a, b)[1] \notin FirstKinds /\ SessionIndex(a, b)[1] \notin FirstKinds
                 /\ EventIndex(a, b)[1] \notin FirstKinds
  BY KeyFacts DEF FirstKinds, Ops

(* A turn that writes, or deletes, the key k. *)
LEMMA ShapeWrite ==
    ASSUME TypeInv, queue # <<>>, UNCHANGED raced, Ends \/ \E x : Goes(x) /\ x.pc \notin {"read", "pair"},
           NEW k, (\E v : Set(k, v)) \/ Delete(k),
           k[1] \notin FirstKinds \/ (k = FirstKey(req) /\ Undecided(cur))
    PROVE  TurnShape
  <1>1. \A j : j # k => Agree(j)
    BY SetFacts, DeleteFacts
  <1> QED BY <1>1 DEF TurnShape

LEMMA ShapeQuiet ==
    ASSUME TypeInv, queue # <<>>, UNCHANGED raced, UNCHANGED kv,
           \/ Ends
           \/ \E x : Goes(x) /\ x.pc # "read" /\ (x.pc = "pair" => cur.pc = "read" /\ cur.seen = <<>>)
    PROVE  TurnShape
  BY AgreeAll DEF TurnShape

LEMMA ReqFacts ==
    ASSUME TypeInv, queue # <<>>
    PROVE  /\ req.op \in LinkOps => FirstKey(req) = Link(req.owner, req.link)
           /\ req.op \in SessionOps => FirstKey(req) = Session(req.owner, req.session)
           /\ req.op \in AttemptOps => FirstKey(req) = Attempt(req.owner, req.attempt)
           /\ req.op = "append" => FirstKey(req) = Event(req.owner, req.event)
  <1>1. req \in Requests \cup ListRequests
    BY HeadFacts
  <1>2. req.op # "list" => req \in Requests
    BY <1>1, RequestFacts
  <1> QED BY <1>2, FirstKeyFacts DEF LinkOps, SessionOps, AttemptOps

LEMMA LinkShape == ASSUME TypeInv, LinkTurn PROVE TurnShape
  <1>1. CASE CreateLinkRead
    <2>1. PICK x : x = Now("pair", Get(Pair(req.owner, req.peer)))
      OBVIOUS
    <2>2. /\ queue # <<>> /\ UNCHANGED kv /\ UNCHANGED raced /\ cur.pc = "read" /\ cur.seen = <<>> /\ Awaits(x)
      BY <1>1, <2>1, DoCreateLinkRead DEF ghosts
    <2>3. Goes(x) /\ x.pc = "pair"
      BY <2>1, <2>2, NowGoes, NowFacts
    <2> QED BY <2>2, <2>3, ShapeQuiet
  <1>2. CASE CreateLinkWrite \/ UpdateLinkWrite
    <2>1. PICK x : x = Now("index", <<>>)
      OBVIOUS
    <2>2. /\ queue # <<>> /\ UNCHANGED raced /\ Awaits(x) /\ req.op \in LinkOps /\ Undecided(cur)
          /\ \E v : Set(Link(req.owner, req.link), v)
      BY <1>2, <2>1, DoCreateLinkWrite, DoUpdateLinkWrite DEF ghosts, LinkOps, Undecided
    <2>3. Goes(x) /\ x.pc = "index"
      BY <2>1, <2>2, NowGoes, NowFacts
    <2>4. FirstKey(req) = Link(req.owner, req.link)
      BY <2>2, ReqFacts
    <2> QED BY <2>2, <2>3, <2>4, ShapeWrite
  <1>3. CASE LinkIndexWrite
    <2>1. queue # <<>> /\ UNCHANGED raced /\ Ends /\ \E v : Set(Pair(req.owner, req.peer), v)
      BY <1>3, DoLinkIndexWrite DEF ghosts
    <2> QED BY <2>1, ShapeFacts, ShapeWrite
  <1>4. CASE LinkRejected
    BY <1>4, DoEnd, ShapeQuiet DEF ghosts
  <1> QED BY <1>1, <1>2, <1>3, <1>4 DEF LinkTurn

LEMMA SessionShape == ASSUME TypeInv, SessionTurn PROVE TurnShape
  <1>1. CASE PutSessionWrite
    <2>1. PICK x : x = Now("index", <<>>)
      OBVIOUS
    <2>2. /\ queue # <<>> /\ UNCHANGED raced /\ Awaits(x) /\ req.op \in SessionOps /\ Undecided(cur)
          /\ \E v : Set(Session(req.owner, req.session), v)
      BY <1>1, <2>1, DoPutSessionWrite DEF ghosts, SessionOps, Undecided
    <2>3. Goes(x) /\ x.pc = "index"
      BY <2>1, <2>2, NowGoes, NowFacts
    <2>4. FirstKey(req) = Session(req.owner, req.session)
      BY <2>2, ReqFacts
    <2> QED BY <2>2, <2>3, <2>4, ShapeWrite
  <1>2. CASE PutSessionIndex
    <2>1. queue # <<>> /\ UNCHANGED raced /\ Ends /\ \E v : Set(SessionIndex(req.owner, req.link), v)
      BY <1>2, DoPutSessionIndex
    <2> QED BY <2>1, ShapeFacts, ShapeWrite
  <1>3. CASE DeleteSessionRecord
    <2>1. PICK x : x = Now("deleted", cur.seen)
      OBVIOUS
    <2>2. /\ queue # <<>> /\ UNCHANGED raced /\ (Ends \/ Awaits(x)) /\ req.op \in SessionOps /\ Undecided(cur)
          /\ Delete(Session(req.owner, req.session))
      BY <1>3, <2>1, DoDeleteSessionRecord DEF SessionOps, Undecided
    <2>3. Awaits(x) => Goes(x) /\ x.pc = "deleted"
      BY <2>1, <2>2, NowGoes, NowFacts
    <2>4. FirstKey(req) = Session(req.owner, req.session)
      BY <2>2, ReqFacts
    <2> QED BY <2>2, <2>3, <2>4, ShapeWrite
  <1>4. CASE DeleteSessionReadIndex
    <2>1. PICK y : Awaits(Now("index", y))
      BY <1>4, DoDeleteSessionReadIndex
    <2>2. PICK x : x = Now("index", y)
      OBVIOUS
    <2>3. queue # <<>> /\ UNCHANGED kv /\ UNCHANGED raced
      BY <1>4, DoDeleteSessionReadIndex DEF ghosts
    <2>4. Goes(x) /\ x.pc = "index"
      BY <2>1, <2>2, <2>3, NowGoes, NowFacts
    <2> QED BY <2>3, <2>4, ShapeQuiet
  <1>5. CASE DeleteSessionIndex
    <2>1. queue # <<>> /\ UNCHANGED raced /\ Ends /\ \E l : Delete(SessionIndex(req.owner, l))
      BY <1>5, DoDeleteSessionIndex DEF ghosts
    <2> QED BY <2>1, ShapeFacts, ShapeWrite
  <1>6. CASE SessionEnded
    BY <1>6, DoEnd, ShapeQuiet DEF ghosts
  <1> QED BY <1>1, <1>2, <1>3, <1>4, <1>5, <1>6 DEF SessionTurn

LEMMA AttemptShape == ASSUME TypeInv, AttemptTurn PROVE TurnShape
  <1>1. CASE CreateAttempt \/ UpdateAttempt
    <2>1. /\ queue # <<>> /\ UNCHANGED raced /\ Ends /\ req.op \in AttemptOps /\ Undecided(cur)
          /\ \E v : Set(Attempt(req.owner, req.attempt), v)
      BY <1>1, DoAttempt DEF ghosts, AttemptOps, Undecided
    <2>2. FirstKey(req) = Attempt(req.owner, req.attempt)
      BY <2>1, ReqFacts
    <2> QED BY <2>1, <2>2, ShapeWrite
  <1>2. CASE AttemptRejected
    BY <1>2, DoEnd, ShapeQuiet DEF ghosts
  <1> QED BY <1>1, <1>2 DEF AttemptTurn

LEMMA EventShape == ASSUME TypeInv, EventTurn PROVE TurnShape
  <1>1. CASE AppendWrite
    <2>1. PICK x : x = Now("written", <<>>)
      OBVIOUS
    <2>2. /\ queue # <<>> /\ UNCHANGED raced /\ Awaits(x) /\ req.op = "append" /\ Undecided(cur)
          /\ \E v : Set(Event(req.owner, req.event), v)
      BY <1>1, <2>1, DoAppendWrite DEF ghosts, Undecided
    <2>3. Goes(x) /\ x.pc = "written"
      BY <2>1, <2>2, NowGoes, NowFacts
    <2>4. FirstKey(req) = Event(req.owner, req.event)
      BY <2>2, ReqFacts
    <2> QED BY <2>2, <2>3, <2>4, ShapeWrite
  <1>2. CASE AppendReadIndex
    <2>1. PICK x : x = Now("index", Get(EventIndex(req.owner, req.link)))
      OBVIOUS
    <2>2. queue # <<>> /\ UNCHANGED kv /\ UNCHANGED raced /\ Awaits(x)
      BY <1>2, <2>1, DoAppendReadIndex DEF ghosts
    <2>3. Goes(x) /\ x.pc = "index"
      BY <2>1, <2>2, NowGoes, NowFacts
    <2> QED BY <2>2, <2>3, ShapeQuiet
  <1>3. CASE AppendIndex
    <2>1. queue # <<>> /\ UNCHANGED raced /\ Ends /\ \E v : Set(EventIndex(req.owner, req.link), v)
      BY <1>3, DoAppendIndex
    <2> QED BY <2>1, ShapeFacts, ShapeWrite
  <1>4. CASE AppendRepeated
    BY <1>4, DoAppendRepeated, ShapeQuiet
  <1>5. CASE AppendRejected
    BY <1>5, DoEnd, ShapeQuiet DEF ghosts
  <1> QED BY <1>1, <1>2, <1>3, <1>4, <1>5 DEF EventTurn

LEMMA ListShape == ASSUME TypeInv, ListRecord \/ ListReturn PROVE TurnShape
  <1>1. CASE ListRecord
    <2>1. PICK y : Awaits(Now("list", y))
      BY <1>1, DoListRecord
    <2>2. PICK x : x = Now("list", y)
      OBVIOUS
    <2>3. queue # <<>> /\ UNCHANGED kv /\ UNCHANGED raced
      BY <1>1, DoListRecord DEF ghosts
    <2>4. Goes(x) /\ x.pc = "list"
      BY <2>1, <2>2, <2>3, NowGoes, NowFacts
    <2> QED BY <2>3, <2>4, ShapeQuiet
  <1>2. CASE ListReturn
    BY <1>2, DoEnd, ShapeQuiet DEF ghosts
  <1> QED BY <1>1, <1>2

LEMMA VersStart ==
    ASSUME TypeInv, VersInv, NEW r \in Requests, Start(r)
    PROVE  VersInv'
  <1>1. PICK c : c = [req |-> r, by |-> calls + 1, pc |-> "read", seen |-> Get(FirstKey(r))]
    OBVIOUS
  <1>2. /\ queue' = Append(queue, c) /\ (\A a \in ToSet(queue) : a.by # c.by)
        /\ raced \subseteq raced' /\ UNCHANGED kv
        /\ \A a \in ToSet(queue) : Undecided(a) => Touched(r, c.seen) \cap Touched(a.req, a.seen) \subseteq raced'
    BY <1>1, DoStart
  <1>3. ToSet(queue') = ToSet(queue) \cup {c} /\ c.req = r /\ c.pc = "read" /\ c.seen = Get(FirstKey(r))
    BY <1>1, <1>2, StartFacts
  <1>4. \A q, s : FirstKey(q) \in Touched(q, s)
    BY DEF Touched
  <1>5. \A a \in ToSet(queue) : Undecided(a) /\ FirstKey(a.req) = FirstKey(r) => FirstKey(r) \in raced'
    BY <1>2, <1>4
  <1>6. \A k : Get(k)' = Get(k)
    BY <1>2 DEF Get
  <1>7. \A a \in ToSet(queue') : FirstKey(a.req) \notin raced' =>
          /\ a.pc = "read" => a.seen = Get(FirstKey(a.req))
          /\ a.pc = "pair" => Get(FirstKey(a.req)) = <<>>
    BY <1>2, <1>3 DEF VersInv
  <1>8. \A a, b \in ToSet(queue') :
          (a # b /\ Undecided(a) /\ Undecided(b) /\ FirstKey(a.req) = FirstKey(b.req))
              => FirstKey(a.req) \in raced'
    BY <1>2, <1>3, <1>5 DEF VersInv
  <1>9. \A a \in ToSet(queue') : FirstKey(a.req) \notin raced' =>
          /\ a.pc = "read" => a.seen = Get(FirstKey(a.req))'
          /\ a.pc = "pair" => Get(FirstKey(a.req))' = <<>>
    BY <1>6, <1>7
  <1> QED BY <1>8, <1>9 DEF VersInv

LEMMA VersStep == ASSUME TypeInv, VersInv, [Next]_vars PROVE VersInv'
  <1>1. CASE LinkTurn \/ SessionTurn \/ AttemptTurn \/ EventTurn \/ ListRecord \/ ListReturn
    BY <1>1, LinkShape, SessionShape, AttemptShape, EventShape, ListShape, VersTurn
  <1>2. CASE \E r \in Requests : Start(r)
    BY <1>2, VersStart
  <1>3. ASSUME NEW r \in ListRequests, StartList(r) PROVE VersInv'
    <2>1. PICK c : c = [req |-> r, by |-> calls + 1, pc |-> "list",
                        seen |-> [todo |-> Prefixed(r), out |-> {}, began |-> Answer(r)]]
      OBVIOUS
    <2>2. /\ queue' = Append(queue, c) /\ (\A a \in ToSet(queue) : a.by # c.by)
          /\ UNCHANGED raced /\ UNCHANGED kv
      BY <1>3, <2>1, DoStartList DEF ghosts
    <2>3. ToSet(queue') = ToSet(queue) \cup {c} /\ c.pc = "list"
      BY <2>1, <2>2, StartFacts
    <2>4. \A k : Get(k)' = Get(k)
      BY <2>2 DEF Get
    <2>5. \A a \in ToSet(queue') : FirstKey(a.req) \notin raced' =>
            /\ a.pc = "read" => a.seen = Get(FirstKey(a.req))
            /\ a.pc = "pair" => Get(FirstKey(a.req)) = <<>>
      BY <2>2, <2>3 DEF VersInv
    <2>6. \A a, b \in ToSet(queue') :
            (a # b /\ Undecided(a) /\ Undecided(b) /\ FirstKey(a.req) = FirstKey(b.req))
                => FirstKey(a.req) \in raced'
      BY <2>2, <2>3 DEF VersInv, Undecided
    <2>7. \A a \in ToSet(queue') : FirstKey(a.req) \notin raced' =>
          /\ a.pc = "read" => a.seen = Get(FirstKey(a.req))'
          /\ a.pc = "pair" => Get(FirstKey(a.req))' = <<>>
      BY <2>4, <2>5
    <2> QED BY <2>6, <2>7 DEF VersInv
  <1>4. CASE Outside
    <2>1. UNCHANGED <<queue, raced>> /\ \A k : k[1] \notin MaterialKinds => Agree(k)
      BY <1>4, OutsideMoves DEF Moves
    <2>2. \A k : k[1] \in FirstKinds => Get(k)' = Get(k)
      BY <2>1, AgreeGet DEF FirstKinds, MaterialKinds
    <2>3. \A c \in ToSet(queue) : Undecided(c) => Get(FirstKey(c.req))' = Get(FirstKey(c.req))
      <3> SUFFICES ASSUME NEW c \in ToSet(queue), Undecided(c) PROVE Get(FirstKey(c.req))' = Get(FirstKey(c.req))
        OBVIOUS
      <3>1. PICK k : k = FirstKey(c.req) /\ k[1] \in FirstKinds
        BY UndecidedFacts
      <3>2. Get(k)' = Get(k)
        BY <2>2, <3>1
      <3> QED BY <3>1, <3>2 DEF Get
    <2>4. \A c \in ToSet(queue) : FirstKey(c.req) \notin raced =>
          /\ c.pc = "read" => c.seen = Get(FirstKey(c.req))'
          /\ c.pc = "pair" => Get(FirstKey(c.req))' = <<>>
      BY <2>3 DEF VersInv, Undecided
    <2> QED BY <2>1, <2>4 DEF VersInv
  <1> QED BY <1>1, <1>2, <1>3, <1>4, StepCases

----------------------------------------------------------------------------
(* The records are an atomic versioned store.                              *)

LEMMA RefineQuiet ==
    ASSUME \A k \in RecordKeys : Agree(k), raced \subseteq raced'
    PROVE  Versioned!Next
  <1>1. PICK R, Q : /\ R = [k \in DOMAIN kv \cap RecordKeys |-> kv[k]]
                    /\ Q = [k \in DOMAIN kv' \cap RecordKeys |-> kv'[k]]
    OBVIOUS
  <1>2. DOMAIN kv \cap RecordKeys = DOMAIN kv' \cap RecordKeys
    BY DEF Agree
  <1>3. Q = R
    BY <1>1, <1>2 DEF Agree
  <1>4. raced \cap RecordKeys \subseteq raced' \cap RecordKeys /\ raced' \cap RecordKeys \subseteq RecordKeys
    OBVIOUS
  <1>5. Versioned!Contest
    BY <1>1, <1>3, <1>4 DEF Versioned!Contest
  <1> QED BY <1>5 DEF Versioned!Next

LEMMA RefineWrite ==
    ASSUME NEW k \in RecordKeys, NEW v, Set(k, v), UNCHANGED raced,
           \/ k \in raced
           \/ k \notin DOMAIN kv /\ v.version >= 1
           \/ k \in DOMAIN kv /\ v.version = kv[k].version + 1
    PROVE  Versioned!Next
  <1>1. PICK R, Q : /\ R = [j \in DOMAIN kv \cap RecordKeys |-> kv[j]]
                    /\ Q = [j \in DOMAIN kv' \cap RecordKeys |-> kv'[j]]
    OBVIOUS
  <1>2. DOMAIN kv' = DOMAIN kv \cup {k} /\ kv'[k] = v /\ \A j : j # k => Agree(j)
    BY SetFacts
  <1>3. /\ DOMAIN R = DOMAIN kv \cap RecordKeys /\ DOMAIN Q = DOMAIN kv' \cap RecordKeys
        /\ \A j \in DOMAIN R : R[j] = kv[j] /\ \A i \in DOMAIN Q : Q[i] = kv'[i]
    BY <1>1
  <1>4. DOMAIN Q \ {k} = DOMAIN R \ {k} /\ (\A j \in DOMAIN R \ {k} : Q[j] = R[j]) /\ k \in DOMAIN Q /\ Q[k] = v
    BY <1>1, <1>2 DEF Agree
  <1>5. Versioned!OnlyAt(k) /\ raced' \cap RecordKeys = raced \cap RecordKeys
    BY <1>1, <1>4 DEF Versioned!OnlyAt
  <1>6. CASE k \in raced
    <2>1. Versioned!Overwrite(k)
      BY <1>5, <1>6 DEF Versioned!Overwrite
    <2> QED BY <2>1 DEF Versioned!Next
  <1>7. CASE k \notin DOMAIN kv /\ v.version >= 1
    <2>1. k \notin DOMAIN R /\ Q[k].version >= 1
      BY <1>3, <1>4, <1>7
    <2>2. Versioned!Create(k)
      BY <1>1, <1>4, <1>5, <2>1 DEF Versioned!Create
    <2> QED BY <2>2 DEF Versioned!Next
  <1>8. CASE k \in DOMAIN kv /\ v.version = kv[k].version + 1
    <2>1. k \in DOMAIN R /\ R[k] = kv[k]
      BY <1>1, <1>8
    <2>2. Q[k].version = R[k].version + 1
      BY <1>4, <1>8, <2>1
    <2>3. Versioned!Replace(k)
      BY <1>1, <1>4, <1>5, <2>1, <2>2 DEF Versioned!Replace
    <2> QED BY <2>3 DEF Versioned!Next
  <1> QED BY <1>6, <1>7, <1>8

LEMMA RefineDelete ==
    ASSUME NEW k \in RecordKeys, k \in DOMAIN kv, Delete(k), UNCHANGED raced
    PROVE  Versioned!Next
  <1>1. PICK R, Q : /\ R = [j \in DOMAIN kv \cap RecordKeys |-> kv[j]]
                    /\ Q = [j \in DOMAIN kv' \cap RecordKeys |-> kv'[j]]
    OBVIOUS
  <1>2. DOMAIN kv' = DOMAIN kv \ {k} /\ \A j : j # k => Agree(j)
    BY DeleteFacts
  <1>3. DOMAIN Q \ {k} = DOMAIN R \ {k} /\ (\A j \in DOMAIN R \ {k} : Q[j] = R[j])
        /\ k \in DOMAIN R /\ k \notin DOMAIN Q
    BY <1>1, <1>2 DEF Agree
  <1>4. Versioned!OnlyAt(k) /\ raced' \cap RecordKeys = raced \cap RecordKeys
    BY <1>1, <1>3 DEF Versioned!OnlyAt
  <1>5. Versioned!Delete(k)
    BY <1>1, <1>3, <1>4 DEF Versioned!Delete
  <1> QED BY <1>5 DEF Versioned!Next

(* A write of the record that follows what the call has read. *)
LEMMA RefineFollows ==
    ASSUME TypeInv, VersInv, queue # <<>>, UNCHANGED raced, cur.pc = "read",
           cur.seen \in Opt(LinkRecs) \cup Opt(SessionRecs),
           NEW k \in RecordKeys, k = FirstKey(req), NEW v, Set(k, v), Follows(v)
    PROVE  Versioned!Next
  <1>1. k \notin raced => cur.seen = Get(k)
    BY HeadFacts DEF VersInv, req
  <1>2. CASE k \in raced
    BY <1>2, RefineWrite
  <1>3. CASE k \notin raced /\ k \notin DOMAIN kv
    <2>1. v.version >= 1
      BY <1>1, <1>3 DEF Get, Follows
    <2> QED BY <1>3, <2>1, RefineWrite
  <1>4. CASE k \notin raced /\ k \in DOMAIN kv
    <2>1. cur.seen = <<kv[k]>>
      BY <1>1, <1>4 DEF Get
    <2>2. v.version = kv[k].version + 1
      BY <2>1 DEF Follows
    <2> QED BY <1>4, <2>2, RefineWrite
  <1> QED BY <1>2, <1>3, <1>4

LEMMA RecordKinds == \A k \in RecordKeys : k[1] \in {"records", "sessions", "handshakes"}
  BY KeyFacts DEF RecordKeys

LEMMA RefineOther ==
    ASSUME NEW k, k \notin RecordKeys, (\E v : Set(k, v)) \/ Delete(k), UNCHANGED raced
    PROVE  Versioned!Next
  <1>1. \A j \in RecordKeys : Agree(j)
    BY SetFacts, DeleteFacts
  <1> QED BY <1>1, RefineQuiet

LEMMA RefineLinks == ASSUME TypeInv, VersInv, LinkTurn PROVE Versioned!Next
  <1>1. CASE CreateLinkRead \/ LinkRejected
    <2>1. UNCHANGED kv /\ UNCHANGED raced
      BY <1>1, DoCreateLinkRead, DoEnd DEF ghosts
    <2> QED BY <2>1, AgreeAll, RefineQuiet
  <1>2. CASE CreateLinkWrite
    <2>1. PICK k, v : /\ k = Link(req.owner, req.link) /\ Set(k, v) /\ v.version >= 1
                      /\ queue # <<>> /\ cur.pc = "pair" /\ req.op \in LinkOps /\ UNCHANGED raced
                      /\ k \in RecordKeys
      BY <1>2, DoCreateLinkWrite, RecordKeyFacts DEF ghosts, LinkOps
    <2>2. k = FirstKey(req)
      BY <2>1, ReqFacts
    <2>3. k \notin raced => k \notin DOMAIN kv
      <3>1. k \notin raced => Get(k) = <<>>
        BY <2>1, <2>2, HeadFacts DEF VersInv, req
      <3> QED BY <3>1, GetFacts DEF TypeInv
    <2> QED BY <2>1, <2>3, RefineWrite
  <1>3. CASE UpdateLinkWrite
    <2>1. PICK v \in LinkRecs, r \in LinkRecs :
             /\ Set(Link(req.owner, req.link), v)
             /\ cur.seen = <<r>> /\ v.by = cur.by /\ v.version = r.version + 1
      BY <1>3, DoUpdateLinkWrite
    <2>2. /\ queue # <<>> /\ cur.pc = "read" /\ req.op \in LinkOps /\ UNCHANGED raced
          /\ Link(req.owner, req.link) \in RecordKeys
      BY <1>3, DoUpdateLinkWrite, RecordKeyFacts DEF ghosts, LinkOps
    <2>3. PICK k : k = Link(req.owner, req.link) /\ k = FirstKey(req)
      BY <2>2, ReqFacts
    <2>4. Follows(v)
      BY <2>1 DEF Follows
    <2>5. cur.seen \in Opt(LinkRecs) \cup Opt(SessionRecs)
      BY <2>1 DEF Opt
    <2> QED BY <2>1, <2>2, <2>3, <2>4, <2>5, RefineFollows
  <1>4. CASE LinkIndexWrite
    <2>1. Set(Pair(req.owner, req.peer), req.link) /\ UNCHANGED raced
      BY <1>4, DoLinkIndexWrite DEF ghosts
    <2> QED BY <2>1, RecordKeyFacts, RefineOther
  <1> QED BY <1>1, <1>2, <1>3, <1>4 DEF LinkTurn

LEMMA RefineSessions == ASSUME TypeInv, VersInv, SessionTurn PROVE Versioned!Next
  <1>1. CASE PutSessionWrite
    <2>1. PICK k, v : /\ k = Session(req.owner, req.session) /\ Set(k, v) /\ Follows(v)
                      /\ queue # <<>> /\ cur.pc = "read" /\ req.op \in SessionOps /\ UNCHANGED raced
                      /\ k \in RecordKeys /\ req.op = "putSession"
      BY <1>1, DoPutSessionWrite, RecordKeyFacts DEF ghosts, SessionOps
    <2>2. k = FirstKey(req)
      BY <2>1, ReqFacts
    <2>3. cur.seen \in Opt(SessionRecs)
      BY <2>1, HeadFacts DEF CallOK
    <2> QED BY <2>1, <2>2, <2>3, RefineFollows
  <1>2. CASE PutSessionIndex
    <2>1. Set(SessionIndex(req.owner, req.link), req.session) /\ UNCHANGED raced
      BY <1>2, DoPutSessionIndex
    <2> QED BY <2>1, RecordKeyFacts, RefineOther
  <1>3. CASE DeleteSessionRecord
    BY <1>3, DoDeleteSessionRecord, RecordKeyFacts, RefineDelete
  <1>4. CASE DeleteSessionReadIndex \/ SessionEnded
    <2>1. UNCHANGED kv /\ UNCHANGED raced
      BY <1>4, DoDeleteSessionReadIndex, DoEnd DEF ghosts
    <2> QED BY <2>1, AgreeAll, RefineQuiet
  <1>5. CASE DeleteSessionIndex
    <2>1. (\E l : Delete(SessionIndex(req.owner, l))) /\ UNCHANGED raced
      BY <1>5, DoDeleteSessionIndex DEF ghosts
    <2> QED BY <2>1, RecordKeyFacts, RefineOther
  <1> QED BY <1>1, <1>2, <1>3, <1>4, <1>5 DEF SessionTurn

LEMMA RefineAttempts == ASSUME TypeInv, VersInv, AttemptTurn PROVE Versioned!Next
  <1>1. CASE CreateAttempt \/ UpdateAttempt
    <2>1. PICK k, v : /\ k = Attempt(req.owner, req.attempt) /\ Set(k, v) /\ Follows(v)
                      /\ queue # <<>> /\ cur.pc = "read" /\ req.op \in AttemptOps /\ UNCHANGED raced
                      /\ k \in RecordKeys
      BY <1>1, DoAttempt, RecordKeyFacts DEF ghosts, AttemptOps
    <2>2. k = FirstKey(req)
      BY <2>1, ReqFacts
    <2>3. cur.seen \in Opt(SessionRecs)
      BY <2>1, HeadFacts DEF CallOK, AttemptOps
    <2> QED BY <2>1, <2>2, <2>3, RefineFollows
  <1>2. CASE AttemptRejected
    <2>1. UNCHANGED kv /\ UNCHANGED raced
      BY <1>2, DoEnd DEF ghosts
    <2> QED BY <2>1, AgreeAll, RefineQuiet
  <1> QED BY <1>1, <1>2 DEF AttemptTurn

LEMMA RefineStep == ASSUME TypeInv, VersInv, [Next]_vars PROVE Versioned!Next
  <1>1. CASE LinkTurn
    BY <1>1, RefineLinks
  <1>2. CASE SessionTurn
    BY <1>2, RefineSessions
  <1>3. CASE AttemptTurn
    BY <1>3, RefineAttempts
  <1>4. CASE EventTurn \/ ListRecord \/ ListReturn \/ (\E r \in Requests : Start(r))
             \/ (\E r \in ListRequests : StartList(r)) \/ Outside
    <2>1. raced \subseteq raced'
      BY TypeStep
    <2>2. \A k : k[1] \in {"records", "sessions", "handshakes"} => Agree(k)
      <3>1. CASE EventTurn
        BY <3>1, EventTurnMoves DEF Moves, EventKinds
      <3>2. CASE ListRecord \/ ListReturn
        BY <3>2, ListTurnMoves DEF Moves
      <3>3. CASE \E r \in Requests : Start(r)
        BY <3>3, AgreeAll DEF Start
      <3>4. CASE \E r \in ListRequests : StartList(r)
        BY <3>4, AgreeAll DEF StartList
      <3>5. CASE Outside
        BY <3>5, OutsideMoves DEF Moves, MaterialKinds
      <3> QED BY <1>4, <3>1, <3>2, <3>3, <3>4, <3>5
    <2> QED BY <2>1, <2>2, RecordKinds, RefineQuiet
  <1> QED BY <1>1, <1>2, <1>3, <1>4, StepCases

LEMMA RefineInit == ASSUME Init PROVE Versioned!Init
  <1>1. [k \in DOMAIN kv \cap RecordKeys |-> kv[k]] = [k \in {} |-> 0] /\ raced \cap RecordKeys = {}
    BY DEF Init
  <1> QED BY <1>1 DEF Versioned!Init

(* The type invariant and what undecided calls have read hold in every      *)
(* reachable state.                                                        *)
LEMMA BasicsHold == Spec => [](TypeInv /\ VersInv)
  <1>1. Init => TypeInv /\ VersInv
    BY TypeInit DEF Init, VersInv, ToSet
  <1>2. TypeInv /\ VersInv /\ [Next]_vars => (TypeInv /\ VersInv)'
    BY TypeStep, VersStep
  <1> QED BY <1>1, <1>2, PTL DEF Spec

(* The records of links, sessions and attempts are those of an atomic       *)
(* versioned store (MemoryStorageProvider's stores over one                 *)
(* MemoryKeyValueStore): each write creates a record, raises the version it *)
(* replaces by one, or deletes it, whatever calls are suspended between     *)
(* read and write, except for keys on which two calls were started in one   *)
(* turn.                                                                   *)
THEOREM RecordsAreVersioned == Spec => ImplementsVersionedStore
  <1>1. Init => Versioned!Init
    BY RefineInit
  <1>2. TypeInv /\ VersInv /\ [Next]_vars => [Versioned!Next]_Versioned!vars
    BY RefineStep
  <1>3. Spec => Versioned!Spec
    BY <1>1, <1>2, BasicsHold, PTL DEF Spec, Versioned!Spec
  <1> QED BY <1>3 DEF ImplementsVersionedStore

----------------------------------------------------------------------------
(* Turns: calls on one index that were started in turns of their own keep   *)
(* their distance, because the queue resumes them in order.                 *)

(* The index that a call of a session or an append works on, if any. *)
Idx(c) ==
    IF c.req.op = "putSession" THEN {SessionIndex(c.req.owner, c.req.link)}
    ELSE IF c.req.op = "append" THEN {EventIndex(c.req.owner, c.req.link)}
    ELSE IF c.req.op # "deleteSession" \/ c.seen = <<>> THEN {}
    ELSE IF c.pc = "index" THEN {SessionIndex(c.req.owner, c.seen[1])}
    ELSE {SessionIndex(c.req.owner, c.seen[1].link)}

(* How often the call was resumed. *)
Stage(c) ==
    IF c.pc = "read" THEN 0
    ELSE IF c.pc \in {"deleted", "written"} \/ c.req.op = "putSession" THEN 1 ELSE 2

TurnsInv ==
    \A a, b \in ToSet(queue) : \A i \in Idx(a) \cap Idx(b) :
        Before(queue, a, b) /\ i \notin raced =>
            Stage(a) >= Stage(b) + 1 \/ Stage(b) >= Stage(a) + 2

LEMMA StageFacts == \A c : Stage(c) \in {0, 1, 2} /\ (Stage(c) = 0 <=> c.pc = "read")
  BY DEF Stage

LEMMA IdxOps ==
    \A c : c.req.op \notin {"putSession", "deleteSession", "append"} => Idx(c) = {}
  BY DEF Idx

(* The call at the head of the queue goes on with the same index. *)
Advances(x) == Goes(x) /\ (Idx(x) = {} \/ (Idx(x) = Idx(cur) /\ Stage(x) = Stage(cur) + 1))

LEMMA TurnsTurn ==
    ASSUME TypeInv, TurnsInv, queue # <<>>, UNCHANGED raced, Ends \/ \E x : Advances(x)
    PROVE  TurnsInv'
  <1>1. PICK S : S = ToSet(queue) \ {cur}
    OBVIOUS
  <1>2. CASE Ends
    <2>1. ToSet(queue') = S /\ \A a, b \in S : Before(queue', a, b) <=> Before(queue, a, b)
      BY <1>1, <1>2, EndsFacts
    <2> QED BY <1>1, <2>1 DEF TurnsInv
  <1>3. ASSUME NEW x, Advances(x) PROVE TurnsInv'
    <2>1. /\ ToSet(queue') = S \cup {x} /\ cur \in ToSet(queue) /\ ~Before(queue', x, x)
          /\ \A a, b \in S : Before(queue', a, b) <=> Before(queue, a, b)
          /\ \A a \in S : Before(queue, cur, a) /\ ~Before(queue', x, a)
      BY <1>1, <1>3, GoesFacts DEF Advances
    <2>2. ASSUME NEW a \in S, NEW i \in Idx(a) \cap Idx(x), i \notin raced
          PROVE  Stage(a) >= Stage(x) + 1 \/ Stage(x) >= Stage(a) + 2
      <3>1. i \in Idx(cur) /\ Stage(x) = Stage(cur) + 1
        BY <1>3, <2>2 DEF Advances
      <3>2. Stage(cur) >= Stage(a) + 1 \/ Stage(a) >= Stage(cur) + 2
        BY <1>1, <2>1, <2>2, <3>1 DEF TurnsInv
      <3>3. PICK m, n, o \in Nat : m = Stage(a) /\ n = Stage(cur) /\ o = Stage(x)
        BY StageFacts
      <3>4. o = n + 1 /\ (n >= m + 1 \/ m >= n + 2)
        BY <3>1, <3>2, <3>3
      <3>5. m >= o + 1 \/ o >= m + 2
        BY <3>3, <3>4
      <3> QED BY <3>3, <3>5
    <2>3. \A a, b \in ToSet(queue') : \A i \in Idx(a) \cap Idx(b) :
            Before(queue', a, b) /\ i \notin raced =>
                Stage(a) >= Stage(b) + 1 \/ Stage(b) >= Stage(a) + 2
      <3> SUFFICES ASSUME NEW a \in ToSet(queue'), NEW b \in ToSet(queue'), NEW i \in Idx(a) \cap Idx(b),
                          Before(queue', a, b), i \notin raced
                   PROVE  Stage(a) >= Stage(b) + 1 \/ Stage(b) >= Stage(a) + 2
        OBVIOUS
      <3>1. a # x
        BY <2>1
      <3>2. CASE b = x
        BY <2>1, <2>2, <3>1, <3>2
      <3>3. CASE b # x
        BY <1>1, <2>1, <3>1, <3>3 DEF TurnsInv
      <3> QED BY <3>2, <3>3
    <2> QED BY <2>3 DEF TurnsInv
  <1> QED BY <1>2, <1>3

LEMMA IdxTouched ==
    \A c : c.pc = "read" => Idx(c) \subseteq Touched(c.req, c.seen)
  BY DEF Idx, Touched

LEMMA TurnsStart ==
    ASSUME TypeInv, TurnsInv, NEW r \in Requests, Start(r)
    PROVE  TurnsInv'
  <1>1. PICK c : c = [req |-> r, by |-> calls + 1, pc |-> "read", seen |-> Get(FirstKey(r))]
    OBVIOUS
  <1>2. /\ queue' = Append(queue, c) /\ (\A a \in ToSet(queue) : a.by # c.by)
        /\ raced \subseteq raced'
        /\ \A a \in ToSet(queue) : Undecided(a) => Touched(r, c.seen) \cap Touched(a.req, a.seen) \subseteq raced'
    BY <1>1, DoStart
  <1>3. c.req = r /\ c.pc = "read"
    BY <1>1
  <1>4. /\ ToSet(queue') = ToSet(queue) \cup {c} /\ ~Before(queue', c, c)
        /\ \A a, b \in ToSet(queue) : Before(queue', a, b) <=> Before(queue, a, b)
        /\ \A a \in ToSet(queue) : ~Before(queue', c, a)
    BY <1>2, StartFacts
  <1>5. ASSUME NEW a \in ToSet(queue), NEW i \in Idx(a) \cap Idx(c), i \notin raced'
        PROVE  Stage(a) >= Stage(c) + 1
    <2>1. a.pc # "read"
      BY <1>2, <1>3, <1>5, IdxTouched DEF Undecided
    <2>2. Stage(a) \in {1, 2} /\ Stage(c) = 0
      BY <1>3, <2>1, StageFacts
    <2> QED BY <2>2
  <1>6. \A a, b \in ToSet(queue') : \A i \in Idx(a) \cap Idx(b) :
            Before(queue', a, b) /\ i \notin raced' =>
                Stage(a) >= Stage(b) + 1 \/ Stage(b) >= Stage(a) + 2
      BY <1>2, <1>4, <1>5 DEF TurnsInv
  <1> QED BY <1>6 DEF TurnsInv

LEMMA FirstOfConcat == ASSUME NEW S, NEW l, NEW y \in Opt(S) PROVE (<<l>> \o y)[1] = l /\ <<l>> \o y # <<>>
  <1>1. CASE y = <<>>
    <2>1. <<l>> \o <<>> = <<l>>
      OBVIOUS
    <2> QED BY <1>1, <2>1
  <1>2. CASE y # <<>>
    <2>1. PICK z : y = <<z>>
      BY <1>2, OptFacts
    <2>2. <<l>> \o y = <<l, z>>
      BY <2>1, ConcatTwo
    <2> QED BY <2>2
  <1> QED BY <1>1, <1>2

LEMMA SessionAdvances ==
    ASSUME TypeInv, SessionTurn
    PROVE  Ends \/ \E x : Advances(x)
  <1>1. CASE PutSessionWrite
    <2>1. PICK x : x = Now("index", <<>>)
      OBVIOUS
    <2>2. queue # <<>> /\ Awaits(x) /\ req.op = "putSession" /\ cur.pc = "read"
      BY <1>1, <2>1, DoPutSessionWrite
    <2>3. Goes(x) /\ x.pc = "index" /\ x.req = cur.req /\ cur.req.op = "putSession"
      BY <2>1, <2>2, NowGoes, NowFacts DEF req
    <2>4. Idx(x) = Idx(cur) /\ Stage(x) = 1 /\ Stage(cur) = 0
      BY <2>2, <2>3 DEF Idx, Stage
    <2> QED BY <2>3, <2>4 DEF Advances
  <1>2. CASE PutSessionIndex
    BY <1>2, DoPutSessionIndex
  <1>3. CASE DeleteSessionRecord
    <2>1. PICK x : x = Now("deleted", cur.seen)
      OBVIOUS
    <2>2. queue # <<>> /\ (Ends \/ Awaits(x)) /\ req.op = "deleteSession" /\ cur.pc = "read"
      BY <1>3, <2>1, DoDeleteSessionRecord
    <2>3. CASE Awaits(x)
      <3>1. Goes(x) /\ x.pc = "deleted" /\ x.seen = cur.seen /\ x.req = cur.req /\ cur.req.op = "deleteSession"
        BY <2>1, <2>2, <2>3, NowGoes, NowFacts DEF req
      <3>2. Idx(x) = Idx(cur) /\ Stage(x) = 1 /\ Stage(cur) = 0
        BY <2>2, <3>1 DEF Idx, Stage
      <3> QED BY <3>1, <3>2 DEF Advances
    <2> QED BY <2>2, <2>3
  <1>4. CASE DeleteSessionReadIndex
    <2>1. PICK r \in SessionRecs : /\ cur.seen = <<r>>
                                   /\ Awaits(Now("index", <<r.link>> \o Get(SessionIndex(req.owner, r.link))))
      BY <1>4, DoDeleteSessionReadIndex
    <2>2. PICK y, x : y = <<r.link>> \o Get(SessionIndex(req.owner, r.link)) /\ x = Now("index", y)
      OBVIOUS
    <2>3. queue # <<>> /\ req.op = "deleteSession" /\ cur.pc = "deleted"
      BY <1>4, DoDeleteSessionReadIndex
    <2>4. y # <<>> /\ y[1] = r.link
      BY <2>2, GetTyped, FirstOfConcat DEF TypeInv
    <2>5. Awaits(Now("index", y))
      BY <2>1, <2>2
    <2>6. x = Now("index", y)
      BY <2>2
    <2>7. Goes(x) /\ x.pc = "index" /\ x.seen = y /\ x.req = cur.req /\ cur.req.op = "deleteSession"
      BY <2>3, <2>5, <2>6, NowGoes, NowFacts DEF req
    <2>8. cur.seen # <<>> /\ cur.seen[1] = r
      BY <2>1
    <2>9. Idx(x) = {SessionIndex(x.req.owner, y[1])} /\ Stage(x) = 2
      BY <2>4, <2>7 DEF Idx, Stage
    <2>10. Idx(cur) = {SessionIndex(cur.req.owner, r.link)} /\ Stage(cur) = 1
      BY <2>3, <2>7, <2>8 DEF Idx, Stage
    <2>11. Idx(x) = Idx(cur) /\ Stage(x) = Stage(cur) + 1
      BY <2>4, <2>7, <2>9, <2>10
    <2> QED BY <2>7, <2>11 DEF Advances
  <1>5. CASE DeleteSessionIndex \/ SessionEnded
    BY <1>5, DoDeleteSessionIndex, DoEnd
  <1> QED BY <1>1, <1>2, <1>3, <1>4, <1>5 DEF SessionTurn

LEMMA EventAdvances ==
    ASSUME TypeInv, EventTurn
    PROVE  Ends \/ \E x : Advances(x)
  <1>1. CASE AppendWrite
    <2>1. PICK x : x = Now("written", <<>>)
      OBVIOUS
    <2>2. queue # <<>> /\ Awaits(x) /\ req.op = "append" /\ cur.pc = "read"
      BY <1>1, <2>1, DoAppendWrite
    <2>3. Goes(x) /\ x.pc = "written" /\ x.req = cur.req /\ cur.req.op = "append"
      BY <2>1, <2>2, NowGoes, NowFacts DEF req
    <2>4. Idx(x) = Idx(cur) /\ Stage(x) = 1 /\ Stage(cur) = 0
      BY <2>2, <2>3 DEF Idx, Stage
    <2> QED BY <2>3, <2>4 DEF Advances
  <1>2. CASE AppendReadIndex
    <2>1. PICK x : x = Now("index", Get(EventIndex(req.owner, req.link)))
      OBVIOUS
    <2>2. queue # <<>> /\ Awaits(x) /\ req.op = "append" /\ cur.pc = "written"
      BY <1>2, <2>1, DoAppendReadIndex
    <2>3. Goes(x) /\ x.pc = "index" /\ x.req = cur.req /\ cur.req.op = "append"
      BY <2>1, <2>2, NowGoes, NowFacts DEF req
    <2>4. Idx(x) = Idx(cur) /\ Stage(x) = 2 /\ Stage(cur) = 1
      BY <2>2, <2>3 DEF Idx, Stage
    <2> QED BY <2>3, <2>4 DEF Advances
  <1>3. CASE AppendIndex \/ AppendRepeated \/ AppendRejected
    BY <1>3, DoAppendIndex, DoAppendRepeated, DoEnd
  <1> QED BY <1>1, <1>2, <1>3 DEF EventTurn

(* A step of operations that work on no index. *)
LEMMA TurnsOther ==
    ASSUME TypeInv, TurnsInv, NEW moving, NEW kinds, Moves(moving, kinds),
           \A op \in moving : op \notin {"putSession", "deleteSession", "append"}
    PROVE  TurnsInv'
  <1>1. \A c : Idx(c) # {} => c.req.op \notin moving
    BY IdxOps
  <1>2. \A a, b \in ToSet(queue') : \A i \in Idx(a) \cap Idx(b) :
            Before(queue', a, b) /\ i \notin raced' =>
                Stage(a) >= Stage(b) + 1 \/ Stage(b) >= Stage(a) + 2
    BY <1>1 DEF Moves, OthersKept, TurnsInv
  <1> QED BY <1>2 DEF TurnsInv

LEMMA TurnsStep == ASSUME TypeInv, TurnsInv, [Next]_vars PROVE TurnsInv'
  <1>1. CASE LinkTurn
    BY <1>1, LinkTurnMoves, TurnsOther DEF LinkOps
  <1>2. CASE SessionTurn
    BY <1>2, SessionAdvances, SessionShape, SessionTurnMoves, TurnsTurn DEF TurnShape
  <1>3. CASE AttemptTurn
    BY <1>3, AttemptTurnMoves, TurnsOther DEF AttemptOps
  <1>4. CASE EventTurn
    BY <1>4, EventAdvances, EventShape, TurnsTurn DEF TurnShape
  <1>5. CASE ListRecord \/ ListReturn
    BY <1>5, ListTurnMoves, TurnsOther
  <1>6. CASE \E r \in Requests : Start(r)
    BY <1>6, TurnsStart
  <1>7. CASE \E r \in ListRequests : StartList(r)
    BY <1>7, StartListMoves, TurnsOther
  <1>8. CASE Outside
    BY <1>8, OutsideMoves, TurnsOther
  <1> QED BY <1>1, <1>2, <1>3, <1>4, <1>5, <1>6, <1>7, <1>8, StepCases

LEMMA HeadClash ==
    ASSUME TypeInv, TurnsInv, queue # <<>>, NEW a \in ToSet(queue) \ {cur}, NEW i \in Idx(cur) \cap Idx(a),
           i \notin raced
    PROVE  /\ Stage(cur) = 0 => Stage(a) = 2
           /\ Stage(cur) = 1 => a.pc = "read"
           /\ Stage(cur) = 2 => Stage(a) \in {0, 1}
  <1>1. cur \in ToSet(queue) /\ Before(queue, cur, a)
    BY QueueTail DEF TypeInv, cur
  <1>2. Stage(cur) >= Stage(a) + 1 \/ Stage(a) >= Stage(cur) + 2
    BY <1>1 DEF TurnsInv
  <1>3. PICK m, n : m = Stage(cur) /\ n = Stage(a)
    OBVIOUS
  <1>4. m \in {0, 1, 2} /\ n \in {0, 1, 2} /\ (m >= n + 1 \/ n >= m + 2)
    BY <1>2, <1>3, StageFacts
  <1>5. (m = 0 => n = 2) /\ (m = 1 => n = 0) /\ (m = 2 => n \in {0, 1})
    BY <1>4
  <1> QED BY <1>3, <1>5, StageFacts

----------------------------------------------------------------------------
(* Sessions and the index of their links.                                  *)

(* The index names the session put last. *)
LatestStands == \A i \in DOMAIN latest : i \notin raced => i \in DOMAIN kv /\ kv[i] = latest[i]

(* A session whose record was deleted is not the one put last. *)
DeletedPassed ==
    \A c \in ToSet(queue) : c.req.op = "deleteSession" /\ c.pc # "read" =>
        \A i \in Idx(c) : i \notin raced => ~(i \in DOMAIN latest /\ latest[i] = c.req.session)

(* What a delete has read of the index still stands. *)
IndexReadStands ==
    \A c \in ToSet(queue) : c.req.op = "deleteSession" /\ c.pc = "index" =>
        \A i \in Idx(c) : i \notin raced => c.seen = <<c.seen[1]>> \o Get(i)

(* A put of the session is about to write its index. *)
PutPending(o, s) ==
    \E c \in ToSet(queue) : /\ c.req.op = "putSession" /\ c.pc = "index"
                            /\ c.req.owner = o /\ c.req.session = s

(* An index that names no session put last names none that is stored. *)
StaleIndexEmpty ==
    \A o \in Owners, l \in Links, s \in Sessions :
        (/\ SessionIndex(o, l) \in DOMAIN kv \ DOMAIN latest /\ kv[SessionIndex(o, l)] = s
         /\ SessionIndex(o, l) \notin raced /\ Session(o, s) \notin moved)
            => Session(o, s) \notin DOMAIN kv \/ PutPending(o, s)

SessionInv == LatestStands /\ DeletedPassed /\ IndexReadStands /\ StaleIndexEmpty

LEMMA IdxFacts ==
    ASSUME TypeInv, NEW c \in ToSet(queue)
    PROVE  /\ c.req.op \in SessionOps => Idx(c) \subseteq IndexKeys
           /\ c.req.op = "deleteSession" /\ c.pc = "deleted" =>
                 \E r \in SessionRecs : c.seen = <<r>> /\ Idx(c) = {SessionIndex(c.req.owner, r.link)}
           /\ c.req.op = "deleteSession" /\ c.pc = "index" =>
                 \E l \in Links : c.seen[1] = l /\ Idx(c) = {SessionIndex(c.req.owner, l)}
  <1>1. CallOK(c)
    BY DEF TypeInv
  <1>2. PICK r : r = c.req /\ r \in Requests \cup ListRequests
    BY <1>1 DEF CallOK
  <1>3. CASE r.op = "putSession"
    <2>1. r.owner \in Owners /\ r.link \in Links
      BY <1>2, <1>3, RequestFacts
    <2> QED BY <1>2, <1>3, <2>1 DEF Idx, IndexKeys
  <1>4. CASE r.op = "deleteSession"
    <2>1. r.owner \in Owners
      BY <1>2, RequestFacts
    <2>2. CASE c.pc = "read"
      <3>1. c.seen \in Opt(SessionRecs)
        BY <1>1, <1>2, <1>4, <2>2 DEF CallOK
      <3>2. c.seen # <<>> => c.seen[1] \in SessionRecs
        BY <3>1, OptFacts
      <3>3. c.seen # <<>> => c.seen[1].link \in Links
        BY <3>2 DEF SessionRecs
      <3> QED BY <1>2, <1>4, <2>1, <2>2, <3>3 DEF Idx, IndexKeys
    <2>3. CASE c.pc = "deleted"
      <3>1. PICK y \in SessionRecs : c.seen = <<y>>
        BY <1>1, <1>2, <1>4, <2>3 DEF CallOK
      <3>2. c.seen # <<>> /\ c.seen[1] = y /\ y.link \in Links
        BY <3>1 DEF SessionRecs
      <3>3. Idx(c) = {SessionIndex(c.req.owner, y.link)}
        BY <1>2, <1>4, <2>3, <3>2 DEF Idx
      <3> QED BY <1>2, <1>4, <2>1, <2>3, <3>1, <3>2, <3>3 DEF IndexKeys
    <2>4. CASE c.pc = "index"
      <3>1. PICK l \in Links, y \in Opt(Sessions) : c.seen = <<l>> \o y
        BY <1>1, <1>2, <1>4, <2>4 DEF CallOK
      <3>2. c.seen # <<>> /\ c.seen[1] = l
        BY <3>1, FirstOfConcat
      <3>3. Idx(c) = {SessionIndex(c.req.owner, l)}
        BY <1>2, <1>4, <2>4, <3>2 DEF Idx
      <3> QED BY <1>2, <1>4, <2>1, <2>4, <3>2, <3>3 DEF IndexKeys
    <2>5. c.pc \in {"read", "deleted", "index"}
      BY <1>1, <1>2, <1>4 DEF CallOK
    <2> QED BY <2>2, <2>3, <2>4, <2>5
  <1>5. CASE r.op \notin SessionOps
    BY <1>2, <1>5 DEF SessionOps
  <1> QED BY <1>3, <1>4, <1>5 DEF SessionOps

LEMMA SessionOther ==
    ASSUME TypeInv, SessionInv, NEW moving, NEW kinds, Moves(moving, kinds), UNCHANGED <<latest, moved>>,
           \A op \in moving : op \notin SessionOps, \A k \in kinds : k \notin SessionKinds
    PROVE  SessionInv'
  <1>1. /\ \A c : c.req.op \in SessionOps => (c \in ToSet(queue') <=> c \in ToSet(queue))
        /\ \A k : k[1] \in SessionKinds => Agree(k)
        /\ raced \subseteq raced'
    BY DEF Moves, OthersKept
  <1>2. \A i \in IndexKeys : Agree(i) /\ Get(i)' = Get(i)
    BY <1>1, KindFacts, AgreeGet DEF IndexKeys
  <1>3. LatestStands'
    BY <1>1, <1>2 DEF LatestStands, SessionInv, TypeInv, LatestOK, Agree
  <1>4. DeletedPassed'
    <2>1. \A c \in ToSet(queue') : c.req.op = "deleteSession" => c \in ToSet(queue)
      BY <1>1 DEF SessionOps
    <2> QED BY <1>1, <2>1 DEF DeletedPassed, SessionInv
  <1>5. IndexReadStands'
    <2>1. \A c \in ToSet(queue') : c.req.op = "deleteSession" =>
              c \in ToSet(queue) /\ \A i \in Idx(c) : Get(i)' = Get(i)
      BY <1>1, <1>2, IdxFacts DEF SessionOps
    <2>2. \A c \in ToSet(queue') : c.req.op = "deleteSession" /\ c.pc = "index" =>
            \A i \in Idx(c) : i \notin raced' => c.seen = <<c.seen[1]>> \o Get(i)'
      BY <1>1, <2>1 DEF IndexReadStands, SessionInv
    <2> QED BY <2>2 DEF IndexReadStands
  <1>6. StaleIndexEmpty'
    <2>1. \A o, s : PutPending(o, s) => PutPending(o, s)'
      BY <1>1 DEF PutPending, SessionOps
    <2>2. \A o, s : Agree(Session(o, s))
      BY <1>1, KindFacts
    <2>3. \A o \in Owners, l \in Links : Agree(SessionIndex(o, l))
      BY <1>1, KindFacts
    <2>4. ASSUME NEW o \in Owners, NEW l \in Links, NEW s \in Sessions,
                 SessionIndex(o, l) \in DOMAIN kv' \ DOMAIN latest', kv'[SessionIndex(o, l)] = s,
                 SessionIndex(o, l) \notin raced', Session(o, s) \notin moved'
          PROVE  Session(o, s) \notin DOMAIN kv' \/ PutPending(o, s)'
      <3>1. SessionIndex(o, l) \in DOMAIN kv \ DOMAIN latest /\ kv[SessionIndex(o, l)] = s
        BY <2>3, <2>4 DEF Agree
      <3>2. SessionIndex(o, l) \notin raced /\ Session(o, s) \notin moved
        BY <1>1, <2>4
      <3>3. Session(o, s) \notin DOMAIN kv \/ PutPending(o, s)
        BY <3>1, <3>2 DEF StaleIndexEmpty, SessionInv
      <3> QED BY <2>1, <2>2, <3>3 DEF Agree
    <2> QED BY <2>4 DEF StaleIndexEmpty
  <1> QED BY <1>3, <1>4, <1>5, <1>6 DEF SessionInv

LEMMA SessionWrites == ASSUME TypeInv, TurnsInv, SessionInv, PutSessionWrite PROVE SessionInv'
  <1>1. PICK o, t, x : o = req.owner /\ t = req.session /\ x = Now("index", <<>>)
    OBVIOUS
  <1>2. /\ queue # <<>> /\ req.op = "putSession" /\ cur.pc = "read" /\ Awaits(x)
        /\ \E v \in SessionRecs : Set(Session(o, t), v)
        /\ UNCHANGED <<raced, latest, moved>>
    BY <1>1, DoPutSessionWrite DEF ghosts
  <1>3. /\ Goes(x) /\ x.pc = "index" /\ x.req.op = "putSession" /\ x.req.owner = o /\ x.req.session = t
    BY <1>1, <1>2, NowGoes, NowFacts
  <1>4. ToSet(queue') = (ToSet(queue) \ {cur}) \cup {x}
    BY <1>2, <1>3, GoesFacts
  <1>5. \A k : k # Session(o, t) => Agree(k)
    BY <1>2, SetFacts
  <1>6. \A i \in IndexKeys : Agree(i) /\ Get(i)' = Get(i)
    BY <1>5, KeysDiffer, AgreeGet DEF IndexKeys
  <1>7. LatestStands'
    BY <1>2, <1>6 DEF LatestStands, SessionInv, TypeInv, LatestOK, Agree
  <1>8. \A c \in ToSet(queue') : c.req.op = "deleteSession" => c \in ToSet(queue)
    BY <1>3, <1>4
  <1>9. DeletedPassed'
    BY <1>2, <1>8 DEF DeletedPassed, SessionInv
  <1>10. IndexReadStands'
    <2>1. \A c \in ToSet(queue') : c.req.op = "deleteSession" => \A i \in Idx(c) : Get(i)' = Get(i)
      BY <1>6, <1>8, IdxFacts DEF SessionOps
    <2>2. \A c \in ToSet(queue') : c.req.op = "deleteSession" /\ c.pc = "index" =>
            \A i \in Idx(c) : i \notin raced' => c.seen = <<c.seen[1]>> \o Get(i)'
      BY <1>2, <1>8, <2>1 DEF IndexReadStands, SessionInv
    <2> QED BY <2>2 DEF IndexReadStands
  <1>11. StaleIndexEmpty'
    <2>1. \A p, s : PutPending(p, s) => PutPending(p, s)'
      BY <1>2, <1>4 DEF PutPending
    <2>2. PutPending(o, t)'
      BY <1>3, <1>4 DEF PutPending
    <2>3. ASSUME NEW p \in Owners, NEW l \in Links, NEW s \in Sessions,
                 SessionIndex(p, l) \in DOMAIN kv' \ DOMAIN latest', kv'[SessionIndex(p, l)] = s,
                 SessionIndex(p, l) \notin raced', Session(p, s) \notin moved'
          PROVE  Session(p, s) \notin DOMAIN kv' \/ PutPending(p, s)'
      <3>1. SessionIndex(p, l) \in DOMAIN kv \ DOMAIN latest /\ kv[SessionIndex(p, l)] = s
        BY <1>2, <1>6, <2>3 DEF Agree, IndexKeys
      <3>2. Session(p, s) \notin DOMAIN kv \/ PutPending(p, s)
        BY <1>2, <2>3, <3>1 DEF StaleIndexEmpty, SessionInv
      <3>3. CASE Session(p, s) = Session(o, t)
        BY <2>2, <3>3, KeysDiffer
      <3>4. CASE Session(p, s) # Session(o, t)
        BY <1>5, <2>1, <3>2, <3>4 DEF Agree
      <3> QED BY <3>3, <3>4
    <2> QED BY <2>3 DEF StaleIndexEmpty
  <1> QED BY <1>7, <1>9, <1>10, <1>11 DEF SessionInv

LEMMA SessionIndexes == ASSUME TypeInv, TurnsInv, SessionInv, PutSessionIndex PROVE SessionInv'
  <1>1. PICK o, t, m, i : o = req.owner /\ t = req.session /\ m = req.link /\ i = SessionIndex(o, m)
    OBVIOUS
  <1>2. /\ queue # <<>> /\ req.op = "putSession" /\ cur.pc = "index" /\ Ends
        /\ o \in Owners /\ t \in Sessions /\ m \in Links /\ Set(i, t) /\ UNCHANGED raced
    BY <1>1, DoPutSessionIndex
  <1>3. /\ latest' = [j \in LatestOthers \cup {i} |-> IF j = i THEN t ELSE latest[j]]
        /\ moved' = IF IndexedElsewhere(o, t, i) THEN moved \cup {Session(o, t)} ELSE moved
    BY <1>1, DoPutSessionIndex
  <1>4. /\ i \in DOMAIN latest' /\ latest'[i] = t
        /\ \A j \in DOMAIN latest' : j # i => j \in DOMAIN latest /\ latest'[j] = latest[j]
        /\ \A j \in DOMAIN latest \ DOMAIN latest' : j[2] = o /\ latest[j] = t
    BY <1>1, <1>3 DEF LatestOthers
  <1>5. DOMAIN kv' = DOMAIN kv \cup {i} /\ kv'[i] = t /\ \A j : j # i => Agree(j)
    BY <1>2, SetFacts
  <1>6. ToSet(queue') = ToSet(queue) \ {cur} /\ cur \in ToSet(queue)
    BY <1>2, EndsFacts
  <1>7. i \in Idx(cur) /\ Stage(cur) = 1
    BY <1>1, <1>2 DEF Idx, Stage, req
  <1>8. \A c \in ToSet(queue') : i \in Idx(c) /\ i \notin raced => c.pc = "read"
    BY <1>2, <1>6, <1>7, HeadClash
  <1>9. LatestStands'
    <2>1. \A j \in DOMAIN latest' : j \notin raced => j \in DOMAIN kv' /\ kv'[j] = latest'[j]
      BY <1>4, <1>5 DEF LatestStands, SessionInv, Agree
    <2> QED BY <1>2, <2>1 DEF LatestStands
  <1>10. DeletedPassed'
    <2>1. \A c \in ToSet(queue') : c.req.op = "deleteSession" /\ c.pc # "read" =>
            \A j \in Idx(c) : j \notin raced => ~(j \in DOMAIN latest' /\ latest'[j] = c.req.session)
      BY <1>4, <1>6, <1>8 DEF DeletedPassed, SessionInv
    <2> QED BY <1>2, <2>1 DEF DeletedPassed
  <1>11. IndexReadStands'
    <2>1. \A j : j # i => Get(j)' = Get(j)
      BY <1>5, AgreeGet
    <2>2. ASSUME NEW c \in ToSet(queue'), c.req.op = "deleteSession", c.pc = "index", NEW j \in Idx(c), j \notin raced
          PROVE  c.seen = <<c.seen[1]>> \o Get(j)'
      <3>1. j # i
        BY <1>8, <2>2
      <3>2. c.seen = <<c.seen[1]>> \o Get(j)
        BY <1>6, <2>2 DEF IndexReadStands, SessionInv
      <3> QED BY <2>1, <3>1, <3>2
    <2> QED BY <1>2, <2>2 DEF IndexReadStands
  <1>12. StaleIndexEmpty'
    <2>1. ASSUME NEW p \in Owners, NEW l \in Links, NEW s \in Sessions, NEW j, j = SessionIndex(p, l),
                 j \in DOMAIN kv' \ DOMAIN latest', kv'[j] = s,
                 j \notin raced', Session(p, s) \notin moved'
          PROVE  Session(p, s) \notin DOMAIN kv' \/ PutPending(p, s)'
      <3>1. j # i /\ j \in DOMAIN kv /\ kv[j] = s /\ j \notin raced /\ Session(p, s) \notin moved
        BY <1>2, <1>3, <1>4, <1>5, <2>1 DEF Agree
      <3>2. Get(j) = <<s>>
        BY <3>1 DEF Get
      <3>3. ~(p = o /\ s = t)
        <4> SUFFICES ASSUME p = o, s = t PROVE FALSE
          OBVIOUS
        <4>1. IndexedElsewhere(o, t, i)
          BY <2>1, <3>1, <3>2 DEF IndexedElsewhere
        <4> QED BY <1>3, <2>1, <4>1
      <3>4. j \notin DOMAIN latest
        <4> SUFFICES ASSUME j \in DOMAIN latest PROVE FALSE
          OBVIOUS
        <4>1. j[2] = o /\ latest[j] = t
          BY <1>4, <2>1
        <4>2. kv[j] = latest[j]
          BY <3>1 DEF LatestStands, SessionInv
        <4> QED BY <2>1, <3>1, <3>3, <4>1, <4>2, KeyFacts
      <3>5. Session(p, s) \notin DOMAIN kv \/ PutPending(p, s)
        BY <2>1, <3>1, <3>4 DEF StaleIndexEmpty, SessionInv
      <3>6. PutPending(p, s) => PutPending(p, s)'
        BY <1>1, <1>6, <3>3 DEF PutPending, req
      <3>7. Session(p, s) # i
        BY <1>1, KeysDiffer
      <3> QED BY <1>5, <3>5, <3>6, <3>7
    <2> QED BY <2>1 DEF StaleIndexEmpty
  <1> QED BY <1>9, <1>10, <1>11, <1>12 DEF SessionInv

LEMMA SessionDeletes == ASSUME TypeInv, TurnsInv, SessionInv, DeleteSessionRecord PROVE SessionInv'
  <1>1. PICK o, t, x : o = req.owner /\ t = req.session /\ x = Now("deleted", cur.seen)
    OBVIOUS
  <1>2. /\ queue # <<>> /\ req.op = "deleteSession" /\ cur.pc = "read" /\ Delete(Session(o, t))
        /\ (Ends \/ Awaits(x)) /\ UNCHANGED <<raced, moved>> /\ o \in Owners
    BY <1>1, DoDeleteSessionRecord
  <1>3. latest' = [j \in LatestOthers |-> latest[j]]
    BY DoDeleteSessionRecord
  <1>4. /\ \A j \in DOMAIN latest' : j \in DOMAIN latest /\ latest'[j] = latest[j] /\ ~(j[2] = o /\ latest[j] = t)
        /\ \A j \in DOMAIN latest \ DOMAIN latest' : j[2] = o /\ latest[j] = t
    BY <1>1, <1>3 DEF LatestOthers
  <1>5. DOMAIN kv' = DOMAIN kv \ {Session(o, t)} /\ \A j : j # Session(o, t) => Agree(j)
    BY <1>2, DeleteFacts
  <1>6. Awaits(x) => Goes(x) /\ x.pc = "deleted" /\ x.req = req /\ x.seen = cur.seen
    BY <1>1, <1>2, NowGoes, NowFacts
  <1>7. ToSet(queue') = ToSet(queue) \ {cur} \/ (Awaits(x) /\ ToSet(queue') = (ToSet(queue) \ {cur}) \cup {x})
    BY <1>2, <1>6, EndsFacts, GoesFacts
  <1>8. \A i \in IndexKeys : Agree(i) /\ Get(i)' = Get(i)
    BY <1>5, KeysDiffer, AgreeGet DEF IndexKeys
  <1>9. LatestStands'
    <2>1. \A j \in DOMAIN latest' : j \in IndexKeys
      BY <1>4 DEF TypeInv, LatestOK
    <2>2. \A j \in DOMAIN latest' : j \notin raced => j \in DOMAIN kv' /\ kv'[j] = latest'[j]
      BY <1>4, <1>8, <2>1 DEF LatestStands, SessionInv, Agree
    <2> QED BY <1>2, <2>2 DEF LatestStands
  <1>10. DeletedPassed'
    <2>1. ASSUME NEW c \in ToSet(queue'), c.req.op = "deleteSession", c.pc # "read", NEW i \in Idx(c),
                 i \notin raced, i \in DOMAIN latest', latest'[i] = c.req.session
          PROVE  FALSE
      <3>1. CASE c \in ToSet(queue)
        BY <1>4, <2>1, <3>1 DEF DeletedPassed, SessionInv
      <3>2. CASE c \notin ToSet(queue)
        <4>1. c = x /\ c.req = req /\ c.pc = "deleted"
          BY <1>6, <1>7, <2>1, <3>2
        <4>2. i[2] = o
          BY <1>1, <2>1, <4>1, KeyFacts DEF Idx
        <4> QED BY <1>1, <1>4, <2>1, <4>1, <4>2
      <3> QED BY <3>1, <3>2
    <2> QED BY <1>2, <2>1 DEF DeletedPassed
  <1>11. IndexReadStands'
    <2>1. ASSUME NEW c \in ToSet(queue'), c.req.op = "deleteSession", c.pc = "index", NEW j \in Idx(c), j \notin raced
          PROVE  c.seen = <<c.seen[1]>> \o Get(j)'
      <3>1. c \in ToSet(queue)
        BY <1>6, <1>7, <2>1
      <3>2. c.seen = <<c.seen[1]>> \o Get(j)
        BY <2>1, <3>1 DEF IndexReadStands, SessionInv
      <3>3. Get(j)' = Get(j)
        BY <1>8, <2>1, <3>1, IdxFacts DEF SessionOps
      <3> QED BY <3>2, <3>3
    <2> QED BY <1>2, <2>1 DEF IndexReadStands
  <1>12. StaleIndexEmpty'
    <2>1. ASSUME NEW p \in Owners, NEW l \in Links, NEW s \in Sessions, NEW j, j = SessionIndex(p, l),
                 j \in DOMAIN kv' \ DOMAIN latest', kv'[j] = s,
                 j \notin raced', Session(p, s) \notin moved'
          PROVE  Session(p, s) \notin DOMAIN kv' \/ PutPending(p, s)'
      <3>1. j \in DOMAIN kv /\ kv[j] = s /\ j \notin raced /\ Session(p, s) \notin moved
        BY <1>2, <1>8, <2>1 DEF Agree, IndexKeys
      <3>2. CASE j \in DOMAIN latest
        <4>1. j[2] = o /\ latest[j] = t
          BY <1>4, <2>1, <3>2
        <4>2. kv[j] = latest[j]
          BY <3>1, <3>2 DEF LatestStands, SessionInv
        <4>3. p = o /\ s = t
          BY <2>1, <3>1, <4>1, <4>2, KeyFacts
        <4> QED BY <1>5, <4>3
      <3>3. CASE j \notin DOMAIN latest
        <4>1. Session(p, s) \notin DOMAIN kv \/ PutPending(p, s)
          BY <2>1, <3>1, <3>3 DEF StaleIndexEmpty, SessionInv
        <4>2. PutPending(p, s) => PutPending(p, s)'
          BY <1>2, <1>7 DEF PutPending, req
        <4> QED BY <1>5, <4>1, <4>2
      <3> QED BY <3>2, <3>3
    <2> QED BY <2>1 DEF StaleIndexEmpty
  <1> QED BY <1>9, <1>10, <1>11, <1>12 DEF SessionInv

LEMMA SessionReads == ASSUME TypeInv, TurnsInv, SessionInv, DeleteSessionReadIndex PROVE SessionInv'
  <1>1. PICK r \in SessionRecs : /\ cur.seen = <<r>>
                                 /\ Awaits(Now("index", <<r.link>> \o Get(SessionIndex(req.owner, r.link))))
    BY DoDeleteSessionReadIndex
  <1>2. PICK i, y, w, x : /\ i = SessionIndex(req.owner, r.link) /\ w = Get(i) /\ y = <<r.link>> \o w
                          /\ x = Now("index", y)
    OBVIOUS
  <1>3. /\ queue # <<>> /\ req.op = "deleteSession" /\ cur.pc = "deleted"
        /\ UNCHANGED <<kv, raced, latest, moved>>
    BY DoDeleteSessionReadIndex DEF ghosts
  <1>4. y # <<>> /\ y[1] = r.link
    BY <1>2, GetTyped, FirstOfConcat DEF TypeInv
  <1>5. Awaits(Now("index", y))
    BY <1>1, <1>2
  <1>6. x = Now("index", y)
    BY <1>2
  <1>7. Goes(x) /\ x.pc = "index" /\ x.seen = y /\ x.req = cur.req /\ cur.req = req
    BY <1>3, <1>5, <1>6, NowGoes, NowFacts DEF req
  <1>8. ToSet(queue') = (ToSet(queue) \ {cur}) \cup {x} /\ cur \in ToSet(queue)
    BY <1>3, <1>7, GoesFacts
  <1>9. Idx(x) = {i}
    BY <1>2, <1>3, <1>4, <1>7 DEF Idx
  <1>10. Idx(cur) = {i}
    <2>1. cur.seen # <<>> /\ cur.seen[1] = r
      BY <1>1
    <2> QED BY <1>2, <1>3, <1>7, <2>1 DEF Idx
  <1>11. LatestStands'
    BY <1>3 DEF LatestStands, SessionInv
  <1>12. DeletedPassed'
    <2>1. \A j \in Idx(x) : j \notin raced => ~(j \in DOMAIN latest /\ latest[j] = x.req.session)
      BY <1>3, <1>7, <1>8, <1>9, <1>10 DEF DeletedPassed, SessionInv
    <2> QED BY <1>3, <1>8, <2>1 DEF DeletedPassed, SessionInv
  <1>13. IndexReadStands'
    <2>1. ASSUME NEW c \in ToSet(queue'), c.req.op = "deleteSession", c.pc = "index", NEW j \in Idx(c), j \notin raced
          PROVE  c.seen = <<c.seen[1]>> \o Get(j)
      <3>1. CASE c \in ToSet(queue)
        BY <2>1, <3>1 DEF IndexReadStands, SessionInv
      <3>2. CASE c \notin ToSet(queue)
        <4>1. c = x
          BY <1>8, <2>1, <3>2
        <4>2. j = i
          BY <1>9, <2>1, <4>1
        <4>3. c.seen = y /\ c.seen[1] = r.link
          BY <1>4, <1>7, <4>1
        <4> QED BY <1>2, <4>2, <4>3
      <3> QED BY <3>1, <3>2
    <2>2. \A j : Get(j)' = Get(j)
      BY <1>3 DEF Get
    <2>3. \A c \in ToSet(queue') : c.req.op = "deleteSession" /\ c.pc = "index" =>
            \A j \in Idx(c) : j \notin raced' => c.seen = <<c.seen[1]>> \o Get(j)'
      BY <1>3, <2>1, <2>2
    <2> QED BY <2>3 DEF IndexReadStands
  <1>14. StaleIndexEmpty'
    <2>1. \A o, s : PutPending(o, s) => PutPending(o, s)'
      BY <1>3, <1>7, <1>8 DEF PutPending
    <2> QED BY <1>3, <2>1 DEF StaleIndexEmpty, SessionInv
  <1> QED BY <1>11, <1>12, <1>13, <1>14 DEF SessionInv

LEMMA SessionUnindexes == ASSUME TypeInv, TurnsInv, SessionInv, DeleteSessionIndex PROVE SessionInv'
  <1>1. PICK l \in Links : cur.seen = <<l, req.session>> /\ Delete(SessionIndex(req.owner, l))
    BY DoDeleteSessionIndex
  <1>2. PICK i : i = SessionIndex(req.owner, l)
    OBVIOUS
  <1>3. /\ queue # <<>> /\ req.op = "deleteSession" /\ cur.pc = "index" /\ Ends /\ cur.req = req
        /\ UNCHANGED <<raced, latest, moved>>
    BY DoDeleteSessionIndex DEF ghosts, req
  <1>4. DOMAIN kv' = DOMAIN kv \ {i} /\ \A j : j # i => Agree(j)
    BY <1>1, <1>2, DeleteFacts
  <1>5. ToSet(queue') = ToSet(queue) \ {cur} /\ cur \in ToSet(queue)
    BY <1>3, EndsFacts
  <1>6. Idx(cur) = {i} /\ Stage(cur) = 2
    <2>1. cur.seen # <<>> /\ cur.seen[1] = l
      BY <1>1
    <2> QED BY <1>2, <1>3, <2>1 DEF Idx, Stage
  <1>7. \A c \in ToSet(queue') : i \in Idx(c) /\ i \notin raced => Stage(c) \in {0, 1}
    BY <1>3, <1>5, <1>6, HeadClash
  <1>8. i \notin raced => i \notin DOMAIN latest
    <2> SUFFICES ASSUME i \notin raced, i \in DOMAIN latest PROVE FALSE
      OBVIOUS
    <2>1. i \in DOMAIN kv /\ kv[i] = latest[i] /\ latest[i] # req.session
      BY <1>3, <1>5, <1>6 DEF LatestStands, DeletedPassed, SessionInv
    <2>2. cur.seen = <<cur.seen[1]>> \o Get(i)
      BY <1>3, <1>5, <1>6 DEF IndexReadStands, SessionInv
    <2>3. Get(i) = <<kv[i]>> /\ cur.seen[1] = l
      BY <1>1, <2>1 DEF Get
    <2>4. cur.seen = <<l, kv[i]>>
      BY <2>2, <2>3, ConcatTwo
    <2>5. cur.seen[2] = kv[i]
      BY <2>4
    <2>6. cur.seen[2] = req.session
      BY <1>1
    <2> QED BY <2>1, <2>5, <2>6
  <1>9. LatestStands'
    <2>1. \A j \in DOMAIN latest : j \notin raced => j \in DOMAIN kv' /\ kv'[j] = latest[j]
      BY <1>4, <1>8 DEF LatestStands, SessionInv, Agree
    <2> QED BY <1>3, <2>1 DEF LatestStands
  <1>10. DeletedPassed'
    BY <1>3, <1>5 DEF DeletedPassed, SessionInv
  <1>11. IndexReadStands'
    <2>1. ASSUME NEW c \in ToSet(queue'), c.req.op = "deleteSession", c.pc = "index", NEW j \in Idx(c), j \notin raced
          PROVE  c.seen = <<c.seen[1]>> \o Get(j)'
      <3>1. Stage(c) = 2
        BY <2>1 DEF Stage
      <3>2. j # i
        BY <1>7, <2>1, <3>1
      <3>3. c.seen = <<c.seen[1]>> \o Get(j)
        BY <1>5, <2>1 DEF IndexReadStands, SessionInv
      <3>4. Get(j)' = Get(j)
        BY <1>4, <3>2, AgreeGet
      <3> QED BY <3>3, <3>4
    <2> QED BY <1>3, <2>1 DEF IndexReadStands
  <1>12. StaleIndexEmpty'
    <2>1. \A o, s : PutPending(o, s) => PutPending(o, s)'
      BY <1>3, <1>5 DEF PutPending
    <2>2. ASSUME NEW p \in Owners, NEW m \in Links, NEW s \in Sessions, NEW j, j = SessionIndex(p, m),
                 j \in DOMAIN kv' \ DOMAIN latest', kv'[j] = s,
                 j \notin raced', Session(p, s) \notin moved'
          PROVE  Session(p, s) \notin DOMAIN kv' \/ PutPending(p, s)'
      <3>1. j \in DOMAIN kv \ DOMAIN latest /\ kv[j] = s /\ j \notin raced /\ Session(p, s) \notin moved
        BY <1>3, <1>4, <2>2 DEF Agree
      <3>2. Session(p, s) \notin DOMAIN kv \/ PutPending(p, s)
        BY <2>2, <3>1 DEF StaleIndexEmpty, SessionInv
      <3> QED BY <1>4, <2>1, <3>2
    <2> QED BY <2>2 DEF StaleIndexEmpty
  <1> QED BY <1>9, <1>10, <1>11, <1>12 DEF SessionInv

LEMMA SessionEnds == ASSUME TypeInv, SessionInv, SessionEnded PROVE SessionInv'
  <1>1. queue # <<>> /\ Ends /\ req.op = "deleteSession" /\ UNCHANGED <<kv, raced, latest, moved>> /\ cur.req = req
    BY DoEnd DEF ghosts, req
  <1>2. ToSet(queue') = ToSet(queue) \ {cur}
    BY <1>1, EndsFacts
  <1>3. \A o, s : PutPending(o, s) => PutPending(o, s)'
    BY <1>1, <1>2 DEF PutPending
  <1>4. LatestStands' /\ DeletedPassed'
    BY <1>1, <1>2 DEF LatestStands, DeletedPassed, SessionInv
  <1>5. IndexReadStands'
    BY <1>1, <1>2 DEF IndexReadStands, SessionInv, Get
  <1>6. StaleIndexEmpty'
    BY <1>1, <1>3 DEF StaleIndexEmpty, SessionInv
  <1> QED BY <1>4, <1>5, <1>6 DEF SessionInv

LEMMA SessionStarts ==
    ASSUME TypeInv, SessionInv, NEW r \in Requests, Start(r)
    PROVE  SessionInv'
  <1>1. PICK c : c = [req |-> r, by |-> calls + 1, pc |-> "read", seen |-> Get(FirstKey(r))]
    OBVIOUS
  <1>2. /\ queue' = Append(queue, c) /\ (\A a \in ToSet(queue) : a.by # c.by)
        /\ raced \subseteq raced' /\ UNCHANGED <<kv, latest, moved>>
    BY <1>1, DoStart
  <1>3. ToSet(queue') = ToSet(queue) \cup {c} /\ c.pc = "read"
    BY <1>1, <1>2, StartFacts
  <1>4. \A o, s : PutPending(o, s) => PutPending(o, s)'
    BY <1>3 DEF PutPending
  <1>5. LatestStands' /\ DeletedPassed'
    BY <1>2, <1>3 DEF LatestStands, DeletedPassed, SessionInv
  <1>6. IndexReadStands'
    <2>1. \A j : Get(j)' = Get(j)
      BY <1>2 DEF Get
    <2>2. \A a \in ToSet(queue') : a.req.op = "deleteSession" /\ a.pc = "index" =>
            \A j \in Idx(a) : j \notin raced' => a.seen = <<a.seen[1]>> \o Get(j)
      BY <1>2, <1>3 DEF IndexReadStands, SessionInv
    <2>3. \A a \in ToSet(queue') : a.req.op = "deleteSession" /\ a.pc = "index" =>
            \A j \in Idx(a) : j \notin raced' => a.seen = <<a.seen[1]>> \o Get(j)'
      BY <2>1, <2>2
    <2> QED BY <2>3 DEF IndexReadStands
  <1>7. StaleIndexEmpty'
    BY <1>2, <1>4 DEF StaleIndexEmpty, SessionInv
  <1> QED BY <1>5, <1>6, <1>7 DEF SessionInv

LEMMA SessionStep == ASSUME TypeInv, TurnsInv, SessionInv, [Next]_vars PROVE SessionInv'
  <1>1. CASE LinkTurn
    <2>1. Moves(LinkOps, LinkKinds) /\ UNCHANGED <<latest, moved>>
      BY <1>1, LinkTurnMoves DEF ghosts
    <2> QED BY <2>1, SessionOther DEF LinkOps, LinkKinds, SessionOps, SessionKinds
  <1>2. CASE SessionTurn
    BY <1>2, SessionWrites, SessionIndexes, SessionDeletes, SessionReads, SessionUnindexes, SessionEnds
       DEF SessionTurn
  <1>3. CASE AttemptTurn
    <2>1. Moves(AttemptOps, AttemptKinds) /\ UNCHANGED <<latest, moved>>
      BY <1>3, AttemptTurnMoves DEF ghosts
    <2> QED BY <2>1, SessionOther DEF AttemptOps, AttemptKinds, SessionOps, SessionKinds
  <1>4. CASE EventTurn
    <2>1. Moves({"append"}, EventKinds) /\ UNCHANGED <<latest, moved>>
      BY <1>4, EventTurnMoves
    <2> QED BY <2>1, SessionOther DEF EventKinds, SessionOps, SessionKinds
  <1>5. CASE ListRecord \/ ListReturn \/ \E r \in ListRequests : StartList(r)
    <2>1. Moves({"list"}, {}) /\ UNCHANGED <<latest, moved>>
      BY <1>5, ListTurnMoves, StartListMoves DEF ghosts
    <2> QED BY <2>1, SessionOther DEF SessionOps, SessionKinds
  <1>6. CASE \E r \in Requests : Start(r)
    BY <1>6, SessionStarts
  <1>7. CASE Outside
    <2>1. Moves({}, MaterialKinds) /\ UNCHANGED <<latest, moved>>
      BY <1>7, OutsideMoves
    <2> QED BY <2>1, SessionOther DEF MaterialKinds, SessionOps, SessionKinds
  <1> QED BY <1>1, <1>2, <1>3, <1>4, <1>5, <1>6, <1>7, StepCases

LEMMA SessionsAnswer == ASSUME TypeInv, SessionInv PROVE SessionsFound
  <1> SUFFICES ASSUME AtRest, NEW o \in Owners, NEW l \in Links, NEW i, i = SessionIndex(o, l), i \notin raced,
                      i \in DOMAIN kv \ DOMAIN latest => Session(o, kv[i]) \notin moved
               PROVE  GetByPeerLinkId(o, l) = IF i \in DOMAIN latest THEN Get(Session(o, latest[i])) ELSE <<>>
    BY DEF SessionsFound
  <1>1. ToSet(queue) = {}
    BY DEF AtRest, ToSet
  <1>2. CASE i \in DOMAIN latest
    <2>1. i \in DOMAIN kv /\ kv[i] = latest[i]
      BY <1>2 DEF SessionInv, LatestStands
    <2> QED BY <1>2, <2>1 DEF GetByPeerLinkId
  <1>3. CASE i \notin DOMAIN latest /\ i \in DOMAIN kv
    <2>1. PICK s : s = kv[i]
      OBVIOUS
    <2>2. s \in Sessions
      <3>1. Fits(i, kv[i])
        BY <1>3 DEF TypeInv, StoreOK
      <3> QED BY <2>1, <3>1, KeyFacts DEF Fits
    <2>3. Session(o, s) \notin DOMAIN kv
      BY <1>1, <1>3, <2>1, <2>2 DEF SessionInv, StaleIndexEmpty, PutPending
    <2> QED BY <1>3, <2>1, <2>3 DEF GetByPeerLinkId, Get
  <1>4. CASE i \notin DOMAIN kv
    <2>1. i \notin DOMAIN latest
      BY <1>4 DEF SessionInv, LatestStands
    <2> QED BY <1>4, <2>1 DEF GetByPeerLinkId
  <1> QED BY <1>2, <1>3, <1>4

(* With no call suspended, getByPeerLinkId answers with the session put     *)
(* last for the link and not deleted since, whatever puts and deletes       *)
(* overlapped (KeyValueSecureSessionStore.put, delete): the queue keeps      *)
(* calls on one index that were started in turns of their own apart.        *)
THEOREM SessionsAreFound == Spec => []SessionsFound
  <1>1. Init => TypeInv /\ TurnsInv /\ SessionInv
    <2> SUFFICES ASSUME Init PROVE TypeInv /\ TurnsInv /\ SessionInv
      OBVIOUS
    <2>1. ToSet(queue) = {} /\ DOMAIN kv = {} /\ DOMAIN latest = {}
      BY DEF Init, ToSet
    <2> QED BY <2>1, TypeInit DEF TurnsInv, SessionInv, LatestStands, DeletedPassed, IndexReadStands, StaleIndexEmpty
  <1>2. TypeInv /\ TurnsInv /\ SessionInv /\ [Next]_vars => (TypeInv /\ TurnsInv /\ SessionInv)'
    BY TypeStep, TurnsStep, SessionStep
  <1>3. TypeInv /\ SessionInv => SessionsFound
    BY SessionsAnswer
  <1> QED BY <1>1, <1>2, <1>3, PTL DEF Spec

----------------------------------------------------------------------------
(* Peer links and the index of their pairs.                                *)

(* A link call of the pair is about to write its index. *)
Indexing(c, o, p, l) ==
    c.req.op \in LinkOps /\ c.pc = "index" /\ c.req.owner = o /\ c.req.peer = p /\ c.req.link = l

Indexed(o, p, l) == Pair(o, p) \in DOMAIN kv /\ kv[Pair(o, p)] = l

(* The link is, or is about to be, the one of the pair. *)
Claims(o, p, l) == Indexed(o, p, l) \/ \E c \in ToSet(queue) : Indexing(c, o, p, l)

Creating(c, o, p) == c.req.op = "createLink" /\ c.req.owner = o /\ c.req.peer = p

(* Every stored link has its pair. *)
LinksClaim ==
    \A o \in Owners, l \in Links, p \in Peers :
        (Link(o, l) \in DOMAIN kv /\ kv[Link(o, l)].peer = p /\ Pair(o, p) \notin raced) => Claims(o, p, l)

OneClaim ==
    \A o \in Owners, p \in Peers : Pair(o, p) \notin raced =>
        \A l, m \in Links : Claims(o, p, l) /\ Claims(o, p, m) => l = m

(* A link that an update has read has its pair. *)
UpdatesClaim ==
    \A c \in ToSet(queue) : \A p \in Peers :
        (/\ c.req.op = "updateLink" /\ c.pc = "read" /\ c.seen # <<>> /\ c.seen[1].peer = p
         /\ Pair(c.req.owner, p) \notin raced) => Claims(c.req.owner, p, c.req.link)

(* A create that looked at the pair has seen the claim on it. *)
PairSeen ==
    \A c \in ToSet(queue), o \in Owners, p \in Peers :
        Creating(c, o, p) /\ c.pc = "pair" /\ Pair(o, p) \notin raced =>
            \A l \in Links : Claims(o, p, l) => c.seen = <<l>>

(* A create that has not will find the claim in the index. *)
ClaimAhead ==
    \A c \in ToSet(queue), o \in Owners, p \in Peers :
        Creating(c, o, p) /\ c.pc = "read" /\ Pair(o, p) \notin raced =>
            \A l \in Links : Claims(o, p, l) =>
                Indexed(o, p, l) \/ \E a \in ToSet(queue) : Indexing(a, o, p, l) /\ Before(queue, a, c)

OneCreate ==
    \A a, b \in ToSet(queue) : \A o \in Owners, p \in Peers :
        a # b /\ Creating(a, o, p) /\ Creating(b, o, p) /\ Undecided(a) /\ Undecided(b) => Pair(o, p) \in raced

LinkInv == LinksClaim /\ OneClaim /\ UpdatesClaim /\ PairSeen /\ ClaimAhead /\ OneCreate

LEMMA LinkOther ==
    ASSUME TypeInv, LinkInv, NEW moving, NEW kinds, Moves(moving, kinds),
           \A op \in moving : op \notin LinkOps, \A k \in kinds : k \notin LinkKinds
    PROVE  LinkInv'
  <1>1. /\ \A c : c.req.op \in LinkOps => (c \in ToSet(queue') <=> c \in ToSet(queue))
        /\ \A k : k[1] \in LinkKinds => Agree(k)
        /\ raced \subseteq raced'
        /\ \A a, b \in ToSet(queue) : a.req.op \in LinkOps /\ b.req.op \in LinkOps =>
              (Before(queue', a, b) <=> Before(queue, a, b))
    BY DEF Moves, OthersKept
  <1>2. \A a, b : Agree(Link(a, b)) /\ Agree(Pair(a, b))
    BY <1>1, KindFacts
  <1>3. \A o, p, l : Indexed(o, p, l)' <=> Indexed(o, p, l)
    BY <1>2 DEF Indexed, Agree
  <1>4. \A o, p, l : Claims(o, p, l)' <=> Claims(o, p, l)
    BY <1>1, <1>3 DEF Claims, Indexing
  <1>5. LinksClaim'
    BY <1>1, <1>2, <1>4 DEF LinksClaim, LinkInv, Agree
  <1>6. OneClaim'
    BY <1>1, <1>4 DEF OneClaim, LinkInv
  <1>7. UpdatesClaim'
    <2>1. \A c \in ToSet(queue') : c.req.op = "updateLink" => c \in ToSet(queue)
      BY <1>1 DEF LinkOps
    <2> QED BY <1>1, <1>4, <2>1 DEF UpdatesClaim, LinkInv
  <1>8. \A c \in ToSet(queue') : c.req.op = "createLink" => c \in ToSet(queue)
    BY <1>1 DEF LinkOps
  <1>9. PairSeen'
    BY <1>1, <1>4, <1>8 DEF PairSeen, LinkInv, Creating
  <1>10. ClaimAhead'
    <2>1. ASSUME NEW c \in ToSet(queue'), NEW o \in Owners, NEW p \in Peers, Creating(c, o, p), c.pc = "read",
                 Pair(o, p) \notin raced', NEW l \in Links, Claims(o, p, l)'
          PROVE  Indexed(o, p, l)' \/ \E a \in ToSet(queue') : Indexing(a, o, p, l) /\ Before(queue', a, c)
      <3>1. c \in ToSet(queue) /\ c.req.op \in LinkOps
        BY <1>8, <2>1 DEF Creating, LinkOps
      <3>2. Indexed(o, p, l) \/ \E a \in ToSet(queue) : Indexing(a, o, p, l) /\ Before(queue, a, c)
        BY <1>1, <1>4, <2>1, <3>1 DEF ClaimAhead, LinkInv
      <3> QED BY <1>1, <1>3, <3>1, <3>2 DEF Indexing
    <2> QED BY <2>1 DEF ClaimAhead
  <1>11. OneCreate'
    BY <1>1, <1>8 DEF OneCreate, LinkInv, Creating
  <1> QED BY <1>5, <1>6, <1>7, <1>9, <1>10, <1>11 DEF LinkInv

LEMMA LinkStarts ==
    ASSUME TypeInv, LinkInv, NEW r \in Requests, Start(r)
    PROVE  LinkInv'
  <1>1. PICK c : c = [req |-> r, by |-> calls + 1, pc |-> "read", seen |-> Get(FirstKey(r))]
    OBVIOUS
  <1>2. /\ queue' = Append(queue, c) /\ (\A a \in ToSet(queue) : a.by # c.by)
        /\ raced \subseteq raced' /\ UNCHANGED kv
        /\ \A a \in ToSet(queue) : Undecided(a) => Touched(r, c.seen) \cap Touched(a.req, a.seen) \subseteq raced'
    BY <1>1, DoStart
  <1>3. c.req = r /\ c.pc = "read" /\ c.seen = Get(FirstKey(r))
    BY <1>1
  <1>4. /\ ToSet(queue') = ToSet(queue) \cup {c}
        /\ \A a, b \in ToSet(queue) : Before(queue', a, b) <=> Before(queue, a, b)
        /\ \A a \in ToSet(queue) : Before(queue', a, c)
    BY <1>2, StartFacts
  <1>5. \A o, p, l : Indexed(o, p, l)' <=> Indexed(o, p, l)
    BY <1>2 DEF Indexed
  <1>6. \A o, p, l : ~Indexing(c, o, p, l)
    BY <1>3 DEF Indexing
  <1>7. \A o, p, l : Claims(o, p, l)' <=> Claims(o, p, l)
    BY <1>4, <1>5, <1>6 DEF Claims
  <1>8. LinksClaim'
    BY <1>2, <1>7 DEF LinksClaim, LinkInv
  <1>9. OneClaim'
    BY <1>2, <1>7 DEF OneClaim, LinkInv
  <1>10. UpdatesClaim'
    <2>1. ASSUME NEW p \in Peers, r.op = "updateLink", c.seen # <<>>, c.seen[1].peer = p, Pair(r.owner, p) \notin raced'
          PROVE  Claims(r.owner, p, r.link)
      <3>1. r.owner \in Owners /\ r.link \in Links
        BY <2>1, RequestFacts
      <3>2. FirstKey(r) = Link(r.owner, r.link)
        BY <2>1, FirstKeyFacts
      <3>3. Link(r.owner, r.link) \in DOMAIN kv /\ kv[Link(r.owner, r.link)].peer = p
        BY <1>3, <2>1, <3>2 DEF Get
      <3> QED BY <1>2, <2>1, <3>1, <3>3 DEF LinksClaim, LinkInv
    <2>2. ASSUME NEW a \in ToSet(queue'), NEW p \in Peers,
                 a.req.op = "updateLink", a.pc = "read", a.seen # <<>>, a.seen[1].peer = p,
                 Pair(a.req.owner, p) \notin raced'
          PROVE  Claims(a.req.owner, p, a.req.link)
      <3>1. CASE a = c
        BY <1>3, <2>1, <2>2, <3>1
      <3>2. CASE a \in ToSet(queue)
        BY <1>2, <2>2, <3>2 DEF UpdatesClaim, LinkInv
      <3> QED BY <1>4, <3>1, <3>2
    <2> QED BY <1>7, <2>2 DEF UpdatesClaim
  <1>11. PairSeen'
    BY <1>2, <1>3, <1>4, <1>7 DEF PairSeen, LinkInv
  <1>12. ClaimAhead'
    <2>1. ASSUME NEW b \in ToSet(queue'), NEW o \in Owners, NEW p \in Peers, Creating(b, o, p), b.pc = "read",
                 Pair(o, p) \notin raced', NEW l \in Links, Claims(o, p, l)'
          PROVE  Indexed(o, p, l)' \/ \E a \in ToSet(queue') : Indexing(a, o, p, l) /\ Before(queue', a, b)
      <3>1. CASE b = c
        BY <1>4, <1>5, <1>7, <2>1, <3>1 DEF Claims
      <3>2. CASE b \in ToSet(queue)
        <4>1. Indexed(o, p, l) \/ \E a \in ToSet(queue) : Indexing(a, o, p, l) /\ Before(queue, a, b)
          BY <1>2, <1>7, <2>1, <3>2 DEF ClaimAhead, LinkInv
        <4> QED BY <1>4, <1>5, <3>2, <4>1
      <3> QED BY <1>4, <2>1, <3>1, <3>2
    <2> QED BY <2>1 DEF ClaimAhead
  <1>13. OneCreate'
    <2>1. \A q, s : q.op = "createLink" => Pair(q.owner, q.peer) \in Touched(q, s)
      BY DEF Touched
    <2>2. \A a \in ToSet(queue) : \A o \in Owners, p \in Peers :
             Creating(a, o, p) /\ Creating(c, o, p) /\ Undecided(a) => Pair(o, p) \in raced'
      BY <1>2, <1>3, <2>1 DEF Creating
    <2>3. \A a, b \in ToSet(queue') : \A o \in Owners, p \in Peers :
             a # b /\ Creating(a, o, p) /\ Creating(b, o, p) /\ Undecided(a) /\ Undecided(b) => Pair(o, p) \in raced'
      BY <1>2, <1>4, <2>2 DEF OneCreate, LinkInv
    <2> QED BY <2>3 DEF OneCreate
  <1> QED BY <1>8, <1>9, <1>10, <1>11, <1>12, <1>13 DEF LinkInv

(* A turn that leaves every claim on a pair that was not raced as it was. *)
LEMMA ClaimsKept ==
    ASSUME TypeInv, LinkInv, queue # <<>>, UNCHANGED raced,
           Ends \/ \E x : Goes(x) /\ x.pc # "read" /\ (x.pc = "pair" => Undecided(cur)),
           \A o \in Owners, p \in Peers, l \in Links :
               Pair(o, p) \notin raced => (Claims(o, p, l)' <=> Claims(o, p, l))
    PROVE  OneClaim' /\ UpdatesClaim' /\ OneCreate'
  <1>1. \A o \in Owners, p \in Peers, l \in Links :
               Pair(o, p) \notin raced => (Claims(o, p, l)' <=> Claims(o, p, l))
    OBVIOUS
  <1>2. /\ cur \in ToSet(queue)
        /\ \/ ToSet(queue') = ToSet(queue) \ {cur}
           \/ \E x : /\ ToSet(queue') = (ToSet(queue) \ {cur}) \cup {x} /\ x.req = cur.req
                     /\ x.pc # "read" /\ (x.pc = "pair" => Undecided(cur))
    <2>1. CASE Ends
      BY <2>1, EndsFacts
    <2>2. ASSUME NEW x, Goes(x), x.pc # "read", x.pc = "pair" => Undecided(cur)
          PROVE  ToSet(queue') = (ToSet(queue) \ {cur}) \cup {x} /\ x.req = cur.req /\ cur \in ToSet(queue)
      BY <2>2, GoesFacts DEF Goes, req
    <2> QED BY <2>1, <2>2
  <1>3. OneClaim'
    BY <1>1 DEF OneClaim, LinkInv
  <1>4. UpdatesClaim'
    <2>1. ASSUME NEW c \in ToSet(queue'), NEW p \in Peers,
                 c.req.op = "updateLink", c.pc = "read", c.seen # <<>>, c.seen[1].peer = p,
                 Pair(c.req.owner, p) \notin raced
          PROVE  Claims(c.req.owner, p, c.req.link)'
      <3>1. c \in ToSet(queue)
        BY <1>2, <2>1
      <3>2. Claims(c.req.owner, p, c.req.link)
        BY <2>1, <3>1 DEF UpdatesClaim, LinkInv
      <3>3. CallOK(c)
        BY <3>1 DEF TypeInv
      <3>4. c.req \in Requests \cup ListRequests
        BY <3>3 DEF CallOK
      <3>5. c.req.owner \in Owners /\ c.req.link \in Links
        BY <2>1, <3>4, RequestFacts
      <3> QED BY <1>1, <2>1, <3>2, <3>5
    <2> QED BY <2>1 DEF UpdatesClaim
  <1>5. OneCreate'
    <2>1. \A c \in ToSet(queue') : Undecided(c) =>
             (c \in ToSet(queue) /\ c # cur) \/ (c.req = cur.req /\ Undecided(cur) /\ \A d \in ToSet(queue') : d = c \/ (d # cur /\ d \in ToSet(queue)) \/ c \in ToSet(queue) \ {cur})
      BY <1>2 DEF Undecided
    <2>2. ASSUME NEW a \in ToSet(queue'), NEW b \in ToSet(queue'), NEW o \in Owners, NEW p \in Peers,
                 a # b, Creating(a, o, p), Creating(b, o, p), Undecided(a), Undecided(b)
          PROVE  Pair(o, p) \in raced
      <3>1. CASE a \in ToSet(queue) \ {cur} /\ b \in ToSet(queue) \ {cur}
        BY <2>2, <3>1 DEF OneCreate, LinkInv
      <3>2. CASE a \notin ToSet(queue) \ {cur}
        <4>1. a.req = cur.req /\ Undecided(cur) /\ b \in ToSet(queue) \ {cur}
          BY <2>1, <2>2, <3>2
        <4>2. Creating(cur, o, p)
          BY <2>2, <4>1 DEF Creating
        <4> QED BY <1>2, <2>2, <4>1, <4>2 DEF OneCreate, LinkInv
      <3>3. CASE b \notin ToSet(queue) \ {cur}
        <4>1. b.req = cur.req /\ Undecided(cur) /\ a \in ToSet(queue) \ {cur}
          BY <2>1, <2>2, <3>3
        <4>2. Creating(cur, o, p)
          BY <2>2, <4>1 DEF Creating
        <4> QED BY <1>2, <2>2, <4>1, <4>2 DEF OneCreate, LinkInv
      <3> QED BY <3>1, <3>2, <3>3
    <2> QED BY <2>2 DEF OneCreate
  <1> QED BY <1>3, <1>4, <1>5

LEMMA LinkReads == ASSUME TypeInv, LinkInv, CreateLinkRead PROVE LinkInv'
  <1>1. PICK x, y : y = Get(Pair(req.owner, req.peer)) /\ x = Now("pair", y)
    OBVIOUS
  <1>2. /\ queue # <<>> /\ req.op = "createLink" /\ cur.pc = "read" /\ Awaits(x) /\ cur.req = req
        /\ UNCHANGED <<kv, raced>>
    BY <1>1, DoCreateLinkRead DEF ghosts, req
  <1>3. Goes(x) /\ x.pc = "pair" /\ x.req = req /\ x.seen = y
    BY <1>1, <1>2, NowGoes, NowFacts
  <1>4. PICK S : S = ToSet(queue) \ {cur}
    OBVIOUS
  <1>5. /\ ToSet(queue') = S \cup {x} /\ cur \in ToSet(queue)
        /\ \A a, b \in S : Before(queue', a, b) <=> Before(queue, a, b)
    BY <1>2, <1>3, <1>4, GoesFacts
  <1>6. \A o, p, l : (Indexed(o, p, l)' <=> Indexed(o, p, l)) /\ ~Indexing(x, o, p, l) /\ ~Indexing(cur, o, p, l)
    BY <1>2, <1>3 DEF Indexed, Indexing
  <1>7. \A o, p, l : Claims(o, p, l)' <=> Claims(o, p, l)
    BY <1>4, <1>5, <1>6 DEF Claims
  <1>8. OneClaim' /\ UpdatesClaim' /\ OneCreate'
    BY <1>2, <1>3, <1>7, ClaimsKept DEF Undecided
  <1>9. LinksClaim'
    BY <1>2, <1>7 DEF LinksClaim, LinkInv
  <1>10. PairSeen'
    <2>1. ASSUME NEW c \in ToSet(queue'), NEW o \in Owners, NEW p \in Peers, Creating(c, o, p), c.pc = "pair",
                 Pair(o, p) \notin raced, NEW l \in Links, Claims(o, p, l)
          PROVE  c.seen = <<l>>
      <3>1. CASE c = x
        <4>1. Creating(cur, o, p) /\ o = req.owner /\ p = req.peer
          BY <1>2, <1>3, <2>1, <3>1 DEF Creating
        <4>2. Indexed(o, p, l) \/ \E a \in ToSet(queue) : Before(queue, a, cur)
          BY <1>2, <1>5, <2>1, <4>1 DEF ClaimAhead, LinkInv
        <4>3. \A a : ~Before(queue, a, cur)
          <5>1. Numbered(queue) /\ queue # <<>>
            BY <1>2 DEF TypeInv
          <5>2. \A a : ~Before(queue, a, Head(queue))
            BY <5>1, QueueTail
          <5> QED BY <5>2 DEF cur
        <4> QED BY <1>1, <1>3, <3>1, <4>1, <4>2, <4>3 DEF Indexed, Get
      <3>2. CASE c # x
        BY <1>4, <1>5, <2>1, <3>2 DEF PairSeen, LinkInv
      <3> QED BY <3>1, <3>2
    <2> QED BY <1>2, <1>7, <2>1 DEF PairSeen
  <1>11. ClaimAhead'
    <2>1. ASSUME NEW b \in ToSet(queue'), NEW o \in Owners, NEW p \in Peers, Creating(b, o, p), b.pc = "read",
                 Pair(o, p) \notin raced', NEW l \in Links, Claims(o, p, l)'
          PROVE  Indexed(o, p, l)' \/ \E a \in ToSet(queue') : Indexing(a, o, p, l) /\ Before(queue', a, b)
      <3>1. b \in S
        BY <1>3, <1>5, <2>1
      <3>2. Indexed(o, p, l) \/ \E a \in ToSet(queue) : Indexing(a, o, p, l) /\ Before(queue, a, b)
        BY <1>2, <1>4, <1>7, <2>1, <3>1 DEF ClaimAhead, LinkInv
      <3> QED BY <1>4, <1>5, <1>6, <3>1, <3>2
    <2> QED BY <2>1 DEF ClaimAhead
  <1> QED BY <1>8, <1>9, <1>10, <1>11 DEF LinkInv

LEMMA LinkCreates == ASSUME TypeInv, LinkInv, CreateLinkWrite PROVE LinkInv'
  <1>1. PICK x, w, q, k : x = Now("index", <<>>) /\ w = req.owner /\ q = req.peer /\ k = req.link
    OBVIOUS
  <1>2. /\ queue # <<>> /\ req.op = "createLink" /\ cur.pc = "pair" /\ Awaits(x) /\ cur.req = req
        /\ cur.seen \in {<<>>, <<k>>} /\ UNCHANGED raced /\ w \in Owners /\ k \in Links /\ q \in Peers
    BY <1>1, DoCreateLinkWrite DEF ghosts, req
  <1>3. PICK v : Set(Link(w, k), v) /\ v.peer = q
    BY <1>1, DoCreateLinkWrite
  <1>4. Goes(x) /\ x.pc = "index" /\ x.req = req
    BY <1>1, <1>2, NowGoes, NowFacts
  <1>5. PICK S : S = ToSet(queue) \ {cur}
    OBVIOUS
  <1>6. /\ ToSet(queue') = S \cup {x} /\ cur \in ToSet(queue)
        /\ \A a, b \in S : Before(queue', a, b) <=> Before(queue, a, b)
    BY <1>2, <1>4, <1>5, GoesFacts
  <1>7. DOMAIN kv' = DOMAIN kv \cup {Link(w, k)} /\ kv'[Link(w, k)] = v /\ \A j : j # Link(w, k) => Agree(j)
    BY <1>3, SetFacts
  <1>8. \A o, p, l : Indexed(o, p, l)' <=> Indexed(o, p, l)
    BY <1>7, KeysDiffer DEF Indexed, Agree
  <1>9. \A o, p, l : /\ ~Indexing(cur, o, p, l)
                     /\ Indexing(x, o, p, l) <=> (o = w /\ p = q /\ l = k)
    BY <1>1, <1>2, <1>4 DEF Indexing, LinkOps
  <1>10. \A o, p, l : Claims(o, p, l)' <=> Claims(o, p, l) \/ (o = w /\ p = q /\ l = k)
    BY <1>5, <1>6, <1>8, <1>9 DEF Claims
  <1>11. Creating(cur, w, q) /\ Undecided(cur)
    BY <1>1, <1>2 DEF Creating, Undecided
  <1>12. Pair(w, q) \notin raced => \A l \in Links : Claims(w, q, l) => l = k
    <2> SUFFICES ASSUME Pair(w, q) \notin raced, NEW l \in Links, Claims(w, q, l) PROVE l = k
      OBVIOUS
    <2>1. cur.seen = <<l>>
      BY <1>2, <1>6, <1>11 DEF PairSeen, LinkInv
    <2>2. cur.seen = <<k>>
      BY <1>2, <2>1
    <2>3. cur.seen[1] = l /\ cur.seen[1] = k
      BY <2>1, <2>2
    <2> QED BY <2>3
  <1>13. LinksClaim'
    <2>1. ASSUME NEW o \in Owners, NEW l \in Links, NEW p \in Peers, Link(o, l) \in DOMAIN kv',
                 kv'[Link(o, l)].peer = p, Pair(o, p) \notin raced'
          PROVE  Claims(o, p, l)'
      <3>1. CASE Link(o, l) = Link(w, k)
        <4>1. o = w /\ l = k /\ p = q
          BY <1>3, <1>7, <2>1, <3>1, KeysDiffer
        <4> QED BY <1>10, <4>1
      <3>2. CASE Link(o, l) # Link(w, k)
        <4>1. Link(o, l) \in DOMAIN kv /\ kv[Link(o, l)].peer = p /\ Pair(o, p) \notin raced
          BY <1>2, <1>7, <2>1, <3>2 DEF Agree
        <4> QED BY <1>10, <4>1 DEF LinksClaim, LinkInv
      <3> QED BY <3>1, <3>2
    <2> QED BY <2>1 DEF LinksClaim
  <1>14. OneClaim'
    <2>1. ASSUME NEW o \in Owners, NEW p \in Peers, Pair(o, p) \notin raced, NEW l \in Links, NEW m \in Links,
                 Claims(o, p, l)', Claims(o, p, m)'
          PROVE  l = m
      <3>1. CASE o = w /\ p = q
        BY <1>10, <1>12, <2>1, <3>1
      <3>2. CASE ~(o = w /\ p = q)
        BY <1>10, <2>1, <3>2 DEF OneClaim, LinkInv
      <3> QED BY <3>1, <3>2
    <2> QED BY <1>2, <2>1 DEF OneClaim
  <1>15. UpdatesClaim'
    <2>1. \A c \in ToSet(queue') : c.pc = "read" => c \in ToSet(queue)
      BY <1>4, <1>5, <1>6
    <2> QED BY <1>2, <1>10, <2>1 DEF UpdatesClaim, LinkInv
  <1>16. \A c \in ToSet(queue'), o \in Owners, p \in Peers :
            Creating(c, o, p) /\ Undecided(c) /\ Pair(o, p) \notin raced =>
                c \in S /\ \A l \in Links : Claims(o, p, l)' => Claims(o, p, l)
    <2>1. ASSUME NEW c \in ToSet(queue'), NEW o \in Owners, NEW p \in Peers,
                 Creating(c, o, p), Undecided(c), Pair(o, p) \notin raced
          PROVE  c \in S /\ ~(o = w /\ p = q)
      <3>1. c \in S
        BY <1>4, <1>6, <2>1 DEF Undecided
      <3> QED BY <1>5, <1>6, <1>11, <2>1, <3>1 DEF OneCreate, LinkInv
    <2> QED BY <1>10, <2>1
  <1>17. PairSeen'
    <2>1. ASSUME NEW c \in ToSet(queue'), NEW o \in Owners, NEW p \in Peers, Creating(c, o, p), c.pc = "pair",
                 Pair(o, p) \notin raced, NEW l \in Links, Claims(o, p, l)'
          PROVE  c.seen = <<l>>
      <3>1. c \in S /\ Claims(o, p, l)
        BY <1>16, <2>1 DEF Undecided
      <3> QED BY <1>5, <2>1, <3>1 DEF PairSeen, LinkInv
    <2> QED BY <1>2, <2>1 DEF PairSeen
  <1>18. ClaimAhead'
    <2>1. ASSUME NEW b \in ToSet(queue'), NEW o \in Owners, NEW p \in Peers, Creating(b, o, p), b.pc = "read",
                 Pair(o, p) \notin raced', NEW l \in Links, Claims(o, p, l)'
          PROVE  Indexed(o, p, l)' \/ \E a \in ToSet(queue') : Indexing(a, o, p, l) /\ Before(queue', a, b)
      <3>1. b \in S /\ Claims(o, p, l)
        BY <1>2, <1>16, <2>1 DEF Undecided
      <3>2. Indexed(o, p, l) \/ \E a \in ToSet(queue) : Indexing(a, o, p, l) /\ Before(queue, a, b)
        BY <1>2, <1>5, <2>1, <3>1 DEF ClaimAhead, LinkInv
      <3> QED BY <1>5, <1>6, <1>8, <1>9, <3>1, <3>2
    <2> QED BY <2>1 DEF ClaimAhead
  <1>19. OneCreate'
    <2>1. \A c \in ToSet(queue') : Undecided(c) => c \in ToSet(queue)
      BY <1>4, <1>5, <1>6 DEF Undecided
    <2> QED BY <1>2, <2>1 DEF OneCreate, LinkInv
  <1> QED BY <1>13, <1>14, <1>15, <1>17, <1>18, <1>19 DEF LinkInv

LEMMA LinkUpdates == ASSUME TypeInv, LinkInv, UpdateLinkWrite PROVE LinkInv'
  <1>1. PICK x, w, q, k : x = Now("index", <<>>) /\ w = req.owner /\ q = req.peer /\ k = req.link
    OBVIOUS
  <1>2. /\ queue # <<>> /\ req.op = "updateLink" /\ cur.pc = "read" /\ Awaits(x) /\ cur.req = req
        /\ UNCHANGED raced /\ w \in Owners /\ k \in Links /\ q \in Peers
    BY <1>1, DoUpdateLinkWrite DEF ghosts, req
  <1>3. PICK v \in LinkRecs, r \in LinkRecs : Set(Link(w, k), v) /\ v.peer = q /\ cur.seen = <<r>> /\ r.peer = q
    BY <1>1, DoUpdateLinkWrite
  <1>4. Goes(x) /\ x.pc = "index" /\ x.req = req
    BY <1>1, <1>2, NowGoes, NowFacts
  <1>5. PICK S : S = ToSet(queue) \ {cur}
    OBVIOUS
  <1>6. /\ ToSet(queue') = S \cup {x} /\ cur \in ToSet(queue)
        /\ \A a, b \in S : Before(queue', a, b) <=> Before(queue, a, b)
    BY <1>2, <1>4, <1>5, GoesFacts
  <1>7. DOMAIN kv' = DOMAIN kv \cup {Link(w, k)} /\ kv'[Link(w, k)] = v /\ \A j : j # Link(w, k) => Agree(j)
    BY <1>3, SetFacts
  <1>8. \A o, p, l : Indexed(o, p, l)' <=> Indexed(o, p, l)
    BY <1>7, KeysDiffer DEF Indexed, Agree
  <1>9. \A o, p, l : /\ ~Indexing(cur, o, p, l)
                     /\ Indexing(x, o, p, l) <=> (o = w /\ p = q /\ l = k)
    BY <1>1, <1>2, <1>4 DEF Indexing, LinkOps
  <1>10. \A o, p, l : Claims(o, p, l)' <=> Claims(o, p, l) \/ (o = w /\ p = q /\ l = k)
    BY <1>5, <1>6, <1>8, <1>9 DEF Claims
  <1>11. Pair(w, q) \notin raced => Claims(w, q, k)
    <2>1. cur.seen # <<>> /\ cur.seen[1].peer = q
      BY <1>3
    <2> QED BY <1>1, <1>2, <1>6, <2>1 DEF UpdatesClaim, LinkInv
  <1>12. \A o \in Owners, p \in Peers, l \in Links :
               Pair(o, p) \notin raced => (Claims(o, p, l)' <=> Claims(o, p, l))
    BY <1>10, <1>11
  <1>13. OneClaim' /\ UpdatesClaim' /\ OneCreate'
    BY <1>2, <1>4, <1>12, ClaimsKept
  <1>14. LinksClaim'
    <2>1. ASSUME NEW o \in Owners, NEW l \in Links, NEW p \in Peers, Link(o, l) \in DOMAIN kv',
                 kv'[Link(o, l)].peer = p, Pair(o, p) \notin raced'
          PROVE  Claims(o, p, l)'
      <3>1. CASE Link(o, l) = Link(w, k)
        <4>1. o = w /\ l = k /\ p = q
          BY <1>3, <1>7, <2>1, <3>1, KeysDiffer
        <4> QED BY <1>10, <4>1
      <3>2. CASE Link(o, l) # Link(w, k)
        <4>1. Link(o, l) \in DOMAIN kv /\ kv[Link(o, l)].peer = p /\ Pair(o, p) \notin raced
          BY <1>2, <1>7, <2>1, <3>2 DEF Agree
        <4> QED BY <1>10, <4>1 DEF LinksClaim, LinkInv
      <3> QED BY <3>1, <3>2
    <2> QED BY <2>1 DEF LinksClaim
  <1>15. PairSeen'
    <2>1. \A c \in ToSet(queue') : c.pc = "pair" => c \in ToSet(queue)
      BY <1>4, <1>5, <1>6
    <2> QED BY <1>2, <1>12, <2>1 DEF PairSeen, LinkInv
  <1>16. ClaimAhead'
    <2>1. ASSUME NEW b \in ToSet(queue'), NEW o \in Owners, NEW p \in Peers, Creating(b, o, p), b.pc = "read",
                 Pair(o, p) \notin raced', NEW l \in Links, Claims(o, p, l)'
          PROVE  Indexed(o, p, l)' \/ \E a \in ToSet(queue') : Indexing(a, o, p, l) /\ Before(queue', a, b)
      <3>1. b \in S /\ Claims(o, p, l)
        BY <1>2, <1>4, <1>6, <1>12, <2>1
      <3>2. Indexed(o, p, l) \/ \E a \in ToSet(queue) : Indexing(a, o, p, l) /\ Before(queue, a, b)
        BY <1>2, <1>5, <2>1, <3>1 DEF ClaimAhead, LinkInv
      <3> QED BY <1>5, <1>6, <1>8, <1>9, <3>1, <3>2
    <2> QED BY <2>1 DEF ClaimAhead
  <1> QED BY <1>13, <1>14, <1>15, <1>16 DEF LinkInv

LEMMA LinkIndexes == ASSUME TypeInv, LinkInv, LinkIndexWrite PROVE LinkInv'
  <1>1. PICK w, q, k : w = req.owner /\ q = req.peer /\ k = req.link
    OBVIOUS
  <1>2. /\ queue # <<>> /\ req.op \in LinkOps /\ cur.pc = "index" /\ Ends /\ cur.req = req
        /\ UNCHANGED raced /\ w \in Owners /\ k \in Links /\ q \in Peers /\ Set(Pair(w, q), k)
    BY <1>1, DoLinkIndexWrite DEF ghosts, req, LinkOps
  <1>3. PICK S : S = ToSet(queue) \ {cur}
    OBVIOUS
  <1>4. /\ ToSet(queue') = S /\ cur \in ToSet(queue)
        /\ \A a, b \in S : Before(queue', a, b) <=> Before(queue, a, b)
    BY <1>2, <1>3, EndsFacts
  <1>5. DOMAIN kv' = DOMAIN kv \cup {Pair(w, q)} /\ kv'[Pair(w, q)] = k /\ \A j : j # Pair(w, q) => Agree(j)
    BY <1>2, SetFacts
  <1>6. \A o, p, l : ~(o = w /\ p = q) => (Indexed(o, p, l)' <=> Indexed(o, p, l))
    BY <1>5, KeysDiffer DEF Indexed, Agree
  <1>7. \A l : Indexed(w, q, l)' <=> l = k
    BY <1>5 DEF Indexed
  <1>8. \A o, p, l : Indexing(cur, o, p, l) <=> (o = w /\ p = q /\ l = k)
    BY <1>1, <1>2 DEF Indexing
  <1>9. Claims(w, q, k)
    BY <1>4, <1>8 DEF Claims
  <1>10. \A o, p, l : ~(o = w /\ p = q) => (Claims(o, p, l)' <=> Claims(o, p, l))
    BY <1>3, <1>4, <1>6, <1>8 DEF Claims
  <1>11. \A l \in Links : Pair(w, q) \notin raced => (Claims(w, q, l) <=> l = k)
    BY <1>2, <1>9 DEF OneClaim, LinkInv
  <1>12. \A l \in Links : Pair(w, q) \notin raced => (Claims(w, q, l)' <=> l = k)
    <2>1. \A l : Claims(w, q, l)' => l = k \/ Claims(w, q, l)
      BY <1>3, <1>4, <1>7 DEF Claims
    <2>2. Claims(w, q, k)'
      BY <1>7 DEF Claims
    <2> QED BY <1>11, <2>1, <2>2
  <1>13. \A o \in Owners, p \in Peers, l \in Links :
               Pair(o, p) \notin raced => (Claims(o, p, l)' <=> Claims(o, p, l))
    BY <1>10, <1>11, <1>12
  <1>14. OneClaim' /\ UpdatesClaim' /\ OneCreate'
    BY <1>2, <1>13, ClaimsKept
  <1>15. LinksClaim'
    <2>1. \A o, l : Agree(Link(o, l))
      BY <1>5, KeysDiffer
    <2> QED BY <1>2, <1>13, <2>1 DEF LinksClaim, LinkInv, Agree
  <1>16. PairSeen'
    BY <1>2, <1>3, <1>4, <1>13 DEF PairSeen, LinkInv
  <1>17. ClaimAhead'
    <2>1. ASSUME NEW b \in ToSet(queue'), NEW o \in Owners, NEW p \in Peers, Creating(b, o, p), b.pc = "read",
                 Pair(o, p) \notin raced', NEW l \in Links, Claims(o, p, l)'
          PROVE  Indexed(o, p, l)' \/ \E a \in ToSet(queue') : Indexing(a, o, p, l) /\ Before(queue', a, b)
      <3>1. CASE o = w /\ p = q
        BY <1>2, <1>7, <1>12, <2>1, <3>1
      <3>2. CASE ~(o = w /\ p = q)
        <4>1. b \in S /\ Claims(o, p, l)
          BY <1>2, <1>4, <1>13, <2>1
        <4>2. Indexed(o, p, l) \/ \E a \in ToSet(queue) : Indexing(a, o, p, l) /\ Before(queue, a, b)
          BY <1>2, <1>3, <2>1, <4>1 DEF ClaimAhead, LinkInv
        <4> QED BY <1>3, <1>4, <1>6, <1>8, <3>2, <4>1, <4>2
      <3> QED BY <3>1, <3>2
    <2> QED BY <2>1 DEF ClaimAhead
  <1> QED BY <1>14, <1>15, <1>16, <1>17 DEF LinkInv

LEMMA LinkEnds == ASSUME TypeInv, LinkInv, LinkRejected PROVE LinkInv'
  <1>1. queue # <<>> /\ Ends /\ cur.pc # "index" /\ UNCHANGED <<kv, raced>>
    BY DoEnd DEF ghosts
  <1>2. PICK S : S = ToSet(queue) \ {cur}
    OBVIOUS
  <1>3. ToSet(queue') = S /\ \A a, b \in S : Before(queue', a, b) <=> Before(queue, a, b)
    BY <1>1, <1>2, EndsFacts
  <1>4. \A o, p, l : (Indexed(o, p, l)' <=> Indexed(o, p, l)) /\ ~Indexing(cur, o, p, l)
    BY <1>1 DEF Indexed, Indexing
  <1>5. \A o, p, l : Claims(o, p, l)' <=> Claims(o, p, l)
    BY <1>2, <1>3, <1>4 DEF Claims
  <1>6. OneClaim' /\ UpdatesClaim' /\ OneCreate'
    BY <1>1, <1>5, ClaimsKept
  <1>7. LinksClaim'
    BY <1>1, <1>5 DEF LinksClaim, LinkInv
  <1>8. PairSeen'
    BY <1>1, <1>2, <1>3, <1>5 DEF PairSeen, LinkInv
  <1>9. ClaimAhead'
    <2>1. ASSUME NEW b \in ToSet(queue'), NEW o \in Owners, NEW p \in Peers, Creating(b, o, p), b.pc = "read",
                 Pair(o, p) \notin raced', NEW l \in Links, Claims(o, p, l)'
          PROVE  Indexed(o, p, l)' \/ \E a \in ToSet(queue') : Indexing(a, o, p, l) /\ Before(queue', a, b)
      <3>1. Indexed(o, p, l) \/ \E a \in ToSet(queue) : Indexing(a, o, p, l) /\ Before(queue, a, b)
        BY <1>1, <1>2, <1>3, <1>5, <2>1 DEF ClaimAhead, LinkInv
      <3> QED BY <1>2, <1>3, <1>4, <2>1, <3>1
    <2> QED BY <2>1 DEF ClaimAhead
  <1> QED BY <1>6, <1>7, <1>8, <1>9 DEF LinkInv

LEMMA LinkStep == ASSUME TypeInv, LinkInv, [Next]_vars PROVE LinkInv'
  <1>1. CASE LinkTurn
    BY <1>1, LinkReads, LinkCreates, LinkUpdates, LinkIndexes, LinkEnds DEF LinkTurn
  <1>2. CASE SessionTurn
    BY <1>2, SessionTurnMoves, LinkOther DEF LinkOps, LinkKinds, SessionOps, SessionKinds
  <1>3. CASE AttemptTurn
    BY <1>3, AttemptTurnMoves, LinkOther DEF AttemptOps, AttemptKinds, LinkOps, LinkKinds
  <1>4. CASE EventTurn
    BY <1>4, EventTurnMoves, LinkOther DEF EventKinds, LinkOps, LinkKinds
  <1>5. CASE ListRecord \/ ListReturn \/ \E r \in ListRequests : StartList(r)
    <2>1. Moves({"list"}, {})
      BY <1>5, ListTurnMoves, StartListMoves
    <2> QED BY <2>1, LinkOther DEF LinkOps, LinkKinds
  <1>6. CASE \E r \in Requests : Start(r)
    BY <1>6, LinkStarts
  <1>7. CASE Outside
    BY <1>7, OutsideMoves, LinkOther DEF MaterialKinds, LinkOps, LinkKinds
  <1> QED BY <1>1, <1>2, <1>3, <1>4, <1>5, <1>6, <1>7, StepCases

LEMMA LinksAnswer == ASSUME TypeInv, LinkInv PROVE LinksFound
  <1> SUFFICES ASSUME AtRest, NEW o \in Owners, NEW l \in ListByOwner(o), NEW r, r = kv[Link(o, l)],
                      Pair(o, r.peer) \notin raced
               PROVE  GetByPair(o, r.peer) = <<r>>
    BY DEF LinksFound
  <1>1. ToSet(queue) = {} /\ l \in Links /\ Link(o, l) \in DOMAIN kv
    BY DEF AtRest, ToSet, ListByOwner
  <1>2. PICK p : p = r.peer
    OBVIOUS
  <1>3. p \in Peers
    <2>1. Fits(Link(o, l), r)
      BY <1>1 DEF TypeInv, StoreOK
    <2>2. r \in LinkRecs
      BY <2>1, KeyFacts DEF Fits
    <2> QED BY <1>2, <2>2 DEF LinkRecs
  <1>4. Claims(o, p, l)
    BY <1>1, <1>2, <1>3 DEF LinksClaim, LinkInv
  <1>5. Pair(o, p) \in DOMAIN kv /\ kv[Pair(o, p)] = l
    BY <1>1, <1>4 DEF Claims, Indexed
  <1> QED BY <1>1, <1>2, <1>5 DEF GetByPair, Get

(* With no call suspended, getByPair finds every peer link an owner has, so *)
(* no two links are for one pair, whatever creates and updates overlapped   *)
(* (KeyValuePeerLinkStore.create, update), unless two creates for the pair  *)
(* were started before either had written.                                 *)
THEOREM LinksAreFound == Spec => []LinksFound
  <1>1. Init => TypeInv /\ LinkInv
    <2> SUFFICES ASSUME Init PROVE TypeInv /\ LinkInv
      OBVIOUS
    <2>1. ToSet(queue) = {} /\ DOMAIN kv = {}
      BY DEF Init, ToSet
    <2> QED BY <2>1, TypeInit
          DEF LinkInv, LinksClaim, OneClaim, UpdatesClaim, PairSeen, ClaimAhead, OneCreate, Claims, Indexed
  <1>2. TypeInv /\ LinkInv /\ [Next]_vars => (TypeInv /\ LinkInv)'
    BY TypeStep, LinkStep
  <1>3. TypeInv /\ LinkInv => LinksFound
    BY LinksAnswer
  <1> QED BY <1>1, <1>2, <1>3, PTL DEF Spec

----------------------------------------------------------------------------
(* The event log of a link and its index.                                  *)

Holds(s, e) == \E n \in DOMAIN s : s[n] = e

NoRepeats(s) == \A m, n \in DOMAIN s : s[m] = s[n] => m = n

AppendsTo(c, o, l) == c.req.op = "append" /\ c.req.owner = o /\ c.req.link = l

Appends(c, o, l, e) == AppendsTo(c, o, l) /\ c.req.event = e

(* The event is stored, for the link unless appends of its id were raced. *)
Backed(o, l, e) == Event(o, e) \in DOMAIN kv /\ (kv[Event(o, e)].link = l \/ Event(o, e) \in raced)

(* The event is in the index, or a call that stored it will put it there. *)
Logging(o, l, e) == \E c \in ToSet(queue) : Appends(c, o, l, e) /\ c.pc # "read"
Logged(o, l, e) == Holds(EventIds(EventIndex(o, l)), e) \/ Logging(o, l, e)

(* Whatever appends are raced: ids in the index, in what an append has read  *)
(* of it, and of appends that have written are those of stored events.      *)
IdsBacked ==
    \A o \in Owners, l \in Links, e \in Events :
        Holds(EventIds(EventIndex(o, l)), e) \/ Logging(o, l, e) => Backed(o, l, e)

ReadsBacked ==
    \A c \in ToSet(queue), o \in Owners, l \in Links, e \in Events :
        AppendsTo(c, o, l) /\ c.pc = "index" /\ c.seen # <<>> /\ Holds(c.seen[1], e) => Backed(o, l, e)

(* What an append has read of the index still stands. *)
ReadStands ==
    \A c \in ToSet(queue), o \in Owners, l \in Links :
        AppendsTo(c, o, l) /\ c.pc = "index" /\ EventIndex(o, l) \notin raced => c.seen = Get(EventIndex(o, l))

IdsOnce == \A o \in Owners, l \in Links : EventIndex(o, l) \notin raced => NoRepeats(EventIds(EventIndex(o, l)))

(* An append that will list its event is the only one, and has not yet. *)
WillList(c) == c.pc # "read" \/ c.seen = <<>>

NotListed ==
    \A c \in ToSet(queue), o \in Owners, l \in Links, e \in Events :
        Appends(c, o, l, e) /\ WillList(c) /\ EventIndex(o, l) \notin raced =>
            ~Holds(EventIds(EventIndex(o, l)), e)

OneLists ==
    \A a, c \in ToSet(queue), o \in Owners, l \in Links, e \in Events :
        a # c /\ Appends(a, o, l, e) /\ Appends(c, o, l, e) /\ a.pc # "read" /\ WillList(c) =>
            EventIndex(o, l) \in raced

(* Events acknowledged, stored, or found stored by a repeated append. *)
AckedLogged ==
    \A o \in Owners, l \in Links, e \in Events :
        <<EventIndex(o, l), e>> \in acked /\ EventIndex(o, l) \notin raced => Logged(o, l, e)

StoredLogged ==
    \A o \in Owners, l \in Links, e \in Events :
        Event(o, e) \in DOMAIN kv /\ kv[Event(o, e)].link = l /\ EventIndex(o, l) \notin raced =>
            Logged(o, l, e)

RepeatLogged ==
    \A c \in ToSet(queue), o \in Owners, l \in Links, e \in Events :
        (/\ Appends(c, o, l, e) /\ c.pc = "read" /\ c.seen # <<>> /\ c.seen[1].link = l
         /\ EventIndex(o, l) \notin raced) => Logged(o, l, e)

LogInv ==
    /\ IdsBacked /\ ReadsBacked /\ ReadStands /\ IdsOnce /\ NotListed /\ OneLists
    /\ AckedLogged /\ StoredLogged /\ RepeatLogged

LEMMA HoldsAppend ==
    ASSUME NEW s \in Seq(Events), NEW e \in Events
    PROVE  /\ \A x : Holds(Append(s, e), x) <=> Holds(s, x) \/ x = e
           /\ NoRepeats(s) /\ ~Holds(s, e) => NoRepeats(Append(s, e))
  <1>1. PICK t, n : t = Append(s, e) /\ n = Len(s)
    OBVIOUS
  <1>2. /\ n \in Nat /\ DOMAIN s = 1 .. n /\ DOMAIN t = 1 .. n + 1 /\ t[n + 1] = e
        /\ \A i \in 1 .. n : t[i] = s[i]
    BY <1>1
  <1>3. \A i : i \in 1 .. n + 1 <=> i \in 1 .. n \/ i = n + 1
    BY <1>2
  <1>4. \A x : Holds(t, x) <=> Holds(s, x) \/ x = e
    BY <1>2, <1>3 DEF Holds
  <1>5. NoRepeats(s) /\ ~Holds(s, e) => NoRepeats(t)
    BY <1>2, <1>3 DEF Holds, NoRepeats
  <1> QED BY <1>1, <1>4, <1>5

LEMMA EventTyped ==
    ASSUME TypeInv
    PROVE  /\ \A o, l : EventIds(EventIndex(o, l)) \in Seq(Events)
           /\ \A o, e : Event(o, e) \in DOMAIN kv => kv[Event(o, e)] \in EventRecs
  <1>1. \A k \in DOMAIN kv : Fits(k, kv[k])
    BY DEF TypeInv, StoreOK
  <1> QED BY <1>1, KeyFacts DEF EventIds, Fits

(* A step that leaves the events alone and ends no append that has written. *)
LEMMA LogFrame ==
    ASSUME TypeInv, LogInv, \A k : k[1] \in EventKinds => Agree(k), raced \subseteq raced',
           \A c \in ToSet(queue') : c.req.op = "append" => c \in ToSet(queue),
           \A c \in ToSet(queue) : c.req.op = "append" /\ c.pc # "read" => c \in ToSet(queue'),
           \A o \in Owners, l \in Links, e \in Events :
               <<EventIndex(o, l), e>> \in acked' /\ EventIndex(o, l) \notin raced' =>
                   <<EventIndex(o, l), e>> \in acked \/ Logged(o, l, e)
    PROVE  LogInv'
  <1>1. \A o, l : EventIds(EventIndex(o, l))' = EventIds(EventIndex(o, l)) /\ Get(EventIndex(o, l))' = Get(EventIndex(o, l))
    BY KindFacts, AgreeGet
  <1>2. \A o, e : Agree(Event(o, e))
    BY KindFacts
  <1>3. \A o, l, e : Backed(o, l, e) => Backed(o, l, e)'
    BY <1>2 DEF Backed, Agree
  <1>4. \A o, l, e : Logging(o, l, e)' <=> Logging(o, l, e)
    BY DEF Logging, Appends, AppendsTo
  <1>5. \A o, l, e : Logged(o, l, e)' <=> Logged(o, l, e)
    BY <1>1, <1>4 DEF Logged
  <1>6. IdsBacked'
    BY <1>1, <1>3, <1>4 DEF IdsBacked, LogInv
  <1>7. ReadsBacked'
    BY <1>3 DEF ReadsBacked, LogInv, AppendsTo
  <1>8. ReadStands'
    <2>1. \A c \in ToSet(queue'), o \in Owners, l \in Links :
            AppendsTo(c, o, l) /\ c.pc = "index" /\ EventIndex(o, l) \notin raced' => c.seen = Get(EventIndex(o, l))
      BY DEF ReadStands, LogInv, AppendsTo
    <2>2. \A c \in ToSet(queue'), o \in Owners, l \in Links :
            AppendsTo(c, o, l) /\ c.pc = "index" /\ EventIndex(o, l) \notin raced' => c.seen = Get(EventIndex(o, l))'
      BY <1>1, <2>1
    <2> QED BY <2>2 DEF ReadStands
  <1>9. IdsOnce'
    BY <1>1 DEF IdsOnce, LogInv
  <1>10. NotListed'
    BY <1>1 DEF NotListed, LogInv, Appends, AppendsTo
  <1>11. OneLists'
    BY DEF OneLists, LogInv, Appends, AppendsTo
  <1>12. AckedLogged'
    BY <1>5 DEF AckedLogged, LogInv
  <1>13. StoredLogged'
    <2>1. ASSUME NEW o \in Owners, NEW l \in Links, NEW e \in Events, Event(o, e) \in DOMAIN kv',
                 kv'[Event(o, e)].link = l, EventIndex(o, l) \notin raced'
          PROVE  Logged(o, l, e)'
      BY <1>2, <1>5, <2>1 DEF StoredLogged, LogInv, Agree
    <2> QED BY <2>1 DEF StoredLogged
  <1>14. RepeatLogged'
    BY <1>5 DEF RepeatLogged, LogInv, Appends, AppendsTo
  <1> QED BY <1>6, <1>7, <1>8, <1>9, <1>10, <1>11, <1>12, <1>13, <1>14 DEF LogInv

LEMMA LogOther ==
    ASSUME TypeInv, LogInv, NEW moving, NEW kinds, Moves(moving, kinds), UNCHANGED acked,
           "append" \notin moving, \A k \in kinds : k \notin EventKinds
    PROVE  LogInv'
  BY LogFrame DEF Moves, OthersKept

(* An append that finds the event stored ends and writes nothing. *)
LEMMA LogEnds == ASSUME TypeInv, LogInv, AppendRepeated \/ AppendRejected PROVE LogInv'
  <1>1. /\ queue # <<>> /\ req.op = "append" /\ cur.pc = "read" /\ Ends /\ UNCHANGED <<kv, raced>>
    BY DoAppendRepeated, DoEnd DEF ghosts
  <1>2. ToSet(queue') = ToSet(queue) \ {cur} /\ cur \in ToSet(queue)
    BY <1>1, EndsFacts
  <1>3. ASSUME NEW o \in Owners, NEW l \in Links, NEW e \in Events,
               <<EventIndex(o, l), e>> \in acked', EventIndex(o, l) \notin raced'
        PROVE  <<EventIndex(o, l), e>> \in acked \/ Logged(o, l, e)
    <2>1. CASE AppendRejected
      BY <1>3, <2>1, DoEnd DEF ghosts
    <2>2. CASE AppendRepeated /\ <<EventIndex(o, l), e>> \notin acked
      <3>1. /\ cur.seen # <<>> /\ cur.seen[1].link = req.link
            /\ <<EventIndex(o, l), e>> = <<EventIndex(req.owner, req.link), req.event>>
        BY <1>3, <2>2, DoAppendRepeated
      <3>2. req.owner = o /\ req.link = l /\ req.event = e
        BY <3>1, KeysDiffer
      <3>3. Appends(cur, o, l, e)
        BY <1>1, <3>2 DEF Appends, AppendsTo, req
      <3> QED BY <1>1, <1>2, <1>3, <3>1, <3>2, <3>3 DEF RepeatLogged, LogInv
    <2> QED BY <2>1, <2>2
  <1> QED BY <1>1, <1>2, <1>3, LogFrame, AgreeAll

LEMMA LogStarts ==
    ASSUME TypeInv, LogInv, NEW r \in Requests, Start(r)
    PROVE  LogInv'
  <1>1. CASE r.op # "append"
    <2>1. Moves({r.op}, {}) /\ UNCHANGED acked
      BY StartMoves
    <2> QED BY <1>1, <2>1, LogOther
  <1>2. CASE r.op = "append"
    <2>1. PICK c : c = [req |-> r, by |-> calls + 1, pc |-> "read", seen |-> Get(FirstKey(r))]
      OBVIOUS
    <2>2. /\ queue' = Append(queue, c) /\ (\A a \in ToSet(queue) : a.by # c.by)
          /\ raced \subseteq raced' /\ UNCHANGED <<kv, acked>>
      BY <2>1, DoStart
    <2>3. ToSet(queue') = ToSet(queue) \cup {c} /\ c.pc = "read" /\ c.req = r /\ c.seen = Get(Event(r.owner, r.event))
      BY <1>2, <2>1, <2>2, StartFacts, FirstKeyFacts
    <2>4. \A o, l : EventIds(EventIndex(o, l))' = EventIds(EventIndex(o, l)) /\ Get(EventIndex(o, l))' = Get(EventIndex(o, l))
      BY <2>2, AgreeAll, AgreeGet
    <2>5. \A o, l, e : Backed(o, l, e) => Backed(o, l, e)'
      BY <2>2 DEF Backed
    <2>6. \A o, l, e : Logging(o, l, e)' <=> Logging(o, l, e)
      BY <2>3 DEF Logging
    <2>7. \A o, l, e : Logged(o, l, e)' <=> Logged(o, l, e)
      BY <2>4, <2>6 DEF Logged
    <2>8. \A o, l, e : Appends(c, o, l, e) =>
              /\ c.seen = <<>> => ~Backed(o, l, e)
              /\ c.seen # <<>> => Event(o, e) \in DOMAIN kv /\ c.seen[1] = kv[Event(o, e)]
      BY <2>3 DEF Appends, AppendsTo, Backed, Get
    <2>9. IdsBacked'
      BY <2>4, <2>5, <2>6 DEF IdsBacked, LogInv
    <2>10. ReadsBacked'
      BY <2>3, <2>5 DEF ReadsBacked, LogInv
    <2>11. ReadStands'
      <3>1. \A a \in ToSet(queue'), o \in Owners, l \in Links :
              AppendsTo(a, o, l) /\ a.pc = "index" /\ EventIndex(o, l) \notin raced' => a.seen = Get(EventIndex(o, l))
        BY <2>2, <2>3 DEF ReadStands, LogInv
      <3>2. \A a \in ToSet(queue'), o \in Owners, l \in Links :
              AppendsTo(a, o, l) /\ a.pc = "index" /\ EventIndex(o, l) \notin raced' => a.seen = Get(EventIndex(o, l))'
        BY <2>4, <3>1
      <3> QED BY <3>2 DEF ReadStands
    <2>12. IdsOnce'
      BY <2>2, <2>4 DEF IdsOnce, LogInv
    <2>13. NotListed'
      <3>1. ASSUME NEW a \in ToSet(queue'), NEW o \in Owners, NEW l \in Links, NEW e \in Events,
                   Appends(a, o, l, e), WillList(a), EventIndex(o, l) \notin raced'
            PROVE  ~Holds(EventIds(EventIndex(o, l)), e)
        <4>1. CASE a = c
          BY <2>3, <2>8, <3>1, <4>1 DEF WillList, IdsBacked, LogInv
        <4>2. CASE a # c
          BY <2>2, <2>3, <3>1, <4>2 DEF NotListed, LogInv
        <4> QED BY <4>1, <4>2
      <3> QED BY <2>4, <3>1 DEF NotListed
    <2>14. OneLists'
      <3>1. ASSUME NEW a \in ToSet(queue'), NEW b \in ToSet(queue'), NEW o \in Owners, NEW l \in Links, NEW e \in Events,
                   a # b, Appends(a, o, l, e), Appends(b, o, l, e), a.pc # "read", WillList(b)
            PROVE  EventIndex(o, l) \in raced'
        <4>1. a \in ToSet(queue)
          BY <2>3, <3>1
        <4>2. CASE b = c
          <5>1. Backed(o, l, e)
            BY <3>1, <4>1 DEF IdsBacked, Logging, LogInv
          <5> QED BY <2>3, <2>8, <3>1, <4>2, <5>1 DEF WillList
        <4>3. CASE b # c
          BY <2>2, <2>3, <3>1, <4>1, <4>3 DEF OneLists, LogInv
        <4> QED BY <4>2, <4>3
      <3> QED BY <3>1 DEF OneLists
    <2>15. AckedLogged'
      BY <2>2, <2>7 DEF AckedLogged, LogInv
    <2>16. StoredLogged'
      BY <2>2, <2>7 DEF StoredLogged, LogInv
    <2>17. RepeatLogged'
      <3>1. ASSUME NEW a \in ToSet(queue'), NEW o \in Owners, NEW l \in Links, NEW e \in Events,
                   Appends(a, o, l, e), a.pc = "read", a.seen # <<>>, a.seen[1].link = l, EventIndex(o, l) \notin raced'
            PROVE  Logged(o, l, e)
        <4>1. CASE a = c
          BY <2>2, <2>8, <3>1, <4>1 DEF StoredLogged, LogInv
        <4>2. CASE a # c
          BY <2>2, <2>3, <3>1, <4>2 DEF RepeatLogged, LogInv
        <4> QED BY <4>1, <4>2
      <3> QED BY <2>7, <3>1 DEF RepeatLogged
    <2> QED BY <2>9, <2>10, <2>11, <2>12, <2>13, <2>14, <2>15, <2>16, <2>17 DEF LogInv
  <1> QED BY <1>1, <1>2

(* Calls on the index of the head's append, unless it was raced. *)
LEMMA AppendClash ==
    ASSUME TypeInv, TurnsInv, queue # <<>>, NEW o, NEW l, AppendsTo(cur, o, l), EventIndex(o, l) \notin raced,
           NEW a \in ToSet(queue) \ {cur}, AppendsTo(a, o, l)
    PROVE  /\ cur.pc = "read" => a.pc # "read"
           /\ cur.pc = "index" => a.pc # "index"
  <1>1. EventIndex(o, l) \in Idx(cur) \cap Idx(a)
    BY DEF AppendsTo, Idx
  <1>2. /\ Stage(cur) = 0 => Stage(a) = 2
        /\ Stage(cur) = 2 => Stage(a) \in {0, 1}
    BY <1>1, HeadClash
  <1> QED BY <1>2 DEF Stage, AppendsTo

LEMMA LogWrites == ASSUME TypeInv, VersInv, TurnsInv, LogInv, AppendWrite PROVE LogInv'
  <1>1. PICK p, m, f, x : p = req.owner /\ m = req.link /\ f = req.event /\ x = Now("written", <<>>)
    OBVIOUS
  <1>2. /\ queue # <<>> /\ req.op = "append" /\ cur.pc = "read" /\ cur.seen = <<>> /\ Awaits(x)
        /\ p \in Owners /\ m \in Links /\ f \in Events /\ UNCHANGED <<raced, acked>>
        /\ \E v : v.link = m /\ Set(Event(p, f), v)
    BY <1>1, DoAppendWrite DEF ghosts
  <1>3. /\ Goes(x) /\ x.pc = "written" /\ x.req = req /\ Appends(cur, p, m, f) /\ Appends(x, p, m, f)
    BY <1>1, <1>2, NowGoes, NowFacts DEF Appends, AppendsTo, req
  <1>4. ToSet(queue') = (ToSet(queue) \ {cur}) \cup {x} /\ cur \in ToSet(queue)
    BY <1>2, <1>3, GoesFacts
  <1>5. /\ Event(p, f) \in DOMAIN kv' /\ kv'[Event(p, f)].link = m
        /\ \A k : k # Event(p, f) => Agree(k)
    <2>1. PICK k, v : k = Event(p, f) /\ v.link = m /\ Set(k, v)
      BY <1>2
    <2>2. DOMAIN kv' = DOMAIN kv \cup {k} /\ kv'[k] = v /\ \A j : j # k => Agree(j)
      BY <2>1, SetFacts
    <2> QED BY <2>1, <2>2
  <1>6. Event(p, f) \notin DOMAIN kv \/ Event(p, f) \in raced
    <2>1. FirstKey(cur.req) = Event(p, f)
      BY <1>1, <1>2, ReqFacts DEF req
    <2>2. Event(p, f) \notin raced => Get(Event(p, f)) = <<>>
      BY <1>2, <1>4, <2>1 DEF VersInv
    <2> QED BY <2>2 DEF Get
  <1>7. \A o, l : EventIds(EventIndex(o, l))' = EventIds(EventIndex(o, l)) /\ Get(EventIndex(o, l))' = Get(EventIndex(o, l))
    BY <1>5, KeysDiffer, AgreeGet
  <1>8. \A o, l, e : Backed(o, l, e) => Backed(o, l, e)'
    BY <1>2, <1>5, <1>6 DEF Backed, Agree
  <1>9. \A o, l, e : Appends(x, o, l, e) <=> o = p /\ l = m /\ e = f
    BY <1>3 DEF Appends, AppendsTo
  <1>10. \A o, l, e : Logging(o, l, e)' <=> Logging(o, l, e) \/ (o = p /\ l = m /\ e = f)
    BY <1>2, <1>3, <1>4, <1>9 DEF Logging
  <1>11. \A o, l, e : Logged(o, l, e) \/ (o = p /\ l = m /\ e = f) => Logged(o, l, e)'
    BY <1>7, <1>10 DEF Logged
  <1>12. IdsBacked'
    BY <1>5, <1>7, <1>8, <1>10 DEF IdsBacked, Backed, LogInv
  <1>13. ReadsBacked'
    BY <1>3, <1>4, <1>8 DEF ReadsBacked, LogInv
  <1>14. ReadStands'
    <2>1. \A a \in ToSet(queue'), o \in Owners, l \in Links :
            AppendsTo(a, o, l) /\ a.pc = "index" /\ EventIndex(o, l) \notin raced' => a.seen = Get(EventIndex(o, l))
      BY <1>2, <1>3, <1>4 DEF ReadStands, LogInv
    <2>2. \A a \in ToSet(queue'), o \in Owners, l \in Links :
            AppendsTo(a, o, l) /\ a.pc = "index" /\ EventIndex(o, l) \notin raced' => a.seen = Get(EventIndex(o, l))'
      BY <1>7, <2>1
    <2> QED BY <2>2 DEF ReadStands
  <1>15. IdsOnce'
    BY <1>2, <1>7 DEF IdsOnce, LogInv
  <1>16. NotListed'
    <2>1. EventIndex(p, m) \notin raced => ~Holds(EventIds(EventIndex(p, m)), f)
      BY <1>2, <1>3, <1>4 DEF NotListed, WillList, LogInv
    <2>2. \A a \in ToSet(queue'), o \in Owners, l \in Links, e \in Events :
            Appends(a, o, l, e) /\ WillList(a) /\ EventIndex(o, l) \notin raced =>
                ~Holds(EventIds(EventIndex(o, l)), e)
      BY <1>4, <1>9, <2>1 DEF NotListed, LogInv
    <2> QED BY <1>2, <1>7, <2>2 DEF NotListed
  <1>17. OneLists'
    <2>1. \A a \in ToSet(queue) \ {cur} : Appends(a, p, m, f) => EventIndex(p, m) \in raced
      <3> SUFFICES ASSUME NEW a \in ToSet(queue) \ {cur}, Appends(a, p, m, f), EventIndex(p, m) \notin raced
                   PROVE  FALSE
        OBVIOUS
      <3>1. a.pc # "read"
        BY <1>2, <1>3, AppendClash DEF Appends
      <3> QED BY <1>2, <1>3, <1>4, <3>1 DEF OneLists, WillList, LogInv
    <2>2. \A a, c \in ToSet(queue'), o \in Owners, l \in Links, e \in Events :
            a # c /\ Appends(a, o, l, e) /\ Appends(c, o, l, e) /\ a.pc # "read" /\ WillList(c) =>
                EventIndex(o, l) \in raced
      <3> SUFFICES ASSUME NEW a \in ToSet(queue'), NEW c \in ToSet(queue'), NEW o \in Owners, NEW l \in Links,
                          NEW e \in Events, a # c, Appends(a, o, l, e), Appends(c, o, l, e), a.pc # "read", WillList(c)
                   PROVE  EventIndex(o, l) \in raced
        OBVIOUS
      <3>1. CASE a = x \/ c = x
        BY <1>4, <1>9, <2>1, <3>1
      <3>2. CASE a # x /\ c # x
        BY <1>4, <3>2 DEF OneLists, LogInv
      <3> QED BY <3>1, <3>2
    <2> QED BY <1>2, <2>2 DEF OneLists
  <1>18. AckedLogged'
    BY <1>2, <1>11 DEF AckedLogged, LogInv
  <1>19. StoredLogged'
    <2>1. ASSUME NEW o \in Owners, NEW l \in Links, NEW e \in Events, Event(o, e) \in DOMAIN kv',
                 kv'[Event(o, e)].link = l, EventIndex(o, l) \notin raced'
          PROVE  Logged(o, l, e)'
      <3>1. CASE Event(o, e) = Event(p, f)
        BY <1>5, <1>11, <2>1, <3>1, KeysDiffer
      <3>2. CASE Event(o, e) # Event(p, f)
        BY <1>2, <1>5, <1>11, <2>1, <3>2 DEF StoredLogged, LogInv, Agree
      <3> QED BY <3>1, <3>2
    <2> QED BY <2>1 DEF StoredLogged
  <1>20. RepeatLogged'
    BY <1>2, <1>3, <1>4, <1>11 DEF RepeatLogged, LogInv
  <1> QED BY <1>12, <1>13, <1>14, <1>15, <1>16, <1>17, <1>18, <1>19, <1>20 DEF LogInv

LEMMA LogReads == ASSUME TypeInv, TurnsInv, LogInv, AppendReadIndex PROVE LogInv'
  <1>1. PICK p, m, f, i, x : /\ p = req.owner /\ m = req.link /\ f = req.event
                             /\ i = EventIndex(p, m) /\ x = Now("index", Get(i))
    OBVIOUS
  <1>2. /\ queue # <<>> /\ req.op = "append" /\ cur.pc = "written" /\ Awaits(x)
        /\ p \in Owners /\ m \in Links /\ f \in Events /\ UNCHANGED <<kv, raced, acked>>
    BY <1>1, DoAppendReadIndex DEF ghosts
  <1>3. /\ Goes(x) /\ x.pc = "index" /\ x.seen = Get(i) /\ x.req = req
        /\ Appends(cur, p, m, f) /\ Appends(x, p, m, f)
    BY <1>1, <1>2, NowGoes, NowFacts DEF Appends, AppendsTo, req
  <1>4. ToSet(queue') = (ToSet(queue) \ {cur}) \cup {x} /\ cur \in ToSet(queue)
    BY <1>2, <1>3, GoesFacts
  <1>5. \A k : EventIds(k)' = EventIds(k) /\ Get(k)' = Get(k)
    BY <1>2, AgreeAll, AgreeGet
  <1>6. \A o, l, e : Backed(o, l, e)' <=> Backed(o, l, e)
    BY <1>2 DEF Backed
  <1>7. /\ \A o, l, e : Appends(x, o, l, e) <=> Appends(cur, o, l, e)
        /\ \A o, l : AppendsTo(x, o, l) <=> o = p /\ l = m
    BY <1>3 DEF Appends, AppendsTo, req
  <1>8. \A o, l, e : Logging(o, l, e)' <=> Logging(o, l, e)
    BY <1>2, <1>3, <1>4, <1>7 DEF Logging
  <1>9. \A o, l, e : Logged(o, l, e)' <=> Logged(o, l, e)
    BY <1>5, <1>8 DEF Logged
  <1>10. IdsBacked'
    BY <1>5, <1>6, <1>8 DEF IdsBacked, LogInv
  <1>11. ReadsBacked'
    <2>1. \A e : x.seen # <<>> /\ Holds(x.seen[1], e) => Holds(EventIds(EventIndex(p, m)), e)
      BY <1>1, <1>3 DEF Get, EventIds
    <2>2. ASSUME NEW c \in ToSet(queue'), NEW o \in Owners, NEW l \in Links, NEW e \in Events,
                 AppendsTo(c, o, l), c.pc = "index", c.seen # <<>>, Holds(c.seen[1], e)
          PROVE  Backed(o, l, e)
      <3>1. CASE c = x
        BY <1>7, <2>1, <2>2, <3>1 DEF IdsBacked, LogInv
      <3>2. CASE c # x
        BY <1>4, <2>2, <3>2 DEF ReadsBacked, LogInv
      <3> QED BY <3>1, <3>2
    <2> QED BY <1>6, <2>2 DEF ReadsBacked
  <1>12. ReadStands'
    <2>1. \A c \in ToSet(queue'), o \in Owners, l \in Links :
            AppendsTo(c, o, l) /\ c.pc = "index" /\ EventIndex(o, l) \notin raced => c.seen = Get(EventIndex(o, l))
      BY <1>1, <1>3, <1>4, <1>7 DEF ReadStands, LogInv
    <2>2. \A c \in ToSet(queue'), o \in Owners, l \in Links :
            AppendsTo(c, o, l) /\ c.pc = "index" /\ EventIndex(o, l) \notin raced' => c.seen = Get(EventIndex(o, l))'
      BY <1>2, <1>5, <2>1
    <2> QED BY <2>2 DEF ReadStands
  <1>13. IdsOnce'
    BY <1>2, <1>5 DEF IdsOnce, LogInv
  <1>14. WillList(cur) /\ WillList(x)
    BY <1>2, <1>3 DEF WillList
  <1>15. NotListed'
    <2>1. \A a \in ToSet(queue'), o \in Owners, l \in Links, e \in Events :
            Appends(a, o, l, e) /\ WillList(a) /\ EventIndex(o, l) \notin raced =>
                ~Holds(EventIds(EventIndex(o, l)), e)
      BY <1>4, <1>7, <1>14 DEF NotListed, LogInv
    <2> QED BY <1>2, <1>5, <2>1 DEF NotListed
  <1>16. OneLists'
    <2>1. \A a, c \in ToSet(queue'), o \in Owners, l \in Links, e \in Events :
            a # c /\ Appends(a, o, l, e) /\ Appends(c, o, l, e) /\ a.pc # "read" /\ WillList(c) =>
                EventIndex(o, l) \in raced
      BY <1>2, <1>4, <1>7, <1>14 DEF OneLists, LogInv
    <2> QED BY <1>2, <2>1 DEF OneLists
  <1>17. AckedLogged' /\ StoredLogged'
    BY <1>2, <1>9 DEF AckedLogged, StoredLogged, LogInv
  <1>18. RepeatLogged'
    BY <1>2, <1>3, <1>4, <1>9 DEF RepeatLogged, LogInv
  <1> QED BY <1>10, <1>11, <1>12, <1>13, <1>15, <1>16, <1>17, <1>18 DEF LogInv

(* What an append writes to the index: what it read, and its event. *)
LEMMA IndexWritten ==
    ASSUME TypeInv, TurnsInv, LogInv, AppendIndex, NEW o, NEW l, NEW e, NEW i,
           o = req.owner, l = req.link, e = req.event, i = EventIndex(o, l)
    PROVE  /\ queue # <<>> /\ Appends(cur, o, l, e) /\ cur.pc = "index" /\ cur \in ToSet(queue)
           /\ o \in Owners /\ l \in Links /\ e \in Events
           /\ ToSet(queue') = ToSet(queue) \ {cur} /\ UNCHANGED <<raced, reader>>
           /\ acked' = acked \cup {<<i, e>>} /\ \A k : k # i => Agree(k)
           /\ \E ids, s \in Seq(Events) :
                 /\ s = Append(ids, e) /\ EventIds(i)' = s /\ (i \notin raced => ids = EventIds(i))
                 /\ \A x : Holds(ids, x) => cur.seen # <<>> /\ Holds(cur.seen[1], x)
  <1>1. o = req.owner /\ l = req.link /\ e = req.event /\ i = EventIndex(o, l)
    OBVIOUS
  <1>2. /\ queue # <<>> /\ req.op = "append" /\ cur.pc = "index" /\ Ends
        /\ o \in Owners /\ l \in Links /\ e \in Events /\ UNCHANGED <<raced, reader>>
        /\ acked' = acked \cup {<<i, e>>} /\ cur.seen \in Opt(Seq(Events))
    BY <1>1, DoAppendIndex
  <1>3. PICK ids \in Seq(Events) : ids = (IF cur.seen = <<>> THEN <<>> ELSE cur.seen[1]) /\ Set(i, Append(ids, e))
    BY <1>1, DoAppendIndex
  <1>4. ToSet(queue') = ToSet(queue) \ {cur} /\ cur \in ToSet(queue)
    BY <1>2, EndsFacts
  <1>5. Appends(cur, o, l, e)
    BY <1>1, <1>2 DEF Appends, AppendsTo, req
  <1>6. PICK s \in Seq(Events) : s = Append(ids, e)
    <2>1. Append(ids, e) \in Seq(Events)
      BY <1>2
    <2> QED BY <2>1
  <1>7. i \in DOMAIN kv' /\ kv'[i] = s /\ \A k : k # i => Agree(k)
    <2>1. Set(i, s)
      BY <1>3, <1>6
    <2> QED BY <2>1, SetFacts
  <1>8. EventIds(i)' = s
    BY <1>7 DEF EventIds
  <1>9. i \notin raced => ids = EventIds(i)
    <2>1. i \notin raced => cur.seen = Get(i)
      BY <1>1, <1>2, <1>4, <1>5 DEF ReadStands, Appends, LogInv
    <2>2. ids = IF cur.seen = <<>> THEN <<>> ELSE cur.seen[1]
      BY <1>3
    <2>3. CASE i \in DOMAIN kv
      <3>1. PICK v : v = kv[i]
        OBVIOUS
      <3>2. Get(i) = <<v>> /\ EventIds(i) = v /\ <<v>> # <<>> /\ <<v>>[1] = v
        BY <2>3, <3>1 DEF Get, EventIds
      <3> QED BY <2>1, <2>2, <3>2
    <2>4. CASE i \notin DOMAIN kv
      BY <2>1, <2>2, <2>4 DEF Get, EventIds
    <2> QED BY <2>3, <2>4
  <1>10. \A x : Holds(ids, x) => cur.seen # <<>> /\ Holds(cur.seen[1], x)
    BY <1>3 DEF Holds
  <1>11. \E t, u \in Seq(Events) : /\ u = Append(t, e) /\ EventIds(i)' = u /\ (i \notin raced => t = EventIds(i))
                                   /\ \A x : Holds(t, x) => cur.seen # <<>> /\ Holds(cur.seen[1], x)
    BY <1>6, <1>8, <1>9, <1>10
  <1> QED BY <1>2, <1>4, <1>5, <1>7, <1>11

LEMMA LogIndexes == ASSUME TypeInv, TurnsInv, LogInv, AppendIndex PROVE LogInv'
  <1>1. PICK p, m, f, i : p = req.owner /\ m = req.link /\ f = req.event /\ i = EventIndex(p, m)
    OBVIOUS
  <1>2. /\ queue # <<>> /\ Appends(cur, p, m, f) /\ cur.pc = "index" /\ cur \in ToSet(queue)
        /\ p \in Owners /\ m \in Links /\ f \in Events
        /\ ToSet(queue') = ToSet(queue) \ {cur} /\ UNCHANGED raced
        /\ acked' = acked \cup {<<i, f>>} /\ \A k : k # i => Agree(k)
    BY <1>1, IndexWritten
  <1>3. PICK ids, s \in Seq(Events) :
            /\ s = Append(ids, f) /\ EventIds(i)' = s /\ (i \notin raced => ids = EventIds(i))
            /\ \A x : Holds(ids, x) => cur.seen # <<>> /\ Holds(cur.seen[1], x)
    BY <1>1, IndexWritten
  <1>4. s = Append(ids, f)
    BY <1>3
  <1>5. /\ EventIds(i)' = s /\ \A x : Holds(s, x) <=> Holds(ids, x) \/ x = f
        /\ NoRepeats(ids) /\ ~Holds(ids, f) => NoRepeats(s)
    BY <1>2, <1>3, <1>4, HoldsAppend
  <1>6. \A k : k # i => EventIds(k)' = EventIds(k) /\ Get(k)' = Get(k)
    BY <1>2, AgreeGet
  <1>7. \A o, e : Agree(Event(o, e))
    BY <1>1, <1>2, KeysDiffer
  <1>8. \A o, l, e : Backed(o, l, e)' <=> Backed(o, l, e)
    BY <1>2, <1>7 DEF Backed, Agree
  <1>9. \A o, l, e : Logging(o, l, e)' => Logging(o, l, e)
    BY <1>2 DEF Logging
  <1>10. \A o, l, e : Logging(o, l, e) => Logging(o, l, e)' \/ (o = p /\ l = m /\ e = f)
    BY <1>2 DEF Logging, Appends, AppendsTo
  <1>11. \A o, l : EventIndex(o, l) # i \/ (o = p /\ l = m)
    BY <1>1, KeysDiffer
  <1>12. \A o, l, e : EventIndex(o, l) \notin raced => (Logged(o, l, e) => Logged(o, l, e)')
    <2> SUFFICES ASSUME NEW o, NEW l, NEW e, EventIndex(o, l) \notin raced, Logged(o, l, e) PROVE Logged(o, l, e)'
      OBVIOUS
    <2>1. CASE EventIndex(o, l) = i
      <3>1. Holds(EventIds(i), e) => Holds(EventIds(i)', e)
        BY <1>3, <1>5, <2>1
      <3>2. o = p /\ l = m /\ e = f => Holds(EventIds(i)', e)
        BY <1>5
      <3> QED BY <1>10, <2>1, <3>1, <3>2 DEF Logged
    <2>2. CASE EventIndex(o, l) # i
      BY <1>1, <1>6, <1>10, <2>2 DEF Logged
    <2> QED BY <2>1, <2>2
  <1>13. IdsBacked'
    <2>1. ASSUME NEW o \in Owners, NEW l \in Links, NEW e \in Events,
                 Holds(EventIds(EventIndex(o, l))', e) \/ Logging(o, l, e)'
          PROVE  Backed(o, l, e)
      <3>1. CASE Logging(o, l, e)'
        BY <1>9, <3>1 DEF IdsBacked, LogInv
      <3>2. CASE Holds(EventIds(EventIndex(o, l))', e) /\ EventIndex(o, l) # i
        BY <1>6, <3>2 DEF IdsBacked, LogInv
      <3>3. CASE Holds(EventIds(EventIndex(o, l))', e) /\ EventIndex(o, l) = i
        <4>1. o = p /\ l = m /\ (e = f \/ (cur.seen # <<>> /\ Holds(cur.seen[1], e)))
          BY <1>3, <1>5, <1>11, <3>3
        <4>2. CASE e = f
          BY <1>2, <4>1, <4>2 DEF IdsBacked, Logging, LogInv
        <4>3. CASE cur.seen # <<>> /\ Holds(cur.seen[1], e)
          BY <1>2, <4>1, <4>3 DEF ReadsBacked, Appends, LogInv
        <4> QED BY <4>1, <4>2, <4>3
      <3> QED BY <2>1, <3>1, <3>2, <3>3
    <2> QED BY <1>8, <2>1 DEF IdsBacked
  <1>14. ReadsBacked'
    BY <1>2, <1>8 DEF ReadsBacked, LogInv
  <1>15. ReadStands'
    <2>1. ASSUME NEW c \in ToSet(queue'), NEW o \in Owners, NEW l \in Links,
                 AppendsTo(c, o, l), c.pc = "index", EventIndex(o, l) \notin raced
          PROVE  c.seen = Get(EventIndex(o, l))'
      <3>1. EventIndex(o, l) # i
        <4> SUFFICES ASSUME EventIndex(o, l) = i PROVE FALSE
          OBVIOUS
        <4>1. AppendsTo(cur, o, l)
          BY <1>2, <1>11 DEF Appends
        <4> QED BY <1>2, <2>1, <4>1, AppendClash
      <3> QED BY <1>2, <1>6, <2>1, <3>1 DEF ReadStands, LogInv
    <2> QED BY <1>2, <2>1 DEF ReadStands
  <1>16. i \notin raced => ~Holds(ids, f) /\ NoRepeats(ids)
    BY <1>1, <1>2, <1>3 DEF NotListed, WillList, IdsOnce, LogInv
  <1>17. IdsOnce'
    <2>1. \A o \in Owners, l \in Links : EventIndex(o, l) \notin raced => NoRepeats(EventIds(EventIndex(o, l))')
      BY <1>5, <1>6, <1>16 DEF IdsOnce, LogInv
    <2> QED BY <1>2, <2>1 DEF IdsOnce
  <1>18. NotListed'
    <2>1. ASSUME NEW c \in ToSet(queue'), NEW o \in Owners, NEW l \in Links, NEW e \in Events,
                 Appends(c, o, l, e), WillList(c), EventIndex(o, l) \notin raced, Holds(EventIds(EventIndex(o, l))', e)
          PROVE  FALSE
      <3>1. ~Holds(EventIds(EventIndex(o, l)), e)
        BY <1>2, <2>1 DEF NotListed, LogInv
      <3>2. EventIndex(o, l) = i
        BY <1>6, <2>1, <3>1
      <3>3. e = f /\ o = p /\ l = m
        BY <1>3, <1>5, <1>11, <2>1, <3>1, <3>2
      <3> QED BY <1>2, <2>1, <3>3 DEF OneLists, LogInv
    <2> QED BY <1>2, <2>1 DEF NotListed
  <1>19. OneLists'
    BY <1>2 DEF OneLists, LogInv
  <1>20. AckedLogged'
    <2>1. ASSUME NEW o \in Owners, NEW l \in Links, NEW e \in Events,
                 <<EventIndex(o, l), e>> \in acked', EventIndex(o, l) \notin raced
          PROVE  Logged(o, l, e)'
      <3>1. CASE <<EventIndex(o, l), e>> \in acked
        BY <1>12, <2>1, <3>1 DEF AckedLogged, LogInv
      <3>2. CASE EventIndex(o, l) = i /\ e = f
        BY <1>5, <3>2 DEF Logged
      <3> QED BY <1>2, <2>1, <3>1, <3>2
    <2> QED BY <1>2, <2>1 DEF AckedLogged
  <1>21. StoredLogged'
    <2>1. ASSUME NEW o \in Owners, NEW l \in Links, NEW e \in Events, Event(o, e) \in DOMAIN kv',
                 kv'[Event(o, e)].link = l, EventIndex(o, l) \notin raced
          PROVE  Logged(o, l, e)'
      BY <1>7, <1>12, <2>1 DEF StoredLogged, LogInv, Agree
    <2> QED BY <1>2, <2>1 DEF StoredLogged
  <1>22. RepeatLogged'
    BY <1>2, <1>12 DEF RepeatLogged, LogInv
  <1> QED BY <1>13, <1>14, <1>15, <1>17, <1>18, <1>19, <1>20, <1>21, <1>22 DEF LogInv

LEMMA LogStep == ASSUME TypeInv, VersInv, TurnsInv, LogInv, [Next]_vars PROVE LogInv'
  <1>1. CASE LinkTurn
    <2>1. Moves(LinkOps, LinkKinds) /\ UNCHANGED acked
      BY <1>1, LinkTurnMoves DEF ghosts
    <2> QED BY <2>1, LogOther DEF LinkOps, LinkKinds, EventKinds
  <1>2. CASE SessionTurn
    <2>1. Moves(SessionOps, SessionKinds) /\ UNCHANGED acked
      BY <1>2, SessionTurnMoves
    <2> QED BY <2>1, LogOther DEF SessionOps, SessionKinds, EventKinds
  <1>3. CASE AttemptTurn
    <2>1. Moves(AttemptOps, AttemptKinds) /\ UNCHANGED acked
      BY <1>3, AttemptTurnMoves DEF ghosts
    <2> QED BY <2>1, LogOther DEF AttemptOps, AttemptKinds, EventKinds
  <1>4. CASE EventTurn
    BY <1>4, LogWrites, LogReads, LogIndexes, LogEnds DEF EventTurn
  <1>5. CASE ListRecord \/ ListReturn \/ \E r \in ListRequests : StartList(r)
    <2>1. Moves({"list"}, {}) /\ UNCHANGED acked
      BY <1>5, ListTurnMoves, StartListMoves DEF ghosts
    <2> QED BY <2>1, LogOther
  <1>6. CASE \E r \in Requests : Start(r)
    BY <1>6, LogStarts
  <1>7. CASE Outside
    <2>1. Moves({}, MaterialKinds) /\ UNCHANGED acked
      BY <1>7, OutsideMoves
    <2> QED BY <2>1, LogOther DEF MaterialKinds, EventKinds
  <1> QED BY <1>1, <1>2, <1>3, <1>4, <1>5, <1>6, <1>7, StepCases

LEMMA LogInit == ASSUME Init PROVE TypeInv /\ VersInv /\ TurnsInv /\ LogInv
  <1>1. ToSet(queue) = {} /\ DOMAIN kv = {} /\ acked = {}
    BY DEF Init, ToSet
  <1>2. TypeInv /\ VersInv /\ TurnsInv
    BY <1>1, TypeInit DEF VersInv, TurnsInv
  <1>3. \A k : EventIds(k) = <<>> /\ \A e : ~Holds(EventIds(k), e)
    BY <1>1 DEF EventIds, Holds
  <1>4. \A o, l, e : ~Logging(o, l, e)
    BY <1>1 DEF Logging
  <1>5. IdsBacked /\ ReadsBacked /\ ReadStands /\ NotListed /\ OneLists /\ AckedLogged /\ StoredLogged /\ RepeatLogged
    BY <1>1, <1>3, <1>4
       DEF IdsBacked, ReadsBacked, ReadStands, NotListed, OneLists, AckedLogged, StoredLogged, RepeatLogged
  <1>6. IdsOnce
    BY <1>3 DEF IdsOnce, NoRepeats
  <1> QED BY <1>2, <1>5, <1>6 DEF LogInv

LEMMA LogAnswers == ASSUME TypeInv, LogInv PROVE LogSound
  <1>1. IndexBacked
    <2>1. ASSUME NEW o \in Owners, NEW l \in Links, NEW n \in DOMAIN EventIds(EventIndex(o, l)), NEW e,
                 e = EventIds(EventIndex(o, l))[n]
          PROVE  Event(o, e) \in DOMAIN kv /\ (kv[Event(o, e)].link = l \/ Event(o, e) \in raced)
      <3>1. EventIds(EventIndex(o, l)) \in Seq(Events)
        BY EventTyped
      <3>2. e \in Events /\ Holds(EventIds(EventIndex(o, l)), e)
        BY <2>1, <3>1 DEF Holds
      <3> QED BY <3>2 DEF IdsBacked, Backed, LogInv
    <2> QED BY <2>1 DEF IndexBacked
  <1>2. AckedListed
    <2>1. ASSUME AtRest, NEW a \in acked, a[1] \notin raced
          PROVE  Cardinality({n \in DOMAIN EventIds(a[1]) : EventIds(a[1])[n] = a[2]}) = 1
      <3>1. PICK o \in Owners, l \in Links, e \in Events : a = <<EventIndex(o, l), e>>
        BY DEF TypeInv
      <3>2. PICK s : s = EventIds(EventIndex(o, l))
        OBVIOUS
      <3>3. ToSet(queue) = {} /\ a[1] = EventIndex(o, l) /\ a[2] = e
        BY <2>1, <3>1 DEF AtRest, ToSet
      <3>4. ~Logging(o, l, e)
        BY <3>3 DEF Logging
      <3>5. Holds(s, e)
        BY <2>1, <3>1, <3>2, <3>3, <3>4 DEF AckedLogged, Logged, LogInv
      <3>6. NoRepeats(s)
        BY <2>1, <3>2, <3>3 DEF IdsOnce, LogInv
      <3>7. PICK n \in DOMAIN s : s[n] = e
        BY <3>5 DEF Holds
      <3>8. {m \in DOMAIN s : s[m] = e} = {n}
        BY <3>6, <3>7 DEF NoRepeats
      <3>9. Cardinality({n}) = 1
        BY FS_Singleton
      <3> QED BY <3>2, <3>3, <3>8, <3>9
    <2> QED BY <2>1 DEF AckedListed
  <1>3. TypeOK
    BY TypesHold
  <1> QED BY <1>1, <1>2, <1>3 DEF LogSound

(* An event index names stored events of its link only, at every moment,    *)
(* and with no call suspended every acknowledged event exactly once,        *)
(* however appends overlapped, were repeated or reused an id                *)
(* (KeyValuePeerLinkEventStore.append), unless two of the link were started  *)
(* in one turn.                                                             *)
THEOREM LogIsSound == Spec => []LogSound
  <1>1. Init => TypeInv /\ VersInv /\ TurnsInv /\ LogInv
    BY LogInit
  <1>2. TypeInv /\ VersInv /\ TurnsInv /\ LogInv /\ [Next]_vars => (TypeInv /\ VersInv /\ TurnsInv /\ LogInv)'
    BY TypeStep, VersStep, TurnsStep, LogStep
  <1>3. TypeInv /\ LogInv => LogSound
    BY LogAnswers
  <1> QED BY <1>1, <1>2, <1>3, PTL DEF Spec

----------------------------------------------------------------------------
(* Pages of the event log.                                                 *)

Begins(s, t) == Len(s) <= Len(t) /\ \A n \in 1 .. Len(s) : s[n] = t[n]

(* What the client r has is the start of the index s, up to its cursor. *)
Paged(r, s) ==
    /\ Begins(r.got, s)
    /\ r.pc = "page" => Begins(r.ids, s) /\ Begins(r.got, r.ids)
    /\ r.cursor = <<>> /\ r.pc # "done" => r.got = <<>>
    /\ r.cursor # <<>> => Len(r.got) # 0 /\ r.got[Len(r.got)] = r.cursor[1]

PagesInv == reader.index \notin raced => Paged(reader, EventIds(reader.index))

LEMMA BeginsAppend ==
    ASSUME NEW s \in Seq(Events), NEW t \in Seq(Events), NEW e \in Events, Begins(s, t)
    PROVE  Begins(s, Append(t, e))
  <1>1. PICK u, m, n : u = Append(t, e) /\ m = Len(s) /\ n = Len(t)
    OBVIOUS
  <1>2. m \in Nat /\ n \in Nat /\ Len(u) = n + 1 /\ m <= n /\ \A i \in 1 .. n : u[i] = t[i]
    BY <1>1 DEF Begins
  <1>3. m <= n + 1 /\ \A i \in 1 .. m : i \in 1 .. n
    BY <1>2
  <1>4. \A i \in 1 .. m : s[i] = u[i]
    BY <1>1, <1>2, <1>3 DEF Begins
  <1> QED BY <1>1, <1>2, <1>3, <1>4 DEF Begins

LEMMA PagedGrows ==
    ASSUME NEW r, ReaderOK(r), NEW s \in Seq(Events), NEW e \in Events, Paged(r, s)
    PROVE  Paged(r, Append(s, e))
  <1>1. r.got \in Seq(Events) /\ r.ids \in Seq(Events)
    BY DEF ReaderOK
  <1>2. Begins(r.got, Append(s, e))
    BY <1>1, BeginsAppend DEF Paged
  <1>3. Begins(r.ids, s) => Begins(r.ids, Append(s, e))
    BY <1>1, BeginsAppend
  <1> QED BY <1>2, <1>3 DEF Paged

(* A page that starts where the client stopped continues what it has. *)
LEMMA PageContinues ==
    ASSUME NEW g \in Seq(Events), NEW s \in Seq(Events), Begins(g, s), NEW m \in 0 .. Len(s), Len(g) <= m
    PROVE  LET h == g \o SubSeq(s, Len(g) + 1, m) IN
           Len(h) = m /\ \A i \in 1 .. m : h[i] = s[i]
  <1>1. PICK n, w, h : n = Len(g) /\ w = SubSeq(s, Len(g) + 1, m) /\ h = g \o w
    OBVIOUS
  <1>2. n \in Nat /\ m \in Nat /\ n <= m /\ \A i \in n + 1 .. m : i \in DOMAIN s
    BY <1>1
  <1>3. w \in Seq(Events) /\ Len(w) = m - n /\ \A i \in 1 .. m - n : w[i] = s[n + i]
    <2>1. PICK a : a = n + 1
      OBVIOUS
    <2>2. w = SubSeq(s, a, m) /\ a \in 1 .. Len(s) + 1 /\ m \in a - 1 .. Len(s)
      BY <1>1, <1>2, <2>1
    <2>3. w \in Seq(Events) /\ Len(w) = m - a + 1 /\ \A i \in 1 .. m - a + 1 : w[i] = s[a + i - 1]
      BY <2>2, SubSeqProperties
    <2>4. m - a + 1 = m - n /\ \A i \in 1 .. m - n : a + i - 1 = n + i
      BY <1>2, <2>1
    <2> QED BY <2>3, <2>4
  <1>4. Len(h) = n + Len(w) /\ \A i \in 1 .. n + Len(w) : h[i] = IF i <= n THEN g[i] ELSE w[i - n]
    BY <1>1, <1>3, ConcatProperties
  <1>5. n + Len(w) = m
    BY <1>2, <1>3
  <1>6. ASSUME NEW i \in 1 .. m PROVE h[i] = s[i]
    <2>1. CASE i <= n
      <3>1. i \in 1 .. n
        BY <1>2, <2>1
      <3> QED BY <1>1, <1>4, <1>5, <2>1, <3>1 DEF Begins
    <2>2. CASE ~(i <= n)
      <3>1. i - n \in 1 .. m - n /\ n + (i - n) = i
        BY <1>2, <2>2
      <3> QED BY <1>3, <1>4, <1>5, <2>2, <3>1
    <2> QED BY <2>1, <2>2
  <1> QED BY <1>1, <1>4, <1>5, <1>6

(* The cursor is where the client stopped. *)
LEMMA PageAtCursor ==
    ASSUME NEW g \in Seq(Events), NEW s \in Seq(Events), Begins(g, s), NoRepeats(s), NEW c \in Opt(Events),
           c = <<>> => g = <<>>, c # <<>> => Len(g) # 0 /\ g[Len(g)] = c[1]
    PROVE  PageStart(s, c) = Len(g)
  <1>1. CASE c = <<>>
    BY <1>1, PageStartFacts
  <1>2. CASE c # <<>>
    <2>1. PICK n, k : n = Len(g) /\ k = PageStart(s, c)
      OBVIOUS
    <2>2. n \in 1 .. Len(s) /\ s[n] = c[1]
      <3>1. n \in Nat /\ n # 0 /\ n <= Len(s) /\ Len(s) \in Nat
        BY <1>2, <2>1 DEF Begins
      <3>2. n \in 1 .. n /\ n \in 1 .. Len(s)
        BY <3>1
      <3> QED BY <1>2, <2>1, <3>2 DEF Begins
    <2>3. DOMAIN s = 1 .. Len(s)
      OBVIOUS
    <2>4. Contains(s, c[1])
      BY <2>2, <2>3 DEF Contains
    <2>5. k \in 1 .. Len(s) /\ s[k] = c[1]
      BY <1>2, <2>1, <2>4, PageStartFacts
    <2>6. k = n
      BY <2>2, <2>3, <2>5 DEF NoRepeats
    <2> QED BY <2>1, <2>6
  <1> QED BY <1>1, <1>2

LEMMA BeginsTrans ==
    ASSUME NEW a \in Seq(Events), NEW b \in Seq(Events), NEW c \in Seq(Events), Begins(a, b), Begins(b, c)
    PROVE  Begins(a, c)
  <1>1. PICK l, m, n : l = Len(a) /\ m = Len(b) /\ n = Len(c)
    OBVIOUS
  <1>2. l \in Nat /\ m \in Nat /\ n \in Nat /\ l <= m /\ m <= n
    BY <1>1 DEF Begins
  <1>3. l <= n /\ \A i \in 1 .. l : i \in 1 .. m
    BY <1>2
  <1> QED BY <1>1, <1>3 DEF Begins

LEMMA BeginsOnce ==
    ASSUME NEW s \in Seq(Events), NEW t \in Seq(Events), Begins(s, t), NoRepeats(t)
    PROVE  NoRepeats(s)
  <1>1. PICK m, n : m = Len(s) /\ n = Len(t)
    OBVIOUS
  <1>2. m \in Nat /\ n \in Nat /\ DOMAIN s = 1 .. m /\ DOMAIN t = 1 .. n /\ m <= n
    BY <1>1 DEF Begins
  <1>3. \A i \in 1 .. m : i \in 1 .. n /\ s[i] = t[i]
    BY <1>1, <1>2 DEF Begins
  <1> QED BY <1>2, <1>3 DEF NoRepeats

LEMMA PageEnds == ASSUME TypeInv, LogInv, PagesInv, PageEnd PROVE PagesInv'
  <1>1. PICK i, s, g, c, h, d : /\ i = reader.index /\ s = reader.ids /\ g = reader.got /\ c = reader.cursor
                                /\ h = reader'.got /\ d = reader'.cursor
    OBVIOUS
  <1>2. reader.pc = "page" /\ reader'.index = i /\ reader'.pc \in {"idle", "done"} /\ UNCHANGED <<kv, raced>>
    BY <1>1, DoPageEnd
  <1>3. PICK n \in 0 .. Len(s), m \in 0 .. Len(s) :
            /\ n = PageStart(s, c) /\ n <= m /\ h = g \o SubSeq(s, n + 1, m)
            /\ \/ d = <<>> /\ reader'.pc = "done"
               \/ n < m /\ d = <<s[m]>>
    BY <1>1, DoPageEnd
  <1>4. PICK o \in Owners, l \in Links : i = EventIndex(o, l)
    BY <1>1 DEF TypeInv, ReaderOK
  <1>5. PICK t : t = EventIds(i)
    OBVIOUS
  <1>6. EventIds(i)' = t /\ t \in Seq(Events) /\ s \in Seq(Events) /\ g \in Seq(Events) /\ c \in Opt(Events)
    BY <1>1, <1>2, <1>4, <1>5, AgreeAll, AgreeGet, EventTyped DEF TypeInv, ReaderOK
  <1>7. h \in Seq(Events)
    <2>1. TypeInv'
      BY DoPageEnd
    <2> QED BY <1>1, <2>1 DEF TypeInv, ReaderOK
  <1>8. ASSUME i \notin raced PROVE Paged(reader', t)
    <2>1. /\ Begins(s, t) /\ Begins(g, s) /\ (c = <<>> => g = <<>>)
          /\ c # <<>> => Len(g) # 0 /\ g[Len(g)] = c[1]
      BY <1>1, <1>2, <1>5, <1>8 DEF PagesInv, Paged
    <2>2. NoRepeats(t)
      BY <1>4, <1>5, <1>8 DEF IdsOnce, LogInv
    <2>3. NoRepeats(s)
      BY <1>6, <2>1, <2>2, BeginsOnce
    <2>4. n = Len(g)
      BY <1>3, <1>6, <2>1, <2>3, PageAtCursor
    <2>5. Len(h) = m /\ \A k \in 1 .. m : h[k] = s[k]
      BY <1>3, <1>6, <2>1, <2>4, PageContinues
    <2>6. m \in Nat /\ m <= Len(s)
      BY <1>3, <1>6
    <2>7. Begins(h, s)
      BY <2>5, <2>6 DEF Begins
    <2>8. Begins(h, t)
      BY <1>6, <1>7, <2>1, <2>7, BeginsTrans
    <2>9. d # <<>> => Len(h) # 0 /\ h[Len(h)] = d[1]
      <3> SUFFICES ASSUME d # <<>> PROVE Len(h) # 0 /\ h[Len(h)] = d[1]
        OBVIOUS
      <3>1. n < m /\ d[1] = s[m] /\ n \in Nat
        BY <1>3, <1>6
      <3>2. m # 0 /\ m \in 1 .. m
        BY <2>6, <3>1
      <3> QED BY <2>5, <3>1, <3>2
    <2>10. d = <<>> => reader'.pc = "done"
      BY <1>3
    <2> QED BY <1>1, <1>2, <2>8, <2>9, <2>10 DEF Paged
  <1>9. EventIds(reader.index)' = EventIds(i)'
    BY <1>2 DEF EventIds
  <1> QED BY <1>2, <1>6, <1>8, <1>9 DEF PagesInv

LEMMA PageBegins == ASSUME TypeInv, PagesInv, NEW limit \in Limits, PageBegin(limit) PROVE PagesInv'
  <1>1. PICK i, g, c, t : i = reader.index /\ g = reader.got /\ c = reader.cursor /\ t = EventIds(i)
    OBVIOUS
  <1>2. /\ reader.pc = "idle" /\ t \in Seq(Events) /\ UNCHANGED <<kv, raced>>
        /\ reader' = [index |-> i, pc |-> "page", cursor |-> c, limit |-> limit, ids |-> t, got |-> g]
    BY <1>1, DoPageBegin
  <1>3. reader'.index = i /\ reader'.pc = "page" /\ reader'.cursor = c /\ reader'.ids = t /\ reader'.got = g
    BY <1>2
  <1>4. EventIds(i)' = t
    BY <1>1, <1>2, AgreeAll, AgreeGet
  <1>5. EventIds(reader.index)' = EventIds(i)'
    BY <1>3 DEF EventIds
  <1>6. Begins(t, t)
    <2>1. Len(t) \in Nat
      BY <1>2
    <2> QED BY <2>1 DEF Begins
  <1>7. i \notin raced => Paged(reader', t)
    BY <1>1, <1>2, <1>3, <1>6 DEF PagesInv, Paged
  <1> QED BY <1>2, <1>3, <1>4, <1>5, <1>7 DEF PagesInv

(* Any other step leaves the client alone and at most appends to the index. *)
LEMMA PagesFrame ==
    ASSUME TypeInv, PagesInv, UNCHANGED reader, raced \subseteq raced', NEW i, i = reader.index,
           i \notin raced' => EventIds(i)' = EventIds(i) \/ \E e \in Events : EventIds(i)' = Append(EventIds(i), e)
    PROVE  PagesInv'
  <1>1. PICK t, u : t = EventIds(i) /\ u = EventIds(i)'
    OBVIOUS
  <1>2. t \in Seq(Events) /\ ReaderOK(reader)
    <2>1. PICK o \in Owners, l \in Links : i = EventIndex(o, l)
      BY DEF TypeInv, ReaderOK
    <2> QED BY <1>1, <2>1, EventTyped DEF TypeInv
  <1>3. i \notin raced' => Paged(reader, u)
    <2> SUFFICES ASSUME i \notin raced' PROVE Paged(reader, u)
      OBVIOUS
    <2>1. Paged(reader, t)
      BY <1>1 DEF PagesInv
    <2>2. CASE u = t
      BY <2>1, <2>2
    <2>3. ASSUME NEW e \in Events, u = Append(t, e) PROVE Paged(reader, u)
      BY <1>2, <2>1, <2>3, PagedGrows
    <2> QED BY <1>1, <2>2, <2>3
  <1>4. EventIds(reader.index)' = u /\ reader'.index = i
    BY <1>1 DEF EventIds
  <1> QED BY <1>3, <1>4 DEF PagesInv

LEMMA PagesStep == ASSUME TypeInv, VersInv, TurnsInv, LogInv, PagesInv, [Next]_vars PROVE PagesInv'
  <1>1. PICK i : i = reader.index
    OBVIOUS
  <1>2. PICK o \in Owners, l \in Links : i = EventIndex(o, l)
    BY <1>1 DEF TypeInv, ReaderOK
  <1>3. ASSUME NEW moving, NEW kinds, Moves(moving, kinds), \A k \in kinds : k \notin EventKinds, UNCHANGED reader
        PROVE  PagesInv'
    <2>1. Agree(i) /\ raced \subseteq raced'
      BY <1>2, <1>3, KindFacts DEF Moves
    <2>2. EventIds(i)' = EventIds(i)
      BY <2>1, AgreeGet
    <2> QED BY <1>1, <1>3, <2>1, <2>2, PagesFrame
  <1>4. CASE LinkTurn
    <2>1. Moves(LinkOps, LinkKinds) /\ UNCHANGED reader
      BY <1>4, LinkTurnMoves
    <2> QED BY <1>3, <2>1 DEF LinkKinds, EventKinds
  <1>5. CASE SessionTurn
    <2>1. Moves(SessionOps, SessionKinds) /\ UNCHANGED reader
      BY <1>5, SessionTurnMoves
    <2> QED BY <1>3, <2>1 DEF SessionKinds, EventKinds
  <1>6. CASE AttemptTurn
    <2>1. Moves(AttemptOps, AttemptKinds) /\ UNCHANGED reader
      BY <1>6, AttemptTurnMoves
    <2> QED BY <1>3, <2>1 DEF AttemptKinds, EventKinds
  <1>7. CASE ListRecord \/ ListReturn \/ \E r \in ListRequests : StartList(r)
    <2>1. Moves({"list"}, {}) /\ UNCHANGED reader
      BY <1>7, ListTurnMoves, StartListMoves
    <2> QED BY <1>3, <2>1
  <1>8. CASE \E r \in Requests : Start(r)
    <2>1. PICK r \in Requests : Start(r)
      BY <1>8
    <2>2. Moves({r.op}, {}) /\ UNCHANGED reader
      BY <2>1, StartMoves
    <2> QED BY <1>3, <2>2
  <1>9. CASE Outside
    <2>1. Moves({}, MaterialKinds) /\ ((PageEnd \/ \E limit \in Limits : PageBegin(limit)) \/ UNCHANGED reader)
      BY <1>9, OutsideMoves
    <2>2. CASE UNCHANGED reader
      BY <1>3, <2>1, <2>2 DEF MaterialKinds, EventKinds
    <2> QED BY <2>1, <2>2, PageEnds, PageBegins
  <1>10. CASE AppendWrite
    <2>1. /\ UNCHANGED <<reader, raced>> /\ \E v : Set(Event(req.owner, req.event), v)
      BY <1>10, DoAppendWrite DEF ghosts
    <2>2. Agree(i)
      <3>1. PICK k, v : k = Event(req.owner, req.event) /\ Set(k, v)
        BY <2>1
      <3>2. i # k
        BY <1>2, <3>1, KeysDiffer
      <3> QED BY <3>1, <3>2, SetFacts
    <2>3. EventIds(i)' = EventIds(i)
      BY <2>2, AgreeGet
    <2> QED BY <1>1, <2>1, <2>3, PagesFrame
  <1>11. CASE AppendReadIndex \/ AppendRepeated \/ AppendRejected
    <2>1. UNCHANGED <<kv, reader, raced>>
      BY <1>11, DoAppendReadIndex, DoAppendRepeated, DoEnd DEF ghosts
    <2>2. EventIds(i)' = EventIds(i)
      BY <2>1, AgreeAll, AgreeGet
    <2> QED BY <1>1, <2>1, <2>2, PagesFrame
  <1>12. CASE AppendIndex
    <2>1. PICK p, m, f, j : p = req.owner /\ m = req.link /\ f = req.event /\ j = EventIndex(p, m)
      OBVIOUS
    <2>2. UNCHANGED <<reader, raced>> /\ (\A k : k # j => Agree(k)) /\ f \in Events
      BY <1>12, <2>1, IndexWritten
    <2>3. PICK ids, s \in Seq(Events) : s = Append(ids, f) /\ EventIds(j)' = s /\ (j \notin raced => ids = EventIds(j))
      BY <1>12, <2>1, IndexWritten
    <2>4. CASE i = j
      BY <1>1, <2>2, <2>3, <2>4, PagesFrame
    <2>5. CASE i # j
      <3>1. EventIds(i)' = EventIds(i)
        BY <2>2, <2>5, AgreeGet
      <3> QED BY <1>1, <2>2, <3>1, PagesFrame
    <2> QED BY <2>4, <2>5
  <1> QED BY <1>4, <1>5, <1>6, <1>7, <1>8, <1>9, <1>10, <1>11, <1>12, StepCases DEF EventTurn

LEMMA PagesAnswer == ASSUME TypeInv, PagesInv PROVE PagesExact
  <1> SUFFICES ASSUME reader.index \notin raced PROVE IsPrefix(reader.got, EventIds(reader.index))
    BY DEF PagesExact
  <1>1. PICK g, t : g = reader.got /\ t = EventIds(reader.index)
    OBVIOUS
  <1>2. g \in Seq(Events) /\ t \in Seq(Events)
    BY <1>1, EventTyped DEF TypeInv, ReaderOK
  <1>3. Begins(g, t)
    BY <1>1 DEF PagesInv, Paged
  <1>4. PICK n : n = Len(g)
    OBVIOUS
  <1>5. n \in Nat /\ Len(t) \in Nat /\ n <= Len(t) /\ \A k \in 1 .. n : g[k] = t[k] /\ g[k] \in Events
    BY <1>2, <1>3, <1>4 DEF Begins
  <1>6. SubSeq(g, 1, n) = SubSeq(t, 1, n)
    <2>1. PICK u, v : u = SubSeq(g, 1, n) /\ v = SubSeq(t, 1, n)
      OBVIOUS
    <2>2. /\ u \in Seq(Events) /\ Len(u) = IF 1 <= n THEN n - 1 + 1 ELSE 0
          /\ \A k \in 1 .. n - 1 + 1 : u[k] = g[1 + k - 1]
      BY <1>5, <2>1, SubSeqProperties
    <2>3. /\ v \in Seq(Events) /\ Len(v) = IF 1 <= n THEN n - 1 + 1 ELSE 0
          /\ \A k \in 1 .. n - 1 + 1 : v[k] = t[1 + k - 1]
      BY <1>5, <2>1, SubSeqProperties
    <2>4. n - 1 + 1 = n /\ (IF 1 <= n THEN n - 1 + 1 ELSE 0) = n /\ \A k \in 1 .. n : 1 + k - 1 = k
      BY <1>5
    <2>5. Len(u) = n /\ Len(v) = n /\ \A k \in 1 .. n : u[k] = v[k]
      BY <1>5, <2>2, <2>3, <2>4
    <2>6. u = v
      BY <2>2, <2>3, <2>5, SeqEqual
    <2> QED BY <2>1, <2>6
  <1> QED BY <1>1, <1>4, <1>5, <1>6 DEF IsPrefix

(* What a client has read page by page is the start of the index: no event  *)
(* is skipped or listed twice while appends go on                           *)
(* (KeyValuePeerLinkEventStore.listByPeerLinkId), because the index of a     *)
(* link whose appends were not raced only grows and repeats no id.          *)
THEOREM PagesAreExact == Spec => []PagesExact
  <1>1. Init => TypeInv /\ VersInv /\ TurnsInv /\ LogInv /\ PagesInv
    <2> SUFFICES ASSUME Init PROVE TypeInv /\ VersInv /\ TurnsInv /\ LogInv /\ PagesInv
      OBVIOUS
    <2>1. DOMAIN kv = {} /\ reader.pc = "idle" /\ reader.cursor = <<>> /\ reader.got = <<>>
      BY DEF Init
    <2>2. EventIds(reader.index) = <<>>
      BY <2>1 DEF EventIds
    <2>3. PagesInv
      BY <2>1, <2>2 DEF PagesInv, Paged, Begins
    <2> QED BY <2>3, LogInit
  <1>2. TypeInv /\ VersInv /\ TurnsInv /\ LogInv /\ PagesInv /\ [Next]_vars
            => (TypeInv /\ VersInv /\ TurnsInv /\ LogInv /\ PagesInv)'
    BY TypeStep, VersStep, TurnsStep, LogStep, PagesStep
  <1>3. TypeInv /\ PagesInv => PagesExact
    BY PagesAnswer
  <1> QED BY <1>1, <1>2, <1>3, PTL DEF Spec

----------------------------------------------------------------------------
(* Listings.                                                               *)

ListedKinds(r) == IF r.of = "recoverable" THEN SessionKinds ELSE AttemptKinds

(* The record v of key k belongs in the answer to r. *)
Belongs(r, k, v) ==
    /\ k \in RecordKeys /\ k[1] \in ListedKinds(r) /\ k[2] = r.owner
    /\ CASE r.of = "recoverable" -> IsRecoverableStatus(v.status)
         [] r.of = "pending"     -> IsPendingStatus(v.status)
         [] r.of = "link"        -> v.link = r.link

Listing(c) == c.req.op = "list"

Holding(k, v) == k \in DOMAIN kv /\ kv[k] = v

ListsTyped ==
    \A c \in ToSet(queue) : Listing(c) =>
        /\ \A k \in c.seen.todo : k[1] \in ListedKinds(c.req)
        /\ \A p \in c.seen.began \cup c.seen.out : p = <<p[1], p[2]>> /\ Belongs(c.req, p[1], p[2])

(* What belonged in the answer when the listing began and still stands will  *)
(* be in it.                                                               *)
ListsCover ==
    \A c \in ToSet(queue) : Listing(c) =>
        \A p \in c.seen.began : Holding(p[1], p[2]) => p[1] \in c.seen.todo \/ p \in c.seen.out

(* No stored record, and none that a listing began with, was written by the  *)
(* call numbered n.                                                        *)
Unused(n) ==
    /\ \A k \in DOMAIN kv : k[1] \in {"sessions", "handshakes"} => kv[k].by # n
    /\ \A c \in ToSet(queue) : Listing(c) => \A p \in c.seen.began : p[2].by # n

WillWrite(c) == c.req.op \in SessionOps \cup AttemptOps /\ c.pc = "read"

WritesNew == \A c \in ToSet(queue) : WillWrite(c) => Unused(c.by)

NumbersNew == \A n \in calls + 1 .. MaxCalls : Unused(n)

ListInv == ListsTyped /\ ListsCover /\ WritesNew /\ NumbersNew

LEMMA RequestKinds ==
    /\ \A r \in ListRequests : r.op = "list" /\ r.of \in {"recoverable", "pending", "link"}
    /\ \A k \in RecordKeys : \A r : k[1] \in ListedKinds(r) => k[1] \in {"sessions", "handshakes"}
  <1>1. \A r \in ListRequests : r.op = "list" /\ r.of \in {"recoverable", "pending", "link"}
    BY DEF ListRequests
  <1>2. \A k \in RecordKeys : k[1] \in {"records", "sessions", "handshakes"}
    BY RecordKinds
  <1> QED BY <1>1, <1>2 DEF ListedKinds, SessionKinds, AttemptKinds

(* The model's answer, record by record. *)
LEMMA ListedBelongs ==
    ASSUME NEW r \in ListRequests, NEW k, k[1] \in ListedKinds(r)
    PROVE  Listed(r, k) <=> k \in DOMAIN kv /\ Belongs(r, k, kv[k])
  <1>1. r.of \in {"recoverable", "pending", "link"}
    BY RequestKinds
  <1>2. CASE r.of = "recoverable"
    BY <1>2 DEF Listed, Belongs, IsRecord, Recoverable
  <1>3. CASE r.of = "pending"
    BY <1>3 DEF Listed, Belongs, IsRecord, Pending
  <1>4. CASE r.of = "link"
    BY <1>4 DEF Listed, Belongs, IsRecord, OfLink
  <1> QED BY <1>1, <1>2, <1>3, <1>4

LEMMA AnswerBelongs ==
    ASSUME NEW r \in ListRequests
    PROVE  /\ \A k : k \in Prefixed(r) <=> k \in DOMAIN kv /\ k[1] \in ListedKinds(r)
           /\ \A k, v : <<k, v>> \in Answer(r) <=> Holding(k, v) /\ Belongs(r, k, v)
           /\ \A p \in Answer(r) : p = <<p[1], p[2]>>
  <1>1. \A k : k \in Prefixed(r) <=> k \in DOMAIN kv /\ k[1] \in ListedKinds(r)
    BY DEF Prefixed, ListedKinds, SessionKinds, AttemptKinds
  <1>2. \A k \in Prefixed(r) : Listed(r, k) <=> Belongs(r, k, kv[k])
    BY <1>1, ListedBelongs
  <1>3. \A p : p \in Answer(r) <=> \E k \in Prefixed(r) : Listed(r, k) /\ p = <<k, kv[k]>>
    BY DEF Answer
  <1>4. \A k, v : <<k, v>> \in Answer(r) <=> k \in Prefixed(r) /\ Listed(r, k) /\ v = kv[k]
    BY <1>3
  <1>5. \A k, v : Belongs(r, k, v) => k[1] \in ListedKinds(r)
    BY DEF Belongs
  <1>6. \A k, v : <<k, v>> \in Answer(r) <=> Holding(k, v) /\ Belongs(r, k, v)
    BY <1>1, <1>2, <1>4, <1>5 DEF Holding
  <1> QED BY <1>1, <1>3, <1>6

ListedKeys == {"sessions", "handshakes"}

(* A step in which the calls numbered W, if any, write records. *)
LEMMA ListFrame ==
    ASSUME TypeInv, ListInv, NEW W, \A n \in W : Unused(n) /\ n \notin calls' + 1 .. MaxCalls,
           \A c \in ToSet(queue') : Listing(c) => c \in ToSet(queue),
           \A c \in ToSet(queue') : WillWrite(c) => c \in ToSet(queue) /\ c.by \notin W,
           \A k \in DOMAIN kv' : k[1] \in ListedKeys => (k \in DOMAIN kv /\ kv'[k] = kv[k]) \/ kv'[k].by \in W,
           (calls' + 1 .. MaxCalls) \subseteq (calls + 1 .. MaxCalls)
    PROVE  ListInv'
  <1>1. \A n : n \notin W /\ Unused(n) => Unused(n)'
    <2> SUFFICES ASSUME NEW n, n \notin W, Unused(n) PROVE Unused(n)'
      OBVIOUS
    <2>1. \A k \in DOMAIN kv' : k[1] \in ListedKeys => kv'[k].by # n
      BY DEF Unused, ListedKeys
    <2>2. \A c \in ToSet(queue') : Listing(c) => \A p \in c.seen.began : p[2].by # n
      BY DEF Unused
    <2> QED BY <2>1, <2>2 DEF Unused, ListedKeys
  <1>2. ListsTyped'
    BY DEF ListsTyped, ListInv
  <1>3. ListsCover'
    <2>1. ASSUME NEW c \in ToSet(queue'), Listing(c), NEW p \in c.seen.began, p[1] \in DOMAIN kv', kv'[p[1]] = p[2]
          PROVE  p[1] \in c.seen.todo \/ p \in c.seen.out
      <3>1. c \in ToSet(queue) /\ Belongs(c.req, p[1], p[2])
        BY <2>1 DEF ListsTyped, ListInv
      <3>2. p[1][1] \in ListedKeys
        BY <3>1, RequestKinds DEF Belongs, ListedKeys
      <3>3. kv'[p[1]].by \notin W
        BY <2>1, <3>1 DEF Unused
      <3>4. Holding(p[1], p[2])
        BY <2>1, <3>2, <3>3 DEF Holding
      <3> QED BY <2>1, <3>1, <3>4 DEF ListsCover, ListInv
    <2> QED BY <2>1 DEF ListsCover, Holding
  <1>4. WritesNew'
    BY <1>1 DEF WritesNew, ListInv
  <1>5. NumbersNew'
    BY <1>1 DEF NumbersNew, ListInv
  <1> QED BY <1>2, <1>3, <1>4, <1>5 DEF ListInv

LEMMA ListOther ==
    ASSUME TypeInv, ListInv, NEW moving, NEW kinds, Moves(moving, kinds), calls <= calls', calls' \in Nat,
           \A op \in moving : op \notin SessionOps \cup AttemptOps \cup {"list"}, \A k \in kinds : k \notin ListedKeys
    PROVE  ListInv'
  <1>1. \A c \in ToSet(queue') : Listing(c) \/ WillWrite(c) => c \in ToSet(queue)
    BY DEF Moves, OthersKept, Listing, WillWrite
  <1>2. \A k \in DOMAIN kv' : k[1] \in ListedKeys => (k \in DOMAIN kv /\ kv'[k] = kv[k])
    BY DEF Moves, Agree
  <1>3. (calls' + 1 .. MaxCalls) \subseteq (calls + 1 .. MaxCalls)
    <2>1. PICK m, n : m = calls /\ n = calls'
      OBVIOUS
    <2>2. m \in Nat /\ n \in Nat /\ m <= n /\ MaxCalls \in Nat
      BY <2>1, CallsAssumption DEF TypeInv
    <2>3. (n + 1 .. MaxCalls) \subseteq (m + 1 .. MaxCalls)
      BY <2>2
    <2> QED BY <2>1, <2>3
  <1>4. PICK W : W = {}
    OBVIOUS
  <1>5. /\ \A n \in W : Unused(n) /\ n \notin calls' + 1 .. MaxCalls
        /\ \A c \in ToSet(queue') : Listing(c) => c \in ToSet(queue)
        /\ \A c \in ToSet(queue') : WillWrite(c) => c \in ToSet(queue) /\ c.by \notin W
        /\ \A k \in DOMAIN kv' : k[1] \in ListedKeys => (k \in DOMAIN kv /\ kv'[k] = kv[k]) \/ kv'[k].by \in W
    BY <1>1, <1>2, <1>4
  <1> QED BY <1>3, <1>5, ListFrame

(* A turn of a session or an attempt. *)
LEMMA ListTurns ==
    ASSUME TypeInv, ListInv, queue # <<>>, req.op \in SessionOps \cup AttemptOps, UNCHANGED calls,
           Ends \/ \E x : Goes(x) /\ x.pc # "read",
           \A k \in DOMAIN kv' : k[1] \in ListedKeys =>
               (k \in DOMAIN kv /\ kv'[k] = kv[k]) \/ (cur.pc = "read" /\ kv'[k].by = cur.by)
    PROVE  ListInv'
  <1>1. PICK W : W = IF cur.pc = "read" THEN {cur.by} ELSE {}
    OBVIOUS
  <1>2. cur \in ToSet(queue) /\ cur.req = req
    BY HeadFacts
  <1>3. \A c \in ToSet(queue') : c \in ToSet(queue) \ {cur} \/ (c.req = req /\ c.pc # "read")
    <2>1. CASE Ends
      BY <2>1, EndsFacts
    <2>2. ASSUME NEW x, Goes(x), x.pc # "read" PROVE \A c \in ToSet(queue') : c \in ToSet(queue) \ {cur} \/ c = x
      BY <2>2, GoesFacts
    <2> QED BY <2>1, <2>2 DEF Goes
  <1>4. \A c \in ToSet(queue) \ {cur} : c.by # cur.by
    BY QueueTail DEF TypeInv, cur
  <1>5. cur.by \in Nat /\ cur.by <= calls /\ calls \in Nat
    BY <1>2, CallNumbers DEF TypeInv
  <1>6. \A n \in W : Unused(n) /\ n \notin calls' + 1 .. MaxCalls
    BY <1>1, <1>2, <1>5, CallsAssumption DEF WritesNew, WillWrite, ListInv
  <1>7. \A c \in ToSet(queue') : Listing(c) => c \in ToSet(queue)
    BY <1>3 DEF Listing, SessionOps, AttemptOps
  <1>8. \A c \in ToSet(queue') : WillWrite(c) => c \in ToSet(queue) /\ c.by \notin W
    BY <1>1, <1>3, <1>4 DEF WillWrite
  <1> QED BY <1>1, <1>6, <1>7, <1>8, ListFrame

LEMMA ListSessions == ASSUME TypeInv, ListInv, SessionTurn PROVE ListInv'
  <1>1. /\ queue # <<>> /\ req.op \in SessionOps \cup AttemptOps /\ UNCHANGED calls
        /\ Ends \/ \E x : Goes(x) /\ x.pc # "read"
    <2>1. TurnShape /\ UNCHANGED calls
      BY SessionShape, SessionTurnMoves
    <2>2. req.op \in SessionOps
      BY DoPutSessionWrite, DoPutSessionIndex, DoDeleteSessionRecord, DoDeleteSessionReadIndex,
         DoDeleteSessionIndex, DoEnd DEF SessionTurn, SessionOps
    <2> QED BY <2>1, <2>2 DEF TurnShape
  <1>2. \A k \in DOMAIN kv' : k[1] \in ListedKeys =>
            (k \in DOMAIN kv /\ kv'[k] = kv[k]) \/ (cur.pc = "read" /\ kv'[k].by = cur.by)
    <2>1. CASE PutSessionWrite
      <3>1. PICK k, v : Set(k, v) /\ v.by = cur.by /\ cur.pc = "read"
        BY <2>1, DoPutSessionWrite DEF Follows
      <3>2. DOMAIN kv' = DOMAIN kv \cup {k} /\ kv'[k] = v /\ \A j : j # k => Agree(j)
        BY <3>1, SetFacts
      <3> QED BY <3>1, <3>2 DEF Agree
    <2>2. CASE PutSessionIndex
      <3>1. PICK k, v : Set(k, v) /\ k = SessionIndex(req.owner, req.link)
        BY <2>2, DoPutSessionIndex
      <3>2. k[1] \notin ListedKeys /\ \A j : j # k => Agree(j)
        BY <3>1, SetFacts, KeyFacts DEF ListedKeys
      <3> QED BY <3>2 DEF Agree
    <2>3. ASSUME NEW k, Delete(k)
          PROVE  \A j \in DOMAIN kv' : j \in DOMAIN kv /\ kv'[j] = kv[j]
      BY <2>3 DEF Delete
    <2>4. CASE DeleteSessionRecord \/ DeleteSessionIndex
      BY <2>3, <2>4, DoDeleteSessionRecord, DoDeleteSessionIndex
    <2>5. CASE DeleteSessionReadIndex \/ SessionEnded
      BY <2>5, DoDeleteSessionReadIndex, DoEnd
    <2> QED BY <2>1, <2>2, <2>4, <2>5 DEF SessionTurn
  <1> QED BY <1>1, <1>2, ListTurns

LEMMA ListAttempts == ASSUME TypeInv, ListInv, AttemptTurn PROVE ListInv'
  <1>1. /\ queue # <<>> /\ req.op \in SessionOps \cup AttemptOps /\ UNCHANGED calls
        /\ Ends \/ \E x : Goes(x) /\ x.pc # "read"
    BY DoAttempt, DoEnd DEF AttemptTurn, AttemptOps
  <1>2. \A k \in DOMAIN kv' : k[1] \in ListedKeys =>
            (k \in DOMAIN kv /\ kv'[k] = kv[k]) \/ (cur.pc = "read" /\ kv'[k].by = cur.by)
    <2>1. CASE CreateAttempt \/ UpdateAttempt
      <3>1. PICK k, v : Set(k, v) /\ v.by = cur.by /\ cur.pc = "read"
        BY <2>1, DoAttempt DEF Follows
      <3>2. DOMAIN kv' = DOMAIN kv \cup {k} /\ kv'[k] = v /\ \A j : j # k => Agree(j)
        BY <3>1, SetFacts
      <3> QED BY <3>1, <3>2 DEF Agree
    <2>2. CASE AttemptRejected
      BY <2>2, DoEnd
    <2> QED BY <2>1, <2>2 DEF AttemptTurn
  <1> QED BY <1>1, <1>2, ListTurns

LEMMA ListStarts ==
    ASSUME TypeInv, ListInv, NEW r \in Requests, Start(r)
    PROVE  ListInv'
  <1>1. PICK c : c = [req |-> r, by |-> calls + 1, pc |-> "read", seen |-> Get(FirstKey(r))]
    OBVIOUS
  <1>2. /\ queue' = Append(queue, c) /\ (\A a \in ToSet(queue) : a.by # c.by) /\ UNCHANGED kv
    BY <1>1, DoStart
  <1>3. ToSet(queue') = ToSet(queue) \cup {c} /\ c.by = calls + 1 /\ c.req = r
    BY <1>1, <1>2, StartFacts
  <1>4. ~Listing(c)
    BY <1>3, RequestFacts DEF Listing
  <1>5. \A n : Unused(n) => Unused(n)'
    BY <1>2, <1>3, <1>4 DEF Unused
  <1>6. calls' = calls + 1 /\ calls < MaxCalls /\ calls \in Nat
    BY DEF Start, TypeInv
  <1>7. calls + 1 \in calls + 1 .. MaxCalls /\ \A n \in calls' + 1 .. MaxCalls : n \in calls + 1 .. MaxCalls
    BY <1>6, CallsAssumption
  <1>8. ListsTyped'
    BY <1>3, <1>4 DEF ListsTyped, ListInv
  <1>9. ListsCover'
    BY <1>2, <1>3, <1>4 DEF ListsCover, Holding, ListInv
  <1>10. WritesNew'
    BY <1>3, <1>5, <1>7 DEF WritesNew, NumbersNew, ListInv
  <1>11. NumbersNew'
    BY <1>5, <1>7 DEF NumbersNew, ListInv
  <1> QED BY <1>8, <1>9, <1>10, <1>11 DEF ListInv

LEMMA ListBegins ==
    ASSUME TypeInv, ListInv, NEW r \in ListRequests, StartList(r)
    PROVE  ListInv'
  <1>1. PICK todo, out, began : todo = Prefixed(r) /\ out = {} /\ began = Answer(r)
    OBVIOUS
  <1>2. PICK c : c = [req |-> r, by |-> calls + 1, pc |-> "list", seen |-> [todo |-> todo, out |-> out, began |-> began]]
    OBVIOUS
  <1>3. /\ queue' = Append(queue, c) /\ (\A a \in ToSet(queue) : a.by # c.by) /\ UNCHANGED kv /\ r.op = "list"
    BY <1>1, <1>2, DoStartList
  <1>4. /\ ToSet(queue') = ToSet(queue) \cup {c} /\ c.req = r /\ c.pc = "list"
        /\ c.seen.todo = todo /\ c.seen.out = out /\ c.seen.began = began
    BY <1>2, <1>3, StartFacts
  <1>5. /\ \A k : k \in todo <=> k \in DOMAIN kv /\ k[1] \in ListedKinds(r)
        /\ \A k, v : <<k, v>> \in began <=> Holding(k, v) /\ Belongs(r, k, v)
        /\ \A p \in began : p = <<p[1], p[2]>>
    BY <1>1, AnswerBelongs
  <1>6. \A p \in began : Holding(p[1], p[2]) /\ Belongs(r, p[1], p[2])
    BY <1>5
  <1>7. \A n : Unused(n) => Unused(n)'
    <2> SUFFICES ASSUME NEW n, Unused(n) PROVE Unused(n)'
      OBVIOUS
    <2>1. \A p \in began : p[2].by # n
      <3> SUFFICES ASSUME NEW p \in began PROVE p[2].by # n
        OBVIOUS
      <3>1. p[1] \in DOMAIN kv /\ kv[p[1]] = p[2] /\ p[1][1] \in {"sessions", "handshakes"}
        BY <1>6, RequestKinds DEF Holding, Belongs
      <3> QED BY <3>1 DEF Unused
    <2> QED BY <1>3, <1>4, <2>1 DEF Unused
  <1>8. calls' = calls + 1 /\ calls \in Nat
    BY DEF StartList, TypeInv
  <1>9. \A n \in calls' + 1 .. MaxCalls : n \in calls + 1 .. MaxCalls
    BY <1>8, CallsAssumption
  <1>10. ListsTyped'
    BY <1>1, <1>4, <1>5, <1>6 DEF ListsTyped, ListInv
  <1>11. ListsCover'
    <2>1. \A p \in began : p[1] \in todo
      BY <1>5, <1>6 DEF Holding, Belongs
    <2> QED BY <1>3, <1>4, <2>1 DEF ListsCover, Holding, ListInv
  <1>12. WritesNew'
    BY <1>4, <1>7 DEF WritesNew, WillWrite, ListInv
  <1>13. NumbersNew'
    BY <1>7, <1>9 DEF NumbersNew, ListInv
  <1> QED BY <1>10, <1>11, <1>12, <1>13 DEF ListInv

LEMMA ListReads == ASSUME TypeInv, ListInv, ListRecord PROVE ListInv'
  <1>1. queue # <<>> /\ req.op = "list" /\ cur.pc = "list" /\ UNCHANGED <<kv, calls>>
    BY DoListRecord
  <1>2. PICK k \in cur.seen.todo :
            Awaits(Now("list", [todo |-> cur.seen.todo \ {k},
                                out |-> cur.seen.out \cup (IF Listed(req, k) THEN {<<k, kv[k]>>} ELSE {}),
                                began |-> cur.seen.began]))
    BY DoListRecord
  <1>3. PICK todo, out, began, new : /\ todo = cur.seen.todo /\ out = cur.seen.out /\ began = cur.seen.began
                                     /\ new = IF Listed(req, k) THEN {<<k, kv[k]>>} ELSE {}
    OBVIOUS
  <1>4. PICK seen : seen = [todo |-> todo \ {k}, out |-> out \cup new, began |-> began]
    OBVIOUS
  <1>5. PICK x : x = Now("list", seen)
    OBVIOUS
  <1>6. Awaits(x)
    BY <1>2, <1>3, <1>4, <1>5
  <1>7. Goes(x) /\ x.pc = "list" /\ x.seen = seen /\ x.req = req
    BY <1>1, <1>5, <1>6, NowGoes, NowFacts
  <1>8. x.seen.todo = todo \ {k} /\ x.seen.out = out \cup new /\ x.seen.began = began
    BY <1>4, <1>7
  <1>9. ToSet(queue') = (ToSet(queue) \ {cur}) \cup {x} /\ cur \in ToSet(queue) /\ cur.req = req
    BY <1>1, <1>7, GoesFacts, HeadFacts
  <1>10. req \in ListRequests
    BY <1>1, HeadFacts, RequestFacts
  <1>11. /\ Listing(cur) /\ Listing(x)
         /\ \A j \in todo : j[1] \in ListedKinds(req)
         /\ \A p \in began \cup out : p = <<p[1], p[2]>> /\ Belongs(req, p[1], p[2])
         /\ \A p \in began : Holding(p[1], p[2]) => p[1] \in todo \/ p \in out
    BY <1>1, <1>3, <1>7, <1>9 DEF Listing, ListsTyped, ListsCover, ListInv
  <1>12. k \in todo /\ (Listed(req, k) <=> k \in DOMAIN kv /\ Belongs(req, k, kv[k]))
    BY <1>2, <1>3, <1>10, <1>11, ListedBelongs
  <1>13. \A p \in new : p = <<p[1], p[2]>> /\ Belongs(req, p[1], p[2])
    BY <1>3, <1>12
  <1>14. \A p \in began : Holding(p[1], p[2]) => p[1] \in todo \ {k} \/ p \in out \cup new
    <2> SUFFICES ASSUME NEW p \in began, Holding(p[1], p[2]), p[1] = k PROVE p \in new
      BY <1>11
    <2>1. kv[k] = p[2] /\ k \in DOMAIN kv /\ p = <<k, kv[k]>> /\ Belongs(req, k, kv[k])
      BY <1>11 DEF Holding
    <2> QED BY <1>3, <1>12, <2>1
  <1>15. \A n : Unused(n) => Unused(n)'
    BY <1>1, <1>3, <1>8, <1>9, <1>11 DEF Unused
  <1>16. ListsTyped'
    BY <1>7, <1>8, <1>9, <1>11, <1>13 DEF ListsTyped, ListInv
  <1>17. ListsCover'
    BY <1>1, <1>8, <1>9, <1>14 DEF ListsCover, Holding, ListInv
  <1>18. WritesNew'
    BY <1>7, <1>9, <1>15 DEF WritesNew, WillWrite, ListInv
  <1>19. NumbersNew'
    BY <1>1, <1>15 DEF NumbersNew, ListInv
  <1> QED BY <1>16, <1>17, <1>18, <1>19 DEF ListInv

LEMMA ListEnds == ASSUME TypeInv, ListInv, ListReturn PROVE ListInv'
  <1>1. queue # <<>> /\ Ends /\ UNCHANGED <<kv, calls>>
    BY DoEnd
  <1>2. ToSet(queue') \subseteq ToSet(queue)
    BY <1>1, EndsFacts
  <1>3. (calls' + 1 .. MaxCalls) \subseteq (calls + 1 .. MaxCalls)
    BY <1>1
  <1> PICK W : W = {}
    OBVIOUS
  <1>4. /\ \A n \in W : Unused(n) /\ n \notin calls' + 1 .. MaxCalls
        /\ \A c \in ToSet(queue') : Listing(c) => c \in ToSet(queue)
        /\ \A c \in ToSet(queue') : WillWrite(c) => c \in ToSet(queue) /\ c.by \notin W
    BY <1>2
  <1>5. \A k \in DOMAIN kv' : k[1] \in ListedKeys => (k \in DOMAIN kv /\ kv'[k] = kv[k]) \/ kv'[k].by \in W
    BY <1>1
  <1> QED BY <1>3, <1>4, <1>5, ListFrame

LEMMA ListStep == ASSUME TypeInv, ListInv, [Next]_vars PROVE ListInv'
  <1>1. calls \in Nat /\ calls' \in Nat
    BY TypeStep, CallsAssumption DEF TypeInv
  <1>2. CASE LinkTurn
    <2>1. Moves(LinkOps, LinkKinds) /\ UNCHANGED calls
      BY <1>2, LinkTurnMoves
    <2>2. calls <= calls'
      BY <1>1, <2>1
    <2> QED BY <1>1, <2>1, <2>2, ListOther DEF LinkOps, LinkKinds, ListedKeys, SessionOps, AttemptOps
  <1>3. CASE EventTurn
    <2>1. Moves({"append"}, EventKinds) /\ UNCHANGED calls
      BY <1>3, EventTurnMoves
    <2>2. calls <= calls'
      BY <1>1, <2>1
    <2> QED BY <1>1, <2>1, <2>2, ListOther DEF EventKinds, ListedKeys, SessionOps, AttemptOps
  <1>4. CASE Outside
    <2>1. Moves({}, MaterialKinds)
      BY <1>4, OutsideMoves
    <2>2. calls <= calls'
      <3>1. CASE \E o \in Owners : KeyCall(o)
        BY <3>1, DoKeyCall
      <3>2. CASE (\E limit \in Limits : PageBegin(limit)) \/ PageEnd \/ UNCHANGED vars
        <4>1. UNCHANGED calls
          BY <3>2, DoPageBegin, DoPageEnd DEF vars
        <4> QED BY <1>1, <4>1
      <3> QED BY <1>4, <3>1, <3>2 DEF Outside
    <2> QED BY <1>1, <2>1, <2>2, ListOther DEF MaterialKinds, ListedKeys
  <1>5. CASE \E r \in Requests : Start(r)
    BY <1>5, ListStarts
  <1>6. CASE \E r \in ListRequests : StartList(r)
    BY <1>6, ListBegins
  <1>7. CASE SessionTurn \/ AttemptTurn \/ ListRecord \/ ListReturn
    BY <1>7, ListSessions, ListAttempts, ListReads, ListEnds
  <1> QED BY <1>2, <1>3, <1>4, <1>5, <1>6, <1>7, StepCases

LEMMA ListInit == ASSUME Init PROVE TypeInv /\ ListInv
  <1>1. ToSet(queue) = {} /\ DOMAIN kv = {}
    BY DEF Init, ToSet
  <1>2. \A n : Unused(n)
    BY <1>1 DEF Unused
  <1>3. ListInv
    BY <1>1, <1>2 DEF ListInv, ListsTyped, ListsCover, WritesNew, NumbersNew
  <1> QED BY <1>3, TypeInit

LEMMA ListAnswers == ASSUME TypeInv, ListInv PROVE ListsSteady
  <1> SUFFICES ASSUME NEW i \in DOMAIN queue, queue[i].pc = "list", queue[i].seen.todo = {},
                      NEW p, p \in {<<k, kv[k]>> : k \in DOMAIN kv}
               PROVE  /\ p \in queue[i].seen.began => p \in queue[i].seen.out
                      /\ p \in queue[i].seen.out => p \in Answer(queue[i].req)
    BY DEF ListsSteady
  <1>1. PICK c : c = queue[i]
    OBVIOUS
  <1>2. c \in ToSet(queue) /\ c.pc = "list" /\ c.seen.todo = {}
    BY <1>1 DEF ToSet
  <1>3. CallOK(c)
    BY <1>2 DEF TypeInv
  <1>4. c.req \in Requests \cup ListRequests
    BY <1>3 DEF CallOK
  <1>5. c.req.op = "list"
    BY <1>2, <1>3, <1>4, RequestFacts DEF CallOK
  <1>6. c.req \in ListRequests
    BY <1>4, <1>5, RequestFacts
  <1>7. PICK k, v : p = <<k, v>> /\ k \in DOMAIN kv /\ v = kv[k]
    OBVIOUS
  <1>8. p[1] = k /\ p[2] = v /\ Holding(k, v)
    BY <1>7 DEF Holding
  <1>9. ASSUME p \in c.seen.began PROVE p \in c.seen.out
    BY <1>2, <1>5, <1>8, <1>9 DEF ListInv, ListsCover, Listing
  <1>10. ASSUME p \in c.seen.out PROVE p \in Answer(c.req)
    <2>1. Belongs(c.req, k, v)
      BY <1>2, <1>5, <1>8, <1>10 DEF ListInv, ListsTyped, Listing
    <2> QED BY <1>6, <1>7, <1>8, <2>1, AnswerBelongs
  <1> QED BY <1>1, <1>9, <1>10

(* When a listing has read its last record, its answer holds every record   *)
(* that belonged in it when it began and still stands, and no standing      *)
(* record that does not belong, whatever was written or deleted while it    *)
(* read one record after another (listRecoverable, listPending,             *)
(* listByPeerLinkId).                                                       *)
THEOREM ListsAreSteady == Spec => []ListsSteady
  <1>1. Init => TypeInv /\ ListInv
    BY ListInit
  <1>2. TypeInv /\ ListInv /\ [Next]_vars => (TypeInv /\ ListInv)'
    BY TypeStep, ListStep
  <1>3. TypeInv /\ ListInv => ListsSteady
    BY ListAnswers
  <1> QED BY <1>1, <1>2, <1>3, PTL DEF Spec

=============================================================================
