------------------------------ MODULE Keystore ------------------------------
(***************************************************************************)
(* One vault: the store holds at most one sealed envelope, and the account  *)
(* functions create it, unlock it (upgrading a version 1 payload in place)  *)
(* and reseal it under another password.  Every function reads the store,   *)
(* awaits the key derivation and writes the store later; calls in different *)
(* slots overlap.  A write may be rejected, before or after it took effect,  *)
(* and the process may crash while calls are under way.                     *)
(*                                                                         *)
(* The unlock key is derived from the password and the salt, so an envelope *)
(* is opened by a password exactly when it was sealed under the key that    *)
(* the password and the envelope's own salt give.                           *)
(***************************************************************************)
EXTENDS Integers, Sequences

CONSTANTS
    Slots,      \* calls that may be under way at once
    Accounts,   \* account identities a caller may inject
    Passwords,
    None,       \* nothing stored
    Malformed,  \* a stored value that is not an envelope
    NoKey,      \* a version 1 payload has no device key
    CeremonyKey,\* the device key a delegation fixes
    PrimaryKey, \* a device of the account that may delegate further
    MaxFresh    \* bound: random salts and device keys drawn

ASSUME ValuesAssumption ==
    /\ None # Malformed
    /\ NoKey \notin {CeremonyKey, PrimaryKey} /\ CeremonyKey # PrimaryKey
    /\ {NoKey, CeremonyKey, PrimaryKey} \cap Int = {}
ASSUME BoundAssumption == MaxFresh \in Nat

VARIABLES
    stored,   \* the value in the store
    ops,      \* the call under way in each slot
    fresh,    \* random values drawn so far
    returned, \* accounts handed back to callers since the vault was created
    known     \* passwords the owner may have to try

keystoreVars == <<stored, ops, fresh, returned, known>>

----------------------------------------------------------------------------
(* Envelopes.                                                              *)

Derive(password, salt) == [password |-> password, salt |-> salt]

Payload(version, account, device, chain) ==
    [keystoreVersion |-> version, account |-> account, device |-> device,
     certChain |-> chain]

Envelope(salt, key, payload) == [salt |-> salt, key |-> key, payload |-> payload]

Opens(env, password) == Derive(password, env.salt) = env.key

HasKeystore == stored \notin {None, Malformed}

Result(payload) == [account |-> payload.account, device |-> payload.device]

Idle == [step |-> "idle"]

\* A vault is new, or was written by the version that had no device keys.
KeystoreInit ==
    /\ \/ stored = None /\ known = {}
       \/ \E a \in Accounts, p \in Passwords :
             /\ stored = Envelope(0, Derive(p, 0), Payload(1, a, NoKey, << >>))
             /\ known = {p}
    /\ ops = [s \in Slots |-> Idle]
    /\ fresh = 0
    /\ returned = {}

Draw ==
    /\ fresh < MaxFresh
    /\ fresh' = fresh + 1

Writing(env, result) == [step |-> "write", env |-> env, result |-> result]

----------------------------------------------------------------------------
(* Creating an account.                                                    *)

\* Mutant: the store is not consulted.
CreateOver(s, p, payload) ==
    /\ ops[s] = Idle
    /\ Draw
    /\ ops' = [ops EXCEPT ![s] =
                  Writing(Envelope(fresh', Derive(p, fresh'), payload), {Result(payload)})]
    /\ UNCHANGED <<stored, returned, known>>

\* The store is empty when it is read; the new envelope is written later.
CreateSealed(s, p, payload) ==
    /\ ops[s] = Idle
    /\ ~HasKeystore
    /\ Draw
    /\ ops' = [ops EXCEPT ![s] =
                  Writing(Envelope(fresh', Derive(p, fresh'), payload), {Result(payload)})]
    /\ UNCHANGED <<stored, returned, known>>

\* The device key is always random, whether or not the identity is injected.
CreateKeystoreAccount(s, p, a) == CreateSealed(s, p, Payload(2, a, fresh + 1, << >>))

\* Certificates a delegation may come with, whoever put it together; a
\* certificate's id is a hash of its body, so it is named by the body itself.
Holders == {CeremonyKey, PrimaryKey}
RootCerts ==
    [account : Accounts, parent : {None}, signer : Accounts, grantee : Holders]
LeafCerts ==
    [account : Accounts, parent : RootCerts, signer : Holders, grantee : Holders]
Chains ==
    {<< >>} \cup {<<c>> : c \in RootCerts \cup LeafCerts}
            \cup {<<c, d>> : c \in RootCerts, d \in LeafCerts}

\* The chain leads from the account's key, link by link, to the device key.
normalizeDelegatedCertChain(chain, account, device) ==
    /\ chain # << >>
    /\ \A i \in DOMAIN chain : chain[i].account = account
    /\ chain[1].parent = None /\ chain[1].signer = account
    /\ \A i \in 2 .. Len(chain) : /\ chain[i].parent = chain[i - 1]
                                  /\ chain[i].signer = chain[i - 1].grantee
    /\ chain[Len(chain)].grantee = device

CreateDelegatedKeystoreAccount(s, p, a, chain) ==
    /\ normalizeDelegatedCertChain(chain, a, CeremonyKey)
    /\ CreateSealed(s, p, Payload(3, a, CeremonyKey, chain))

----------------------------------------------------------------------------
(* Unlocking and resealing.                                                *)

\* Both start from the stored envelope and derive a key before they go on.
Open(s, p, then) ==
    /\ ops[s] = Idle
    /\ HasKeystore
    /\ ops' = [ops EXCEPT ![s] = [step |-> then, env |-> stored, password |-> p]]
    /\ UNCHANGED <<stored, fresh, returned, known>>

Unlock(s, p) == Open(s, p, "unlock")

\* The wrong password, or a payload the call refuses: it throws.
Refused(op) ==
    \/ ~Opens(op.env, op.password)
    \/ op.step = "reseal" /\ op.env.payload.keystoreVersion = 1

Refuse(s) ==
    /\ ops[s].step \in {"unlock", "reseal"}
    /\ Refused(ops[s])
    /\ ops' = [ops EXCEPT ![s] = Idle]
    /\ UNCHANGED <<stored, fresh, returned, known>>

UnlockReturn(s) ==
    /\ ops[s].step = "unlock"
    /\ ~Refused(ops[s])
    /\ ops[s].env.payload.keystoreVersion # 1
    /\ returned' = returned \cup {Result(ops[s].env.payload)}
    /\ ops' = [ops EXCEPT ![s] = Idle]
    /\ UNCHANGED <<stored, fresh, known>>

\* Mutant: a new salt beside the key derived from the old one.
UpgradedNewSalt(env, device) ==
    Envelope(device, env.key, Payload(2, env.payload.account, device, << >>))

\* A new device key, sealed under the same key and salt.
Upgraded(env, device) ==
    Envelope(env.salt, env.key, Payload(2, env.payload.account, device, << >>))

MigrateV1ToV2(s) ==
    /\ ops[s].step = "unlock"
    /\ ~Refused(ops[s])
    /\ ops[s].env.payload.keystoreVersion = 1
    /\ Draw
    /\ LET env == Upgraded(ops[s].env, fresh') IN
       ops' = [ops EXCEPT ![s] = Writing(env, {Result(env.payload)})]
    /\ UNCHANGED <<stored, returned, known>>

\* resealKeystoreEnvelope works on an envelope; its caller reads and writes the
\* store around it.
Reseal(s, old) == Open(s, old, "reseal")

ResealKeystoreEnvelope(s, new) ==
    /\ ops[s].step = "reseal"
    /\ ~Refused(ops[s])
    /\ new # ops[s].password
    /\ Draw
    /\ ops' = [ops EXCEPT ![s] =
                  Writing(Envelope(fresh', Derive(new, fresh'), ops[s].env.payload), {})]
    /\ UNCHANGED <<stored, returned, known>>

----------------------------------------------------------------------------
(* The store.                                                              *)

\* Mutant: the result of a write that failed is handed back.
PutRejectedReturns(s) ==
    /\ ops[s].step = "write"
    /\ stored' \in {stored, ops[s].env}
    /\ returned' = returned \cup ops[s].result
    /\ known' = known \cup {ops[s].env.key.password}
    /\ ops' = [ops EXCEPT ![s] = Idle]
    /\ UNCHANGED fresh

PutKeystoreEnvelope(s) ==
    /\ ops[s].step = "write"
    /\ stored' = ops[s].env
    /\ returned' = returned \cup ops[s].result
    /\ known' = {ops[s].env.key.password}
    /\ ops' = [ops EXCEPT ![s] = Idle]
    /\ UNCHANGED fresh

\* The error propagates; the caller cannot tell whether the write took effect.
PutRejected(s) ==
    /\ ops[s].step = "write"
    /\ stored' \in {stored, ops[s].env}
    /\ known' = known \cup {ops[s].env.key.password}
    /\ ops' = [ops EXCEPT ![s] = Idle]
    /\ UNCHANGED <<fresh, returned>>

Forget(value) ==
    /\ stored' = value
    /\ returned' = {}
    /\ known' = {}
    /\ UNCHANGED <<ops, fresh>>

ClearKeystore(s) == ops[s] = Idle /\ HasKeystore /\ Forget(None)

\* What is stored no longer passes assertKeystoreEnvelope.
Damage(s) == ops[s] = Idle /\ HasKeystore /\ Forget(Malformed)

\* Writes under way are lost or not; the store itself survives.
Crash ==
    /\ \E s \in Slots : ops[s] # Idle
    /\ LET writes == {s \in Slots : ops[s].step = "write"} IN
       /\ stored' \in {stored} \cup {ops[s].env : s \in writes}
       /\ known' = known \cup {ops[s].env.key.password : s \in writes}
    /\ ops' = [s \in Slots |-> Idle]
    /\ UNCHANGED <<fresh, returned>>

KeystoreNext ==
    \/ \E s \in Slots, p \in Passwords, a \in Accounts :
          \/ CreateKeystoreAccount(s, p, a)
          \/ \E chain \in Chains : CreateDelegatedKeystoreAccount(s, p, a, chain)
    \/ \E s \in Slots, p \in Passwords :
          Unlock(s, p) \/ Reseal(s, p) \/ ResealKeystoreEnvelope(s, p)
    \/ \E s \in Slots :
          \/ Refuse(s) \/ UnlockReturn(s) \/ MigrateV1ToV2(s)
          \/ PutKeystoreEnvelope(s) \/ PutRejected(s)
          \/ ClearKeystore(s) \/ Damage(s)
    \/ Crash

KeystoreSpec == KeystoreInit /\ [][KeystoreNext]_keystoreVars

----------------------------------------------------------------------------
(* Properties.                                                             *)

DeviceKeys == 1 .. MaxFresh \cup {NoKey, CeremonyKey}

PayloadType ==
    {q \in [keystoreVersion : 1 .. 3, account : Accounts, device : DeviceKeys,
            certChain : Chains] :
        IF q.keystoreVersion = 3
        THEN normalizeDelegatedCertChain(q.certChain, q.account, q.device)
        ELSE q.certChain = << >>}

EnvelopeType ==
    [salt : 0 .. MaxFresh, key : [password : Passwords, salt : 0 .. MaxFresh],
     payload : PayloadType]

\* Nothing stored, or something else, is not an envelope.
ASSUME StoredAssumption == None \notin EnvelopeType /\ Malformed \notin EnvelopeType

ResultType == [account : Accounts, device : DeviceKeys \ {NoKey}]

OpType ==
    {Idle} \cup [step : {"unlock", "reseal"}, env : EnvelopeType, password : Passwords]
           \cup [step : {"write"}, env : EnvelopeType, result : SUBSET ResultType]

\* The store holds an envelope or nothing usable, a delegated one with a chain
\* from its account to its device key; a call is idle, deriving a key or writing,
\* and every account handed back has a device key.
KeystoreTypeOK ==
    /\ stored \in EnvelopeType \cup {None, Malformed}
    /\ ops \in [Slots -> OpType]
    /\ fresh \in 0 .. MaxFresh
    /\ returned \subseteq ResultType
    /\ known \subseteq Passwords

\* "we must never hand back a deviceId we could not persist, or the next unlock
\* would mint a different device key and churn the id": every account handed back
\* by create or unlock is the one the store holds, after rejected writes, crashes
\* and password changes too.
Persisted == returned # {} => HasKeystore /\ returned = {Result(stored.payload)}

\* The owner is never locked out: the stored envelope opens with the password of
\* the last call that succeeded, or with that of a later one whose write was in
\* doubt.  A password that a completed change replaced is not among them.
Openable == HasKeystore => \E p \in known : Opens(stored, p)

\* What is stored can be used: an envelope has a payload that openKeystoreAccount
\* accepts, its certificate chain included, and the owner has its password.
VaultSound == KeystoreTypeOK /\ Openable

\* Only clearing the vault gives up an account or a device key: a write over a
\* stored envelope keeps the account, keeps a device key once there is one, and
\* never turns a delegated vault into one with an admin root.
VaultKept ==
    [][HasKeystore /\ HasKeystore' =>
          /\ stored'.payload.account = stored.payload.account
          /\ stored.payload.keystoreVersion # 1 => stored'.payload = stored.payload]_keystoreVars
=============================================================================
