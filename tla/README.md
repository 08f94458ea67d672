# A TLA+ verification of rez-core

rez-core is the library under the Rez messaging protocol: end-to-end encrypted sessions, mailboxes on a relay,
accounts whose authority is delegated from a root key to device keys, an encrypted keystore, and a ceremony that
links a new device. It has no main program. Its functions are called by a client SDK and by a relay node, they are
`async`, and they take no locks: every `await` is a point at which another call, or a crash, may come in between.

The modules here model the parts of it that keep state or decide who may do what. Most definitions carry the
name of the function they model; `PROJECT.json` gives the source lines of each.

## Inventory

| Component | State | Operations | Hard behaviour |
|---|---|---|---|
| Secure channel (`e2ee/SecureChannelManager.js`, `services/RatchetService.js`, `services/sessions/MemorySessionManager.js`, codecs, `objects/ratchet`) | a session record with a ratchet state per peer; a store of skipped message keys that all states of a session share | establish (two roles), `encryptPayload`, `decryptPayload`, snapshot export and import | calls that overlap between reading and committing the record; the shared store changed in place before the AEAD tag is checked; lost, repeated, reordered, damaged packets; restart from a snapshot |
| Mailbox (`mailbox/RMailbox.js` over a data store, `mailbox/MailboxRecordRegistry.js`) | records; a count and a byte total in memory; the persisted byte total; waiting clients; deferred announcements; the registry of record types | `deposit`, `depositFromWire`, `list`, `ack`, `waitForDeposit`, `setOnDeposit`, `register` | caps checked with values read before an await; lazy seeding after a restart; crash between two store operations; one of them rejecting; missed notification; an announcement lost in a crash |
| Account authority (`objects/device/verifyAccountAuthority.js`, certificates, `protocol/durableRecordV2.js`) | certificates in circulation, revocation state at the home and at each peer | sign, revoke, raise the cutoff, publish, accept a record, verify a chain | devices that sign anything; revocations that arrive late, repeated and out of order; verdicts that are kept |
| Keystore (`keystore/`) | one stored envelope | create, create delegated, unlock (with the version 1 upgrade), reseal, clear | a rejected write that may have taken effect; a crash during a password change; overlapping unlocks |
| Device link (`protocol/deviceLinkV1.js`) | each side's secrets in memory, three published records | code, request, response, confirm | several devices on one code; retries after crashes; a serving node that is not trusted; expiry |
| Peer-link storage (`storage/memory/MemoryStorageProvider.js`) | peer links with versions, sessions and their index, handshake attempts, an event log | create, update with an expected version, put, delete, append, list | check and set in different turns of the event loop; record and index written one after the other; listings that read one record a turn |
| Data stores (`storage/fs`, `storage/memory/MemoryDataStore.js`) | files, or a map | put, get, remove with pruning, clear, list by pages | mkdir and write against rmdir; crash or I/O error between two file operations; paging while keys come and go |
| Onion routing (`codec/onion`, `services/onion`, `services/relay`, `crypto/onion`) | replay cache, keyring, the sender's descriptors | build a path, select keys, encode, peel, add a key | overlapping peels, a bounded cache, restarts, key rotation |
| Forwarding (`services/*Dispatcher.js`, `runtime`, `network`) | routing table, duplicate filter, token buckets | forward, deliver | loops, bounded caches |
| X3DH and handshake packets (`services/X3DHService.js`, `e2ee`, `services/sessions`) | prekeys kept for invites, sessions by id and by peer, attempts | invite, accept, complete, acknowledge, reject, snapshot | handshakes that cross; a second handshake for a peer; a packet completed again while its prekey is kept; a stop between installing a session and sending or answering |
| File transfer (`filetransfer`) | chunks received | mark, assemble | late and repeated chunks |
| Validated records (`objects/*`, `capability`, settlement, handles, profiles) | none | construct, sign, verify | none of their own |

How they interact: a client unlocks its keystore, which gives the device key and, for a linked device, the
certificate chain that the ceremony delivered. Records it publishes are verified with the account authority. A
handshake between two accounts establishes a secure channel; its envelopes travel through onion routing to a
mailbox and are fetched, decrypted and acknowledged. Sessions and peer links are kept through the storage
provider.

## Modules

### SecureChannel

One session between the initiator `"I"` and the responder `"R"`. `ses[p]` is the `SecureSessionRecord`, `skipped[p]`
the `SkippedKeyStore`, `call[p][s]` a call in progress, `net` the envelopes sent. Keys are symbolic: a root key is the
sequence of Diffie-Hellman secrets mixed in, a chain key is its base and an index. `RatchetStep` assigns the two
halves of a new root by the byte order of the public keys, as the code does; `rank` ranges over the orders.

A call is cut where the code awaits. `EncryptBegin` reads the record and, for the responder's first message, takes
the lazy ratchet step; `EncryptCommit` seals and writes the record back. `DecryptBegin`, `DecryptLookup`, one
`DecryptSkip` per skipped key, and `DecryptOpen` are the receive path. A failure anywhere commits nothing, but what
the call did to the store stays: `tainted` remembers that this happened. The transport may lose, delay, repeat and
reorder anything, and damage the messages numbered in `Damageable`. `ExportSnapshot` and `Restart` model the
application saving and restoring the session; `stale` remembers a restart from a snapshot that was not current.
`HasSession` and `GetRecvContext` are the lookups in front of each call.

### Mailbox

One mailbox with both caps set. `events` and `bytesz` are the store, `count` and `bytes` the memory that a `Crash`
clears. `deposit` is up to eleven steps (scan page by page, seed, check, read the total, check, put, count, persist), `ack` up
to six. `reader` is a client that pages with a cursor and waits at the end. Event ids are numbers in the order of
assignment. `timers` are the `onDeposit` callbacks that are due: a deposit schedules one with `setTimeout` and does not
wait for it, so a crash loses them; `SetOnDeposit` sets or clears the callback; `untold` remembers the records not
announced yet, `silent` those that no timer was scheduled for.

A store operation may reject. `StoreRejects` is a deposit whose put or whose write of the byte total rejects: the call
throws, and in the second case the record is stored while waiters and callback hear nothing. `RemoveRejects` is an ack
whose remove rejects with the record there or gone (the file store unlinks before it prunes); `uncounted` is the number of
records that went without the count being lowered.

Every deposit passes the record registry. `register` and `registerAppType` build `createDefaultRegistry`, `probe` and
`hydrateFromWire` turn a packet from the wire into a record or refuse it, `isAllowedContentType` is asked before the first
await of `deposit`.

### AccountAuthority

One account. Any key signs any body the `Claims` and `Grants` allow, with any parent, so the certificates in circulation
include forged and over-reaching ones. `home` is the authoritative revocation state, `published` the root's records,
`view` what one peer has accepted. `VerifyAccountAuthority`, `CertValid`, `Linked` and `LeafGrants` are the checks of
`verifyAccountAuthority` in its order of conditions; `VerifyDurableRecordV2` adds the rules by kind, the root-only rule
for authority states included. Remembering the highest epoch is left to the node, so `AcceptState` takes any record that
verifies, an older one too; there is one account, so account and slot bindings always hold. `retained` is a chain a
peer verified and keeps with its `chainExpiresAtMs`.

### Keystore

The single stored envelope and the calls around it. A call reads, derives a key for a long time, and writes. `PutRejected` is a
write whose promise is rejected, and which may or may not have taken effect. `returned` are the accounts handed to
callers, `known` the passwords the owner has reason to try. A delegated vault holds the certificate chain of the link
ceremony; `normalizeDelegatedCertChain` is the check it passes when it is created and when it is opened. Its specification is
`KeystoreSpec`, so that one module of proofs can extend it next to `PeerLinkStore`.

### DeviceLink

Both sides of the ceremony, for several codes. `records` are all records ever published: each step takes any of
them, so the serving node may serve old and repeated ones. Derived secrets are records of what they are derived
from. A crash of the device loses its ephemeral key; the primary may crash and answer again.

### OnionRelay

A sender, its copies of the relays' descriptors, and relays with their keyrings and replay caches. A packet is its
remaining layers; a layer shows hop index, key and ttl and seals them again with the next endpoint, so a changed
visible field does not open. `Encode` builds the path, selects a key per hop and wraps the layers; only hops given as
JSON are checked for expiry, a `RelayDescriptorV1` instance is used as it is. A peel is two
actions, because `decode` awaits its cryptography: `PeelBegin` marks the packet in the cache and looks the key up,
`PeelEnd` opens the layer and hands the inner packet on, `PeelThrow` is the AEAD or the ttl failing. The network keeps
every packet, so each may arrive never or often, and may add a damaged copy. `Restart` empties a cache; `forgot`
remembers what caches lost, `peeled` and `again` what was opened and opened twice, `handed` the packets a relay was given,
`cut` the messages whose peel a restart cut short. Handing the inner packet on is the
node's part, outside this repository. Only hops given by descriptor are modelled (`encode` also takes a bare key);
sizes and padding are left out. The replay id is a hash of the padded payload bytes, and here the layer stands for
them: a copy padded or serialised in another way has another id in the code, opens again, and is outside the model.

### VersionedStore and PeerLinkStore

`VersionedStore` is what a store of versioned records promises: each write is one step that creates a record, replaces
it and raises its version by one, or deletes it. `PeerLinkStore` is `MemoryStorageProvider`: peer links with the index of
account pairs, sessions with the index of their links, handshake attempts, the event log of a link with its index,
key material. All of them await a synchronous key-value store, so a call that awaits is resumed after the calls that
suspended before it: `queue` is the microtask queue and `Turn` resumes its head. A call may be started between any two
turns. That is exactly the set of interleavings one process has; arbitrary interleaving would have too many.

Calls started before either has written read the same state. `raced` collects the keys on which this happened, and the
properties hold of all others. `latest` remembers the session put last for each of an owner's links. `listRecoverable`, `listPending` and `listByPeerLinkId` read the keys, then one record
per turn; `reader` pages through an event log. The provider keeps nothing over a restart, so there is no crash here.

### DataStore and FileStore

`DataStore` is the atomic map that an `RDataStore` promises and that `MemoryDataStore` is. `FileStore` is
`FileSystemDataStore`, one action per file-system call: `put` makes directories, writes a temporary file, renames it;
`remove` unlinks, then reads and removes each directory left empty; `clear` removes the entries of the base directory
one at a time; `list` walks the directories, cuts a page and reads its files. Calls interleave at each of these, and a
crash may fall on any of them and keeps the disk. Each file operation may also fail with an error the code rethrows
(`MkdirFails`, `PutErrors`, `PruneErrors`, `ClearErrors`, `ListErrors`, `MaxFaults` of them): the call ends, and what it had made or
was about to tidy up stays, in `strayTmps` and `strayDirs`, until a later call fills or removes it. The array of keys that `list` sorts and slices is a set, ordered by
`Place` in `KeyOrder`. `owed` are the keys below the listed prefix that have been there since the listing began.

### Handshake

Parties that issue invites, accept them, complete and answer handshakes. A Diffie-Hellman output is the set of two
keys, a secret the tuple of outputs, a signature its signer and what it covers. `bySid` and `byPeer` are the two maps of
`MemorySessionManager`; `links` the acceptor's attempts, whose index is the nonce of the answer. Packets stay in `net`: they
arrive late, again, or never, and with fields of another packet (`BundlesSeen`, `HandshakesSeen`). Completing a handshake
is cut where the code awaits: `completeInviteHandshake` installs the session, `rotateDhBegin` looks the peer's record
up a turn later, `rotateDhEnd` writes the record that was looked up once the new key is there. In between an
invite may be accepted that crosses it, or the process restarts. `importSnapshot` is a restart from the last
`exportSnapshot`; handshakes made and not sent (`out`) are lost with the process.

The callers are in the node's repository. `sendHandshake` and `acknowledge` are steps of their own, so a stop may come before
them. `receiveHandshake` verifies both halves of the envelope before it completes, as the comment in `E2eePacketCodec` asks,
and completes one handshake at a time. `deleteInvitePreKey` happens whenever the caller likes, or never: invites may have
several uses and earlier prekeys are retained for a while, so a handshake may be completed again until then.
`rejectHandshake` (an invite used up or expired) and `onAnswer` follow the comments of the answer records.

The `MC*` modules give the constants their finite values. The `*Proofs` modules hold the theorems.

## Runs

| Run | Checks | Result |
|---|---|---|
| `SecureChannel_session` | one call at a time, three messages one way and one back, every order, repetition and loss, a damaged message, a store that holds one skipped key, one restart | `NoAeadReuse`, `SkippedBounded`, `ChainAgreement`, `StillDecryptable`, `AtMostOnceUntainted` hold |
| `SecureChannel_live` | two messages each way, all three key orders, limits not reached | every message is decrypted (`EventuallyDecrypted`) |
| `Mailbox_serial` | one deposit or ack at a time, a crash, a rejected store operation, both caps reachable, pages of one record, a callback that is set and cleared | the item cap holds and the count is exact but for removals that rejected late (`Counted`), the byte total drifts by at most a record per crash or rejection (`ByteDrift`), every record is seen (`EventuallySeen`), and announced unless the process crashes first, no callback is set or `persistBytes` rejects (`EventuallyTold`) |
| `Mailbox_undercount` | two calls at once | `NotUndercounted` is violated: two seedings after a restart |
| `AccountAuthority_chains` | three scopes: two forged or real certificates with any parents, time, revocation and cutoff; three honest ones; two mutations at different times with records late, repeated and authored by a device | `NoEscalation`, `RetainedExact`, `RevocationSound` hold, and of two accepted states the one with the higher epoch has all revocations and the cutoff of the other (`NewerKeepsRevoked`) |
| `AccountAuthority_delegated` | a device with `deviceSet.publish` signs a state | `DelegateMaySign` is violated: the verifier takes the root only |
| `Keystore_serial` | one call at a time, rejected writes, crashes, valid and invalid certificate chains | `Persisted`, `VaultSound`, `VaultKept` hold |
| `DeviceLink_ceremony` | two codes, two devices, crashes, expiry, clocks ahead | `BundlesSound`, `OpenedOnce`, `ConfirmAgreement` hold |
| `OnionRelay_paths` | two hops, two overlapping peels per packet, a cache of one entry, a copy with a changed ttl, one restart, one rotation, one clock tick | `NoDoublePeel`, `PathSound` hold, and a message arrives unless a relay refuses its key or restarts during the peel (`EventuallyDelivered`) |
| `PeerLinkStore_turns` | four calls on a store (three on the attempts), started between any turns | indexes find exactly the records (`LinksFound`, `SessionsFound`), an acknowledged event is listed once (`LogSound`), pages and listings are right (`PagesExact`, `ListsSteady`), `VersionedStore` is implemented |
| `FileStore_disk` | two callers, four calls, three keys in nested directories, two I/O errors, a crash, a client that pages | the disk is a tree with nothing left over but by the calls that were cut off (`DiskSound`), a put fails for want of its directory only next to a remove or a clear (`FailsOnlyDisturbed`), `DataStore` is implemented, listings are ordered and complete (`ListingSound`) |
| `Handshake_invites` | two parties, two acceptances that cross for two invites or are both of one invite with a restart, completions repeated, prekeys dropped at any time | `SessionsSound`, `OnePeer`, `ConfirmedEstablished`, `Remembered` hold, a session id stands for the same end however often it is installed (`InstalledAlike`), every attempt that was sent is answered (`Decided`) |

`Counted`, `RevocationSound`, `VaultSound`, `BundlesSound`, `PathSound`, `LogSound`, `DiskSound` and `SessionsSound` are conjunctions of
the module's type invariant and of safety invariants that are stated and explained one by one next to them.

Refinement. `ImplementsVersionedStore` maps the records under the three record prefixes to `VersionedStore`, and the
keys of `raced` to its contested keys: for every other key no write is lost. `ImplementsDataStore` maps the `.json` files to
the map of `DataStore` and each call in progress to the operation it stands for: a put takes effect at the rename, a
remove at the unlink, a clear entry by entry, and one that fails or is cut off by a crash before that not at all.

Bounds. Three messages one way are the fewest that skip a key, fill the store and need one more; one message back
takes the responder's lazy step while the initiator's messages are in flight. `MaxSkippedKeys = 1` with
`MaxSkip = 2` makes the store overflow before the skip limit; no run reaches a gap above `MaxSkip` itself. Two certificates make a chain with a parent and a child
(the depth bound is 1); three are what it takes to splice a chain around a revoked certificate. Two mutations are
needed for an older state to arrive after a newer one. All of it at once is too much, so `MCAccountAuthority` keeps every
state in one of three scopes: `Delegation` (two certificates of any kind, one mutation, one record, one tick),
`Splicing` (three certificates signed in their signers' own names, one revocation) and `Ordering` (one certificate, two
mutations, two ticks, any records). `MaxFresh = 4` in `DeviceLink` pays for two requests and two
responses, that is for one complete retry, or two devices on one code. In the mailbox, two records fill either cap
and three deposits go through a full mailbox, an ack and a refill; two deposits are one the client waits for and one it
misses. `MCMailbox` lets the third deposit meet the caps only (it finds the client waiting and brings no callback and no
further failure), and has a crash and a rejection both only around the first record.

In `OnionRelay` one message on two hops with a cache of one entry is enough for every order of marking, evicting,
opening and restarting, since a damaged copy evicts the genuine one. Ttls of 1 and 2 are one too short and just
enough. `a1` leaves its window at the tick, `a2` can replace it.

In `PeerLinkStore` the stores share no key, so a behaviour of the run keeps to one of them. Four calls are two writers
of a record and its index, a third that overlaps both, and one after them. The attempts have two owners, since their
listings filter by owner, and three calls. In `FileStore` two keys of one directory and one of the directory above make
pruning go up two levels and stop at one in use. `MCFileStore` allows the crash and both errors while nothing is listed
(a listing changes nothing on the disk), and beside a listing one of them and three calls. In `Handshake` two
invites and two acceptances are one handshake each way that cross; one invite accepted twice is a second handshake for
the same peer, which with a restart at any step is enough for a replaced session, an unsaved one and a completion
cut short. `MCHandshake` has the second invite or the snapshots and the restart, not both, and leaves out exports after
the last restart, which nobody imports. What these modules leave out are steps of the environment, of which no fairness condition
speaks.

The runs of `AccountAuthority`, `Keystore`, `DeviceLink`, `OnionRelay`, the stores and `Handshake` do not check for deadlock: a system
whose bounds on certificates, random draws, calls or time are used up may stop. Symmetry is declared only where no property is
temporal beyond a single step; `Handshake` fixes the party that issues the first invite instead.

Mutants. Each property of a passing run has a mutated definition, marked `Mutant` in the module, that must break it.

## What the checks found

Two runs must fail, each on what a comment says of the code:

* `Mailbox_undercount`: `#ensureCount` overwrites the count of a deposit that finished while it scanned, while its comment
  says the count "is not undercounted".
* `AccountAuthority_delegated`: the comment on `AccountAuthorityStateV1` lets a device with `deviceSet.publish` sign the
  state, "checked at the consuming verifier", and a test signs one so; `verifyDurableRecordV2` refuses every signer
  but the root.

The properties of the other runs carry the conditions under which they hold. Each is a duty of the callers or a
limit of the code:

* The ratchet is safe for a caller that serialises the calls of a session; `SecureChannelManager` does not do so
  itself. Two overlapping `encryptPayload` calls use one index twice.
* `deriveReceivingKeyForHeader` stores skipped keys before the message is authenticated. If that fails, the keys
  remain while the chain stays where it was, and a message later decrypted on the chain can be decrypted once more
  from the store. `tainted` is this case; without it replay protection holds (`AtMostOnceUntainted`).
* `migrateV1ToV2` does not check that the envelope it replaces is the one it read: two overlapping unlocks of a
  version 1 vault would make two device ids and store one. The run has one call at a time.
* Two writes of a record started before either has written: the later one wins, so of two updates with the same
  expected version both succeed, and of two appends to one log one index entry is overwritten (`raced`).
* A deposit whose `persistBytes` rejects throws although its record is stored, and neither a waiter nor `onDeposit` is told
  of it (`silent`): only a listing finds it. A remove that rejects after the record is gone leaves the count too high until
  the next restart, and the byte total for ever.
* No line of the repository keeps a peer from accepting an older authority state after a newer one. What the code
  guarantees is that epochs order the states (`NewerKeepsRevoked`), so that a holder who remembers the highest one can
  refuse a rollback.
* A packet is handed over once: a relay that restarts during a peel has lost it (`cut`), and so has the sender.
* `FileSystemDataStore.put` fails if a remove prunes its directory between `mkdir` and the write. A crash, or an I/O error
  that is rethrown, may leave temporary files and empty directories (`strayTmps`, `strayDirs`). A cursor whose key was removed is ignored, so a listing starts over (`lost`).
* `establishResponderSession` rotates "so the responder has includeDh=true", but `rotateDh` looks the peer's record up a turn
  after `createResponderSession` installed it. A session with the same peer that a crossing handshake installs in that turn
  is rotated instead (`crossed`): its key is no longer the one the other end knows, and the new session is not rotated.
* `exportSnapshot` writes one row per peer: a session that another handshake replaced, and which the peer may still
  send on, is forgotten at a restart (`replaced`).
* `completeInviteHandshake` has no check against repeats: as long as the caller keeps the prekey, a handshake that arrives
  again replaces the session in use by a fresh one, of the same peer, role and remote key (`InstalledAlike`), and makes it
  the peer's current session. Whoever gives an invite several uses has to look for repeats.
* A stop between `processAcceptedInvite` and the sending of the handshake leaves a session and a pending attempt that
  nobody answers; `Decided` speaks of handshakes that were sent.

## Fairness

`SecureChannel`: a call that has begun goes on (weak fairness of `CallStep`; promises of the crypto provider settle),
and the transport keeps presenting an envelope until it has been decrypted (strong fairness, because a slot may be
busy again and again): the mailbox keeps a record until it is acknowledged, and a client acknowledges after
decrypting. `Mailbox`: calls go on, a client keeps reading, and the timers of `waitForDeposit` and of `onDeposit` fire. Nothing
is assumed of when deposits, acks, rejections and crashes happen.
`OnionRelay`: the network hands each packet to its relay once, and an awaited computation ends. Nothing in the code
sends again, so a second hand-over may happen and is never owed. Nothing is assumed of rotations, restarts or damaged
copies.
`Handshake`: a completion that has begun goes on, and an answer is read (weak fairness); a deposited handshake stays in its
mailbox until the node completes or turns it down (strong fairness per attempt, since a node that completes another, or
the same one again, is not free meanwhile). Nothing is assumed of invites, of the sending of handshakes, of prekeys, snapshots
and restarts.

## Proofs

Each theorem is about every value of the constants its module allows: any number of messages, keys, devices or
overlapping calls, any limits. Where a theorem needs callers that do not overlap their calls it says so with the
hypothesis `Serial` (there is a single call slot), which is the duty of callers named under "What the
checks found".

`SecureChannelProofs`

* `TypeCorrect`: `TypeOK` is inductive once it is known that a call which is past its lookup has a receiving chain
  and an encrypting call a sending chain, which the types of calls say.
* `SkippedStoreBounded`: also for overlapping calls, because the test and the insertion of a skipped key are one step.
* `AeadNeverReused` (`Serial`): `RootInv` keeps the directions apart, since the initiator sends on the chain of the X3DH
  secret and the responder on one behind a ratchet step. `KeyInv`: every envelope of a party that was not rolled back
  was sealed below the index of its sending chain, each under its own key, and a call in progress has that chain. A
  snapshot that equals the state keeps both.
* `EndsOnOneChain` (`Serial`): `AgreeInv` adds that every ratchet state in the record, in the snapshot or in a call fits
  the peer's present state (`Fits`). The initiator announces no key, so the responder never leaves the shared chain; the
  responder has one key since its first send (`OneKey`), and the step the initiator takes on seeing it gives the chain
  of the responder's own lazy step, because the byte order of two different keys assigns opposite halves
  (`SendStateStep`, `ReceiveStateStep`). A receiver is led forward only by envelopes, which lie below their sender's chain.
* `PlaintextsOnce` (`Serial`): in `OnceInv` the keys already used lie before the receiving chain, none of them is in the
  skipped key store, and no key is stored twice. A decrypt in progress works on a chain that is not behind the record's,
  and the key it holds is neither used nor stored. `Precedes` orders keys by the length of their root and by index: a
  chain behind a later ratchet step is never confused with one before it.
* `EnvelopesStayDecryptable` (`Serial`): `FillInv` is the converse. Every index below the receiving chain is used, in the
  store, or in the hands of the decrypt in progress (`Complete`), and every stored entry is of that chain. With
  `AgreeInv`, which says that the chain is the sender's, an envelope not decrypted yet is in the store or ahead.

`AccountAuthorityProofs`

* `EpochsOrderRevocations`: `StatesInv` says that published states and the peer's view are states the home once had, and
  that among those a higher epoch has more revocations and a later cutoff. Only a root-signed record is accepted for
  the kind, so whatever the view becomes is in that order with what it was.
* `ChainsNarrow`: the checks compare neighbours; the theorem is about the ends of the chain. Induction along the chain is
  by the least position at which a claim fails (`LeastNat`), since the library's induction rules cannot be
  instantiated. `CertsInv` types the certificates.
* `KeptVerdictsExact`: `AuthorityInv` says that the facts of a kept chain that neither time nor revocation can change
  still hold: certificates are never altered, and the expiry kept is the least one of the chain.
* `DescendantsCutOff`: `Ancestors` is a recursive function. That it has a value is shown by extending a solution by one
  certificate at a time, parents being signed first (`AncestorsExist`); then an accepted chain lists all ancestors of
  its leaf (`ChainHasAncestors`), and each of its certificates is checked against the revocations.

`OnionRelayProofs`

* `PeeledOnce`: `NoDoublePeel` is not inductive. The invariant adds that an opened packet's entry is in the cache or was
  lost, that a running peel whose entry was not lost is of an unopened packet, and that it is the only one of that
  packet. `MarkKeeps` says that marking adds the entry and loses at most the oldest one of a full cache.
* `PathsKept`: `PathInv` adds what the sealed layers of a packet hold: the rest of the path, with the ttl that is left at
  each layer, whatever the visible header says. A relay occurs once on a path, because `buildPath` never takes one twice.

`StorageProofs`, the vault

* `NeverLockedOut`, for overlapping calls: a stored envelope was sealed under a password that some call was given, and
  a password change that was rejected leaves both passwords to try.
* `HandedBackPersisted`, `AccountKept` (`Serial`): `SerialInv` ties what a running call has read to what is stored.

`StorageProofs`, the peer-link storage. Nothing is assumed of the calls: any number overlap in any order of turns, and
what a race can spoil is excused by `raced` in the properties themselves. `TypeInv` gives, for each call in the queue, what
it has read at its present await (`CallOK`). `Moves` says which calls and which kinds of keys a step touches; a step on other
kinds leaves an invariant alone, so each invariant is argued for the turns of one store only.

* `RecordsAreVersioned`: `VersInv` says that what an undecided call has read of its key still stands, and that two
  undecided calls on one key have raced. So the write is a step of `VersionedStore` (`RefineLinks`, `RefineSessions`,
  `RefineAttempts`), and every other step is a stutter.
* `LinksAreFound`: a link claims a pair when the index names it, or a call is about to write it there
  (`Claims`). `LinkInv`: every stored link claims its pair, a pair has one claim, a create that has looked at
  the pair has seen the claim, and one that has not yet will find it in the index, because the call that writes it is
  ahead in the queue (`ClaimAhead`).
* `SessionsAreFound`: `TurnsInv` is the argument from the microtask queue. Two calls on one index that were started in turns of
  their own keep their distance: of two in the queue, the one ahead has been resumed more often, or the other one at
  least twice more. So between a delete's read of the index and its write no put of that index comes in. `SessionInv`: the
  index names the session put last, what a delete has read of the index still stands, a deleted session is not the one
  put last, and an index left over names no stored session, unless a put of it is about to write (`PutPending`).
* `LogIsSound`: in `LogInv` every id in the index, and in what an append has read of it, is backed by a stored event; what
  was read still stands; no id repeats; an append that will list its event is the only one and has not yet; and an event
  that was acknowledged or stored, or found stored by a repeated append, is listed or has an append that will list it.
  It needs `VersInv` and `TurnsInv`.
* `PagesAreExact`: `PagesInv` says that what the client has is the start of the index (and of the copy it is reading from),
  up to its cursor. The index only grows and repeats no id, both from `LogInv`, so the position of the cursor is unique.
* `ListsAreSteady`: in `ListInv` a record that a listing began with and that still stands is to be read or has been
  (`ListsCover`). That is not inductive alone: a record rewritten just as it was would come back after its turn. Every write
  carries the number of its call, and the numbers of calls that have not written are not used (`WritesNew`, `NumbersNew`).

`MailboxProofs`

* `CapHolds` (`Serial`): `CallSound` says for each step of a deposit or an ack what its local values know: a count that is
  in memory is the number of records and of removals that rejected late, less what the running call has put or removed
  and not counted yet. A crash clears the count, and the next call scans.
* `DriftBounded` (`Serial`, and `Largest`: there is a largest record size, without which the bound means nothing; a
  record larger than the byte cap is never stored): `Drift` says at each step of a call how the total in memory, the
  persisted total and the bytes of the records compare, where a record was put or removed and not accounted for yet
  (`Owing`). A crash or a rejection turns one such difference into slack. That a sum over a finite set changes by
  the size of the record added or removed is proved from the definition of the fold (`SizeLess`, `SizeMore`).

`DeviceLinkProofs`

* `BundlesInstallable`, `ResponsesOpenOnce`, `ConfirmationsAgree`: in `CeremonyInv` every number drawn at random is the
  nonce of one record (`DrawnOnce`), and a seal or a tag names what it was made from. So a response that opens was made
  for the request whose key opens it, and a confirmation that verifies was made by a device that opened the response.

`HandshakeProofs`

* `EndsAgree`, `AgreedWithPeer`, `RepeatsAlike`, `AcksAreTrue`, `SnapshotsRemember`: in `HandshakeInv` a session id tells
  the attempt, the parties and the prekey (`SidInjective`), a packet that verifies is the one its sender signed, whatever was
  installed is one end of its attempt (`MadeFor`), and the record a completion has looked up is still there
  (`Completing`). No use is made of when prekeys are dropped. The exceptions of the properties (`crossed`, `replaced`) are
  the histories the invariant carries.

`FileStoreProofs`

* `DiskStaysSound`, `PutsFailOnlyDisturbed`: `DiskInv` says that each entry has its parent, that a temporary file belongs to
  a put in progress, and that an empty directory is about to be used or pruned, unless a call cut off by an error or a
  crash left it.
* `FilesAreAMap`: `FileStore` implements `DataStore`. A put takes effect at its rename, a remove at its unlink, a clear
  name by name as in the abstract map; every other step is a stutter.
* `ListingsAreSound`: in `ListInv` a key that is owed is, during the walk, found or below a directory still to be read;
  once the page is cut it is on the page or lies behind the cursor. What the client has got lies before the page in the
  order of keys, and at or before the cursor, unless a cursor was lost.

Only model-checked:

* Liveness (`EventuallyDecrypted`, the liveness of `Mailbox`, `OnionRelay` and `Handshake`): fairness is out of the prover's reach.
* `NotUndercounted` and `DelegateMaySign` are false of the code (see above), so there is nothing to prove.

Every other property of a run is stated by a theorem.

## Plan

1. Forwarding: routing tables with loops, the dispatchers, the duplicate filter and the token buckets, composed with
   OnionRelay; abstract specification: a packet is delivered at most once at its last hop.
2. DeviceSet: optimistic revisions of device mutations and registrations, composed with AccountAuthority.
3. FileTransfer: chunks late and repeated; a failed session that a late chunk revives.
4. An abstract specification of a channel (each plaintext at most once, only what was sent) that SecureChannel
   implements for serialised calls.

## Not modelled

Cryptographic arithmetic, encodings and key formats (symbolic here); logging; the bridge; record shapes whose state
machines are in the node's repository (handles, profiles, settlement, attestations, deposit policies, outbound queue
entries). Forwarding, file transfer and capability tokens are not modelled yet.

Within modelled parts: `createMailbox` and `fetch` of the mailbox, and the content type it keeps in a record's metadata; the
cached device set and the bootstrap inbox of a keystore payload; one-time prekeys, which the manager never offers;
the account binding of a handshake, which the callers verify. A recursive `mkdir` or `rm` counts as one file-system
call, `list` in reverse is left out, and a listed prefix is a whole directory (`MemoryDataStore` lists by string prefix).
