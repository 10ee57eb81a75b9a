# EtherPK client: formal models

TLA+ models, TLC runs and TLAPS proofs for the synchronisation core of the
EtherPK client (`src/apps/client/src/lib/sync/`) and for the file lock of its
headless client (`src/apps/mcp/src/file-lock.ts`). The client keeps end-to-end
encrypted Yjs documents in IndexedDB and exchanges encrypted updates with a relay
over a WebSocket; the keys those updates are sealed under are kept in vaults on
the Sync Server and replaced epoch by epoch. What is worth verifying is the
protocols that run between the editor, the cache, the socket, the relay, the
vaults and the other devices while tabs die, sockets drop, writes are refused,
members leave and callbacks interleave at every `await`.

This file has five parts: the system, what is modelled and how it corresponds to
the code, what the runs and the proofs show, the disagreements found, and the plan.
`PROJECT.json` holds the machine-readable side: components, runs, the source lines
of every definition, the hazards, and for every property a mutant of the model
that breaks it.

## 1. The system

Paths are relative to `src/apps/client/src/lib/` unless they start with `src/`.

| Component | State it keeps | Operations | What is hard | What makes it correct |
|---|---|---|---|---|
| Document sync engine (`sync/doc-sync.ts`) | live Y.Doc, durable queue, baseline (state vector and snapshot), dirty tokens, generation and lifecycle, sequence watermark | local edit, debounce, drain, seal, transmit, ack, remote update, catch-up, delete, resurrect, stale generation, retire, snapshot, presence | every operation awaits encryption or IndexedDB and finds a different world after it | no local edit is stranded, no operation is stored twice, at most one in flight, deletions and generations converge |
| Local cache (`sync/local-cache.ts`) | one row per document (state, vector, tokens, generation), outbox rows, index-dirty rows, in IndexedDB | save, enqueue, pending, markAttempt, commitAcknowledgement, commitDeleteAcknowledgement, discard, purge, compact | transactions land in order, but carry copies captured earlier; several tabs share them; crash between two | rows merge instead of being replaced; an operation and its edits land together |
| Graph sync session (`sync/graph-sync.ts`) | socket, retained engines, subscriptions, ack routes, operation window, catch-up queues, refusal and key-retry timers, token state | connect, open, close, message dispatch, sendOperation, operationAnswered, queueCatchup, noteRefusal, resendRefused, followEpoch, retire | one socket carries thousands of documents; state belongs to a socket generation | places and routes are given back; every refused write is retried; every catch-up asked for is answered |
| Relay contract (`sync/loopback-relay.ts`) | per-document log, receipts, generation, lifecycle, snapshot | append, delete, resurrect, ack_confirm, catch-up, snapshot, refusals | idempotence only until the receipt is confirmed | an outbox id is applied once |
| Sync wire protocol (`src/packages/shared/src/sync-protocol.ts`) | none | parse, limits | - | both sides read the same message |
| State vectors (`sync/state-vector.ts`) | none | merge, compare | clocks per client | a merge is a least upper bound |
| Presence (`sync/presence-session.ts`) | local and remote awareness | advertise, receive, expire | dropped while closed | last advertised state wins |
| Sync token source (`sync/sync-token.ts`) | held token, mint in flight | call, forced call, deadline | concurrent callers | one mint; a stuck mint is abandoned; a refused token is not used again |
| Vault updates (`sync/vault-update.ts`) | vault version on the server, three attempts | read, apply, compare-and-set | other devices write between | nothing another device put there is lost |
| Epoch rotation, hand-outs, pins, invites, Key Replacement (`sync/epoch-rotation.ts`, `key-handouts.ts`, `pins.ts`, `invites.ts`, `key-replacement.ts`) | epochs, lease, members, copies and invites that wait, vaults | allocate, commit, collect, invite, accept, verify, replace keys | members and keys change under the lease; every call is a chain of requests | no one in the graph loses an epoch, no one who left learns a later one |
| Vault session (`sync/vault-session.ts`, `sync/device-passcode.ts`) | unlocked key | unlock, lock | several tabs | locked everywhere or nowhere |
| Derived index sharing (`document/index-worker/share.ts`, `cross-tab-lock.ts`) | owner, candidates | own, attach, adopt, hand over | the owner tab dies | one owner; a request is answered or failed |
| Folder-backed store (`storage/fs/filesystem-store.ts`) | buffers, registry, stamps | save, reconcile, rename | other programs write the folder | no text is overwritten unseen |
| Local Mirror (`storage/synced/local-mirror.ts`) | last mirrored state | push, pull, merge | both sides change | no change is dropped |
| Session refresh (`server/auth/refresh-once.ts`) | refresh in flight, recent answers | refresh | rotated tokens | one rotation per token |
| Headless client lock (`src/apps/mcp/src/file-lock.ts`) | lock file, breaker file | acquire, heartbeat, break, release | stale locks, several waiters | mutual exclusion |
| Settle scheduler, retry and pool helpers, unsent-changes view | a timer or counters | - | - | small and unit tested |
| Cryptography, user interface, publishing | - | - | - | outside the scope of a protocol model |

How they interact. An edit fires the engine's `onUpdate`, which writes the cache
and arms a debounce. The debounce asks for a drain: difference against the
baseline, encryption, one transaction that stores the operation with the
document's state, an attempt mark, and a send through the session. The session
sends it or parks it behind the operation window. The relay stores it, keeps a
receipt and acknowledges; the session routes the acknowledgement by outbox id to
the engine, which commits it to the cache, tells the relay to drop the receipt
(`ack_confirm`), and drains again. A reconnect resends every engine's head
operation; a refusal on a quota arms a timer that does the same. Updates of other
devices come by push or in catch-up pages, and a key they need that is not held is
collected through the session, which then has every engine seal again what was
refused and ask again for what could not be opened. The keys themselves travel from
the vault of the owner, who starts an epoch, to the vault of every member, as a copy
that waits on the server until it is collected.

The hazards, each at its line and with the properties aimed at it, are in
`PROJECT.json`.

## 2. What is modelled

| Module | Code | Checked by |
|---|---|---|
| `OutboxDelivery`, `ReliableOutbox` | an edit on its way to the relay | `outbox_delivery`, `OutboxDelivery_proofs` |
| `OperationWindow` | many documents, one socket | `window_shared`, `OperationWindow_proofs` |
| `DocCatchup` | the log on its way to a device | `catchup_gaps`, `catchup_snapshots`, `catchup_skip`, `DocCatchup_proofs` |
| `DocLifecycle` | deletion, resurrection, generations | `lifecycle_calm`, `lifecycle_offline`, `DocLifecycle_proofs` |
| `KeyEpochs` | a session and an engine following a new key | `keys_followed`, `KeyEpochs_proofs` |
| `SessionAccess` | connection, sync token, end of access | `access_ends`, `SessionAccess_proofs` |
| `EpochRotation` | the keys of a graph and the vaults they are kept in | `rotation_shared`, `rotation_replaced`, `EpochRotation_proofs` |
| `FileLock` | the lock of the headless client | `lock_takeover`, `FileLock_proofs` |

The modules divide one system. Each keeps one slice of the engine or the session in
full and stands on another module for the rest: `OperationWindow` and `DocCatchup`
take "at most one operation queued, acknowledged once" from what is proved of
`OutboxDelivery`; `DocLifecycle` leaves gaps and pages to `DocCatchup`; `KeyEpochs`
leaves generations to `DocLifecycle`; all of them leave how a socket comes back to
`SessionAccess`, and where a new key comes from to `EpochRotation`. An `MC` module
adds only what TLC needs, symmetry sets and names.

### `OutboxDelivery`: one document's edits on their way to the relay

One tab, one document, one active generation: `doc-sync.ts` over
`local-cache.ts`, with the connection and the relay reduced to what the document
sees of them. All of the engine's control on that path is kept, at the
granularity of its `await`s.

| Code | Model |
|---|---|
| Y.Doc content | `doc`, a set of edits. Insertions are named by a state vector; deletions are not: they live in the delete set, which Yjs writes whole into every difference. `Diff` says just that, and `NoEmptyAppends` depends on it |
| `lastSyncedStateVector`, `lastSyncedSnapshot` | `synced` (insertions only), `snap` with `known` |
| `durableQueue`, `boundarySnapshots` | `queue`, `captured` |
| `recoveredDirtyTokens`, `activeDirtyToken` | `recovered`, `active`; a token is named by the edit that made it |
| `debounceTimer`, `drainPromise` | `timer`, `drain` (the await the drain is at) and `draft` |
| `persistenceTail` | `tail`, a FIFO of tasks; `RunX` lands the transaction at its head and runs the code awaiting it |
| the document row, the outbox rows | `row` (content, vector, tokens), `rows` |
| the socket | `open`, `c2r`, `r2c`: two FIFO channels, both dropped by `Close` |
| loopback relay | `log`, `receipts` |

Decisions a reader should know:

- A crash lets the transaction at the head of the queue land or not (the rest is
  lost): a transaction started in IndexedDB may complete after the tab is gone.
- While `ready` reads the cache, tasks of the queue wait: IndexedDB orders
  overlapping transactions by creation. An edit during that time is included.
- The engine retires (`Retire`) at any moment `isIdle` holds. Tasks left in its
  queue are dropped, which is harsher than the code and so a stronger check.
- The refusal timer is cleared at a commit or a little later,
  nondeterministically: the code clears it when the drain that follows returns.
- A send finds room in the operation window. When it does not is the subject of
  `OperationWindow`, and matters: see section 4.

`ReliableOutbox` is the promise: an operation enters an empty outbox under a fresh
id, is stored exactly once, only then leaves, and does not stay there for ever.
`OutboxDelivery` implements it under the refinement `outbox <- Ids(rows)`,
`stored <- ids of log` (`ImplementsReliableOutbox`, with the liveness part).

### `OperationWindow`: how documents share the socket

Many documents, one socket (`graph-sync.ts`): `sendOperation`,
`operationAnswered`, the map from outbox ids to documents that routes
acknowledgements, the refusals and their retry timer, and `forgetSocketGeneration`.
Each engine is reduced to what `OutboxInvariant` proves of it: at most one queued
operation (`head`), the attempt marks and commits in its cache queue (`tail`), and
no commit left when the next operation is queued.

- `operationsInFlight` and `operationsWaiting` are insertion-ordered `Map`s:
  `inFlight` (order never matters) and the sequence `waiting`; setting a key that
  is there keeps its place (`Park`).
- The route of an acknowledgement is removed, and its write accepted, by the
  `.then` of `receive()`. That promise resolves when the drain after the commit has
  sent its operation or found nothing (`Finished`, `DrainedNothing`); an
  acknowledgement that is not the head's resolves at once.
- `Init` chooses the size of the window (`window`) from `Windows`: one run covers a
  window that is full and one that never is.
- The server names the document and operation it refuses; servers too old to do so
  are left out, and so are the answers of deletes and of stale generations, which
  also free a place.

### `DocCatchup`: the log on its way to a device

The other direction (`doc-sync.ts`: `receive`, `applyEnvelope`, `applyActivePage`,
`uploadSnapshot`, `commitAcknowledgement`; `graph-sync.ts`: the catch-up queue).
The n-th update of the log is its own content, so "the document contains updates
1 to n" is a set, and the watermark is honest when that set covers it.

| Code | Model |
|---|---|
| `lastSeq`, `futureUpdates`, `syncHealth`, `missingEpoch` | `lastSeq`, `future`, `health`, `missing` |
| a call of `receive()` that waits for a decryption or a transaction | a record in `tasks`: the envelope being opened and those still to do; any number overlap |
| `catchupsInFlight`, the waiting request, the repeat | `asks.fly`, `asks.wait`, `asks.again`; `Ask` and `Finish` are `queueCatchup` and `finishCatchup` |
| the cache row | `row`, into which a save merges |
| relay log, snapshot, pruned floor, pages | `log`, `snap`, `floor`, `Page` (`loopback-relay.ts:404-408` says when a snapshot is sent) |
| collecting the key and sealing again what was refused | one step, `KeysChanged`; `KeyEpochs` takes it apart |

Other devices append, start epochs and upload snapshots through the relay. The
device's own operations move the watermark too, by the rule of
`AckedWatermark`; a snapshot is captured with its watermark (`CaptureSnapshot`),
encrypted, sent, read back, and pruned behind. One finished while the socket is shut
waits in `c2r` and goes before the requests of the next socket (`graph-sync.ts:1184`, `1797`).
The exchange that reads it back is one step.

The relay that prunes is external: the loopback relay never does. Two things are
assumed of it. It answers a request from below what it pruned with the snapshot
(`FromSnapshot`, as `doc-sync.test.ts:1525` has it), and a late, older snapshot does not
replace the one it pruned behind (`Latest`): without that `PruneLosesNothing` fails.

### `DocLifecycle`: deletion, resurrection, generations

`delete()`, the drain that resurrects, `adoptRelayDeletion`,
`discardOlderGeneration`, `recreateInto`, `staleGeneration` and the pages and
acknowledgements that carry a generation, over a relay whose documents have a
generation and a state (`loopback-relay.ts`). Text is a set of items; writing text
again (`recreateInto`) makes new items of the same edits (`Again`). An operation is
sealed and written in one step; the relay's receipts, a map by operation in the code,
are a set of acknowledgements; the waits that remain are those around which a
generation can change: a decryption, an acknowledgement's commit, the purge of an
adopted deletion, the discards of a refused queue, the three waits of `delete()` (`deletion`). Other
devices delete only a document with something in its log: it is where they know it from.

`Calm` names what an instance assumes not to happen (section 4 says what goes wrong
when it does): `"waits"`, an engine's waits overlap; `"refusals"`, a
`stale_generation` that arrives late, for a request of an older generation or behind an edit or a
resurrection made since; `"deletions"`, a deletion
by this device that overlaps anything else under way.

### `KeyEpochs`: following a new key

`followEpoch`, `scheduleKeyRetry`, `keysChangedEverywhere` of the session and
`staleEpoch`, `keysChanged`, `resealStaleOperations` of the engine. The session's
fields keep their names. A call of `keysChanged` is a process of its own (`walk`), cut
at its awaits (`Sealed`, `RunStore`, `RunDiscard`, `RunMark`), and two of them may
overlap, since nothing in the code makes one wait for the other. The keyring is
read where the code reads it, and may have changed by the next line that does
(`CollectedElsewhere`: the workspace collects without telling the session). How
random outbox ids happen to sort is chosen once it matters (`idOrder`): after a
restart the outbox is read back in that order.

### `SessionAccess`: connected, or ended

`connect`, the socket's events, `scheduleConnect`, `reconnectNow`, `endAccess`,
`stopForProtocolMismatch`, `dispose`, `requestWatermarks` of the session, and the whole
of `sync-token.ts`, shared with a second caller, the asset uploader. A socket is
`phase[s]`, from opening to its close event, which may come after the session has let
it go. The server side is three facts: whether the account is still a member, which
tokens it refuses, and what can go astray. A promise that settles runs what awaits
it in the same step, but for the continuation of a watermark request, since a close
can land before it.

### `EpochRotation`: the keys of a graph

Every account's vault, written by compare-and-set (`vault-update.ts`), and the calls
that write it: `rotateGraphKey`, `collectKeyHandouts`, `savePin`, `sendInvite`,
`acceptInvite`, `prepareKeyReplacement`, by two devices of the owner and the devices of the members. A call is a
record with its place (`step`), what it read, what it was shown and how often it has
tried; it runs from one request to the next in a step, and its answer may be lost, or
its page closed, at any request (`Answered`, `Trouble`). The server is the contract
the code is tested against (`testing/fake-sync-server.ts`). A key is named by epoch
and by the device that made it, so two keys for one epoch would be told apart
(`Conflict`).

`Reach(a)` is what an account has or can still take: its keyring, its invite, and a
copy sealed to the keys it has now by the owner as published. The properties compare it
with the epochs committed. `missed` records two documented ways to be left without an
epoch until the next: an invite written from a keyring another device's commit has
overtaken (`createInvite` in the contract looks at keys and membership, not at
epochs), and a Key Replacement with a copy unread.

One assumption: removing a member withdraws a pending invite. The fake server leaves
it pending (`fake-sync-server.ts:490-496`); an account that is not in the graph has
nothing to accept. Left out: the write that gives a vault from before signing keys its
signing key (`key-replacement.ts:82`). Every vault here has one, and for it that call
reads and writes nothing.

### `FileLock`: the lock of the headless client

`withFileLock` and `breakStaleLock`, one step for each file operation. A file is who created
it and whether it has gone untouched for its limit, which only the files of dead
processes do. `WriteName` writes through the handle: if the file was removed meanwhile, the name
goes to nobody. `crossed` records that a breaker was removed by a process that neither made it
nor found it old (`rmBreaker` after another waiter has already replaced it).

## 3. What is checked and proved

### Runs

| Run | Instance | Shows | Distinct states |
|---|---|---|---|
| `outbox_delivery` | 1 insertion, 1 deletion, 5 ids, 1 close, 1 crash, 1 refusal, `FairSpec` | six invariants, `NoEmptyAppends`, `EditsArrive`, `ImplementsReliableOutbox` | 0.11 M |
| `window_shared` | 2 documents, 1 or 2 places, 2 operations each, 1 close, 1 refusal | `NoLostWakeup`, `NothingStalls`, `RoomyAppliesOnce` | 3.2 M |
| `catchup_gaps` | a log of 3 updates, 1 of them this device's, 2 epochs, pages of 1, room for 1 held update, 1 restart | `WatermarkHonest` | 0.17 M |
| `catchup_snapshots` | a log of 2, 1 snapshot by this device and 1 by a peer, 1 close | `GapPursued`, `PruneLosesNothing`, `KeepsUp` | 0.42 M |
| `catchup_skip` | a log of 3, 2 epochs, 1 snapshot by a peer | counterexample to `WatermarkHonest` | stops at 8 states |
| `keys_followed` | 2 epochs, 1 edit, 4 ids, 2 overlapping walks, 1 trouble | `EditKept`, `ReplacedNotStored`, `WaitIsWatched`, `EditsStored`, `KeysFollowed` | 0.18 M |
| `lifecycle_calm` | 1 edit here, 2 by peers, 3 generations and those of this device, 1 deletion here, 1 close, calm | `Converged`, `DeletedStaysDeleted`, `RevivalKept`, `Settles` | 0.42 M |
| `lifecycle_offline` | no edit here, 2 by peers, 1 deletion here, deletions overlap | counterexample to `OnlyEditsRevive` | stops at 17 states |
| `access_ends` | 2 sockets, 3 tokens, 3 troubles | `OneNextStep`, `RefusedNotPresented`, `ComesBackOrEnds` | 0.19 M |
| `lock_takeover` | 5 processes, 2 of which die | `HoldersApart`, `StaleIsCleared` | 0.30 M |
| `rotation_shared` | owner with 2 devices, 1 member, 1 change, 1 trouble | `NoEpochLost`, `LeaversShutOut`, `VaultKeepsWhatItHolds` | 1.6 M |
| `rotation_replaced` | the same, 2 changes, no trouble, the owner replaces keys | counterexample to `OwnerKeepsUp` | stops at 10 states |

Every module has one type invariant beside these.

The properties, in words.

Sending (`OutboxDelivery`, `OperationWindow`):

- `AtMostOnce`: the relay stores an outbox id once, whatever is resent, lost,
  refused or replayed.
- `DurableBeforeSent`: what the relay holds or is being sent is in the local row.
- `BaselineSound`: the vector differences are taken from names nothing the relay
  does not hold. If it did, that edit would never be sent.
- `UnsentIsTokened`: an edit at rest outside every operation has a dirty token.
- `IdleStrandsNothing`: an idle engine can be destroyed without losing what sends an edit.
- `NoEmptyAppends`: an append that brings nothing new is made only while the baseline
  is unknown. A client once looped at forty appends a second here.
- `EditsArrive`: whatever reached the disk reaches the relay.
- `NoLostWakeup`: an operation waits only while the window is full.
- `NothingStalls`: a queued operation always has a next step while the socket is
  open: a task, a message whose answer finds its engine, a waiting place or an armed
  retry. This is the safety form of "every write is eventually answered"; the
  liveness form is not claimed for the window, since places leak (section 4).
- `RoomyAppliesOnce`: with a place for every document the relay stores no operation twice.

Receiving (`DocCatchup`):

- `WatermarkHonest`: the watermark, live and at rest, passes only over updates the
  document contains. Nothing up to it is ever asked for again.
- `GapPursued`: a document at rest has every update the relay has named to it, unless
  it waits for a key: no request for a gap is dropped as a duplicate (checked where this device
  makes no operation, section 4).
- `PruneLosesNothing`: what was pruned is in the newest snapshot.
- `KeepsUp`: a device that goes on running ends with the whole log.

Generations (`DocLifecycle`):

- `Converged`, `Settles`: the two sides come to rest, and then agree on generation, state and text.
- `DeletedStaysDeleted`: text a deletion removed comes back neither at the relay nor in a
  document at rest.
- `RevivalKept`: an edit on a deleted document reaches the relay, and only a later
  deletion removes it.
- `OnlyEditsRevive`: an engine nobody typed into sends no resurrection (violated, section 4).

Keys (`KeyEpochs`, `EpochRotation`):

- `EditKept`: through resealing and the death of the tab an edit is stored, in the
  outbox, or marked as not yet queued.
- `ReplacedNotStored`: nothing is sealed again that the relay has stored, second rows of overlapping walks excepted (section 4).
- `WaitIsWatched`: whatever waits for a key, something is collecting it or a timer will.
- `EditsStored`, `KeysFollowed`: the edit arrives under the new key, and nothing waits for ever.
- `NoEpochLost`: everyone in the graph holds every epoch or can still take it.
- `LeaversShutOut`: who was removed knows no later epoch, the newest epoch is later once
  nothing is due, and a rotation reports no epoch older than its request.
- `VaultKeepsWhatItHolds`: no write of a vault drops an epoch or a pin another device put there.
- `OwnerKeepsUp`: the owner can always make the next epoch (violated, section 4).

Access and lock (`SessionAccess`, `FileLock`):

- `OneNextStep`: a session that has not ended has exactly one of a timer, a token
  asked for, or a socket; one that has ended has none.
- `RefusedNotPresented`: a token the relay refused is not presented again.
- `ComesBackOrEnds`: the session connects or ends, ends when its access is taken away,
  and answers every request for watermarks.
- `HoldersApart`: one process holds the lock, unless `crossed`.
- `StaleIsCleared`: a lock whose process died does not stay while somebody waits, a breaker of the
  dead standing in its way included. It says nothing of a breaker alone: a waiter that dies between
  `rm(lock)` (`file-lock.ts:81`) and `rm(breaker)` (85) leaves one, and it stays, harmlessly, until a
  lock next goes stale and somebody needs the breaker.

### Bounds, and why they are enough

Every bound is a constant in a guard. TLC takes a close, a crash or a trouble at every
state, so one of each meets every stage of whatever is under way.

- `outbox_delivery`: an insertion and a deletion are enough for an edit in each place
  an edit can be at a time (acknowledged, in the operation under way, made while that
  one is sealed) and for a deletion to ride along in a difference with nothing else.
  `MaxOps` does not bind: four ids and five give the same states. The theorems below
  cover every number of edits.
- `window_shared`: one place stands for 128: the second document is the one that waits.
- `catchup_gaps`: three updates make a gap with something behind it, and room for one
  makes a held update that finds none. `catchup_snapshots` assumes `Undisturbed` and has no
  operation of this device's own; `catchup_gaps` has one, and does not check `GapPursued`,
  which fails there (section 4).
- `keys_followed`: two walks are the fewest that overlap, four ids let each of them seal
  the edit again. A larger instance (3 epochs, 2 edits, 6 ids, 2 troubles)
  was explored breadth first to depth 22 and by simulation, over 80 M states, without a violation.
- `lifecycle_calm`: a deletion, a resurrection and a deletion again, on either side.
- `lock_takeover`: two dead processes leave a stale lock and a stale breaker at once.
  Four processes are enough for a breaker to be crossed, the fifth is one more waiter.
- `access_ends`: two sockets, so that a second one, opened by mistake beside the first, would be
  seen. The session never has both: each close of its own also ends it, so the next socket is
  opened only after the last has closed. Names of sockets and tokens are taken again, so their
  number does not bound the length of a run.
- `rotation_shared`: one change and one trouble, at every request of every call. Also
  explored: two changes without troubles (over 6 M states, not finished), two changes and a
  trouble with only the member replacing keys (1.3 M), two members and one change (0.27 M),
  all without a violation.

Deadlock is checked for `OutboxDelivery`, whose `Start`, `Retire` and `Open` keep it
going. The other models, like the code, are idle once all that is bounded has
happened. Symmetry is used only in runs without liveness.

### Fairness

Weak fairness of what the code schedules by itself, and nothing of edits, closes, crashes,
refusals, deletions or peers, which are finite because they are bounded.

| Module | Fair | Why |
|---|---|---|
| `OutboxDelivery` (`FairSpec`) | cache and crypto callbacks, timers, `Open`, the relay, dispatch, `Start` | the reconnect loop goes on until access ends; a document is opened again some day, or an edit on the disk of a device never used again would have to arrive |
| `DocCatchup` | `Device`, `Connect`, `RelayTakes`, `KeysChanged` | the event loop, the back-off, the relay, the key's retry timer |
| `DocLifecycle` | `Device`, `Connect`, `RelayTakes` | as above |
| `KeyEpochs` | sealing and sending, collecting and its retry, dispatch, relay and reconnect | as above; a collection is fair as a whole, so it may fail while the bound lasts |
| `SessionAccess` | the mint (its deadline included), `Connect`, `Opened`, the close event, the relay's refusal of an account that lost its access, the watermark request's fifteen seconds | each is a timer or an answer with one |
| `FileLock` | each live process's next step, and the ageing of a dead one's files | processes run; modification times stand still |

`OperationWindow` and `EpochRotation` state none: their properties are about steps and states.

### Proofs

For every value of the constants, from the named assumptions of each module
(finite sets, naturals, names that differ) and nothing else:

| Theorem | States |
|---|---|
| `TypeCorrect` (`OutboxDelivery_proofs`) | `Spec => []TypeOK` |
| `OutboxInvariant` (`OutboxDelivery_proofs`) | `Spec => []OutboxInv` |
| `StoredAtMostOnce` (`OutboxDelivery_proofs`) | `Spec => []AtMostOnce` |
| `WrittenBeforeSent` (`OutboxDelivery_proofs`) | `Spec => []DurableBeforeSent` |
| `QueueIsTheOutbox` (`OutboxDelivery_proofs`) | `Spec => []QueueMirrorsOutbox`: the queue in memory is the outbox at rest |
| `AtMostOneInFlight` (`OutboxDelivery_proofs`) | `Spec => []OneInFlight`: one operation at most, and what the socket carries beside it echoes something stored |
| `ImplementsReliableOutboxSafely` (`OutboxDelivery_proofs`) | `Spec => Promise!Safely`, the refinement of `ReliableOutbox` without its fairness |
| `NoInsertionSkipped`, `UnsentKeepsAToken`, `IdleMayGo`, `NoAppendForNothing` (`OutboxDelivery_proofs`) | `BaselineSound`, `UnsentIsTokened`, `IdleStrandsNothing`, `NoEmptyAppends` |
| `WindowInvariant`, `WindowTypeCorrect`, `FreedPlacesAreTaken` (`OperationWindow_proofs`) | `WindowInv`, `TypeOK`, `NoLostWakeup` |
| `EngineInvariant`, `AlwaysANextStep`, `AppliedOnceWithRoom` (`OperationWindow_proofs`) | `EngineInv`, `NothingStalls`, `RoomyAppliesOnce` |
| `AccessInvariant`, `AccessTypeCorrect`, `AlwaysOneNextStep`, `RefusedTokensStayAway` (`SessionAccess_proofs`) | `AccessInv`, `TypeOK`, `OneNextStep`, `RefusedNotPresented` |
| `LockInvariant`, `LockTypeCorrect`, `MutualExclusion` (`FileLock_proofs`) | `LockInv`, `TypeOK`, `HoldersApart` |
| `RotationInvariant`, `RotationTypeCorrect`, `NothingLostByAWrite` (`EpochRotation_proofs`) | `RotationInv`, `TypeOK`, `VaultKeepsWhatItHolds` |
| `KeysInvariant`, `KeysTypeCorrect` (`KeyEpochs_proofs`) | `KeysInv`, `TypeOK` |
| `EditsAreKept`, `NothingStoredIsReplaced`, `EveryWaitIsWatched` (`KeyEpochs_proofs`) | `EditKept`, `ReplacedNotStored`, `WaitIsWatched` |
| `EpochInvariant`, `NoEpochIsLost`, `LeaversAreShutOut` (`EpochRotation_proofs`) | `EpochInv`, `NoEpochLost`, `LeaversShutOut` |
| `CatchupInvariant`, `CatchupTypeCorrect` (`DocCatchup_proofs`) | `TypeInv`, `TypeOK` |
| `WatermarkIsHonest` (`DocCatchup_proofs`) | `WatermarkHonest` where no snapshot is uploaded (`Plain`): gaps, pages, held updates, keys that are missing, lost sockets and killed tabs |
| `LiveWatermarkIsHonest` (`DocCatchup_proofs`) | its first half with everybody's snapshots, where one key is used, the tab lives and the document is left alone while a snapshot is opened (`Calm`) |
| `PruneLosesNothingHolds` (`DocCatchup_proofs`) | `PruneLosesNothing`, under `Calm` or where this device uploads no snapshot |
| `GapInvariant`, `GapIsPursued` (`DocCatchup_proofs`) | `GapInv`, `GapPursued`, for a device that writes nothing, under one key, with room to hold every update (`Reader`), and under `Calm` or `Plain` |
| `LifecycleInvariant`, `LifecycleTypeCorrect` (`DocLifecycle_proofs`) | `LifeInv`, `TypeOK`, whatever `Calm` names |

**The outbox.** `AtMostOnce` is not inductive: nothing in it forbids an operation to
be sent again once its receipt is gone. `OutboxInv` adds why that cannot happen:

1. `OneDrain`: the cache queue holds at most one task of a drain, at the stage the
   drain is at.
2. `DraftAlone`: so while an operation is being made, nothing is queued, and the
   operation to be stored is that one.
3. `OneRow`: so there is one durable operation at most, the same in memory and at
   rest (from which `QueueMirrorsOutbox`).
4. `CommitsOfHead`: so an acknowledgement waiting for the cache names the head of
   the queue, or something older than whatever is being made behind it.
5. `FinishedForGood`: so an id that was stored and has lost its receipt, or whose
   confirmation is on the wire, is in neither the queue, nor the outbox, nor the
   draft, and no append of it follows its confirmation. Here the order of the
   socket is used, and the check in `transmit` (`StillHead`).
6. `IdsAreOld`, `NotUpYet`, `AcksAreStored` carry the rest: fresh ids are fresh, an
   engine that has not read its cache has queued nothing, acks are for what is stored.

Durability needs a second invariant (`RestInv`): rows only grow, an enqueue writes
its operation's edits along with it, and an operation is queued only after that;
`InHand` then accounts for every append on the wire by the outbox or by the log. The
refinement needs one more fact, `DraftIsNew`: the operation being made is known
to neither the outbox nor the relay. Then the enqueue (or a crash that lands it) is
`Accept`, the relay's append is `Store` or a stutter, the commit (or a crash that
lands it) is `Settle` or a stutter, and nothing else moves `rows` or `log`.

**The baseline.** That no difference skips an edit and no row forgets one (`BaselineInv`) rests
on the outbox, on durability and on nine facts more:

1. `Named`: an id names one operation, wherever a copy of it is.
2. `Made`: the document an operation was made from held what the operation carries and what the
   relay held already, nothing else. So once it is stored, its snapshot is stored.
3. `Vectors`: so a vector, in memory, at rest or in a task, names only what the relay holds.
4. `Copies`, `Tokens`: an edit is saved before anything else that holds it is written, under
   a token that names an edit of the row.
5. `Behind`: what the operation being made does not hold was saved behind what it does hold, under
   tokens that the operation does not settle.
6. `Baseline`: what is taken as the relay's state holds what the relay holds, but for the queued
   operation.
7. `Outgoing`: a drain sends its operation itself, before a resend can, so the engine is
   not idle before its operation has left.
8. `Wakes`: while an edit is not at rest a timer, a drain or a queued operation will look again.

**The window.** `Slots` is inductive by itself: never overfilled, an operation waits only
while it is full, and never beside one of its document's in flight, so that the place
an answer frees goes to one waiting operation (`sendOperation`, `operationAnswered`). `NothingStalls` needs
the engines behind it: a drain sends its operation before anything else (`DrainsFirst`), a route
leads to the head once it was sent, or to an operation whose `receive()` is still awaited (`Routed`).
The second is the hard case: the acknowledgement of the head's predecessor uses the document's
route, and the head's own drain mark is still to come (`Moving`). `RoomyInv` orders the socket: what
the relay may forget is settled, and no append of it comes behind.

**The session.** `OneNextStep` counts; what is inductive is a `Course`: a session that has not
ended `Waits` (the timer is set and nothing else), `Asks` (one token awaited, a mint under
way, no socket) or `Holds` (the current socket, opening or open, and no other). Each
action moves between the three, and an ended session is `Quiet`. Two facts say
why a close event or a token that comes late finds what it expects: `Carried` (a
socket that exists was opened with a token, and the session's socket exists) and `Silence`.
For `RefusedNotPresented`: the token in an answer is new and not refused (`Fresh`), and a
held token that was refused is dropped before it is used, since the call that comes
next is forced (`Forgets`).

**The lock.** Only files of dead processes are old (`AgesAreOfTheDead`). So the process that
holds is the one whose file is there (`HolderMadeIt`), because a file is removed only by its
holder or by the one breaker after the second look at its age; and there is one breaker at a time
(`BreakerMadeIt`), unless somebody removed a breaker that was another's: `crossed`.

**The keys.** What a walk seals again is read from the queue before one transaction and replaced
after a second, while other walks, the drain, acknowledgements and refusals go on. `KeysInv`
follows each operation through the places it can be in:

1. `Staged`, `OneTask`: a task of the cache queue and the walk or drain it belongs to are at the same
   stage, and there is one such task; so each of the two transactions finds the operations its walk
   chose (`Walking`).
2. `Fresh`: an operation being made, by a walk or a drain, is nowhere else: it was never
   queued, sent, refused or stored.
3. `NotBehind`: what is behind the head was never sent, acknowledged or refused, and is stored
   only if it was so when the document was opened. This is what `resealStaleOperations` relies on
   when it takes everything behind the head (`doc-sync.ts:818-820`).
4. `Refusals`: what was refused is not stored and was sealed under an older epoch than the session
   wants. So a refused head gives `followEpoch` something to wait for (`Watched`), and a refused
   operation that is sent again can only be refused again or found stored under its receipt.
5. `Finished`: an operation that was settled is in neither the outbox nor the queue, and one that was
   stored and is sent again has its receipt still: it is answered, and not taken up as new.
6. `Covered`, `Lawful`: what the baseline and the row call stored is stored, and an operation begins
   where something stored ends. `EditKept` follows, since a reseal stores the new operation, with
   the same content, before the old one goes.

The names of walks are assumed to differ from the two words that stand beside them
in a task, "drain" and "resend".

**The vaults.** A write replaces the whole vault, so it keeps what others wrote only if what
the call read is what is there. `ReadsAreTrue` says so of every call about to write: the version
it read is not newer than the server's, and if it is the same, the content is too. It is
preserved because every write raises the version (`VaultsGrow`). What a call makes of the
vault extends it (`ChangeExtends`), so a write that passes the compare-and-set extends what is there.

**The epochs.** `NoEpochLost` speaks of who is in the graph, `LeaversShutOut` of who is not; both
follow from what any keyring can be. `Ring`: a keyring, in a vault, a copy, an invite or a call
under way, is an initial part of the graph's epochs, up to the last one its account may know
(`Lim`: the newest, or the one it was removed at). Two rings of one graph join to a ring, so folding
a copy in and accepting an invite keep it. `Sound` says so of each call, step by step; a call about to
commit holds what its vault held and its own key on top, and `BuildsOn` (`epoch-rotation.ts:130`)
makes that every epoch up to the new one. So a commit hands everyone in the graph the whole, and a step that takes a copy or an invite away does it after the vault has its keys
(`Acknowledge`, `Activate`), or names whom it leaves without (`missed`).

**The catch-up.** `WholeInv`: every snapshot, at the relay, captured, on the wire or being opened,
contains every update up to its place, and what a page carries beside it goes on from there. `CoveredInv`:
every update up to the watermark is in the document or in a snapshot that is being opened, and
what a call brings for the next place is that very update. So the watermark moves only over what was
applied (`applyEnvelope`), and a snapshot captured with its watermark contains what it claims. `RowInv`:
without snapshots the row that a save merges into is as honest as the document. Why the hypotheses are
needed is in section 4: each has a history that breaks the conclusion without it.

**The gaps.** `GapPursued` speaks of a document at rest; what makes it true is said of every state on the
way there. `GapInv` follows one catch-up:

1. `OneAsked`: at most one is in flight, as a request, as a page or as the call that applies it, and
   it asks from `asks.fly`. A page of a lost socket may still be being applied beside it (`conn`).
2. `PagesSound`: a page goes on from where it was asked for, or from its snapshot, without a hole, and the
   last one of a cycle reaches as far as anything named before it.
3. `Climbs`: so its call meets no gap, and ends beyond what it asked from, or, if it is the last one, beyond
   whatever waits to be asked for. This is why `queueCatchup` may take a request that equals the one in flight
   for a repeat, and why `finishCatchup` may drop it where the page left no gap.
4. `InOrder`: but for what pages will bring, live updates come one after the other, so an update that opens a
   gap finds a catch-up in flight or asks for one.
5. `Pursued`: every update that was named beyond the watermark is held, in a call, or a page for it is
   under way. At rest there is neither page nor call, and `NextFree` (the next update is never held) leaves
   nothing between the watermark and what was named. `CoveredInv` says the document has what the watermark passed.

`Reader` is not a convenience: with an operation of the device's own, with two epochs, or with an update that
finds no room among those held, `GapPursued` fails (section 4). A log no longer than `FutureLimit`, 256 in the
code, always leaves room; of longer logs the theorem says nothing.

**The lifecycle.** `LifeInv` rests on `Written`: every item anywhere, in a text, an operation on its
way, a baseline, was written once, and an item that was written again has its former self in
`dead`. So `recreateInto` always makes items that are new (`Again`). Beside it, generations of messages and
engines never pass the relay's (`Counts`), a wait belongs to the mode it was made in (`Waits`),
and the queue keeps a place for the operation being written (`Queued`).

### Only model-checked

Liveness under fairness: `EditsArrive`, the liveness half of `ImplementsReliableOutbox`,
`KeepsUp`, `Settles`, `EditsStored`, `KeysFollowed`, `ComesBackOrEnds`,
`StaleIsCleared`. The prover does not do fairness. `Converged`, `DeletedStaysDeleted` and `RevivalKept` are
true only of bounded histories: with three sockets lost `RevivalKept` fails (section 4), so an
invariant that implies them would have to count the refusals and acknowledgements under way.

## 4. Where code and comments disagree

### Shown by a run

1. **A snapshot under a key not held skips its updates** (`catchup_skip`, 8 states).
   `applyActivePage` moves the watermark to the snapshot's place before it is opened
   (`doc-sync.ts:1016`). If its key is not held, it stays there; when the key arrives the
   device asks from that watermark and gets rows after it, since a snapshot is sent only to a cold
   request or one behind the floor. The updates the snapshot stood for never come.
   `doc-sync.ts:230-232` says they are asked for again.
2. **A peer's edit revives a document this device deletes** (`lifecycle_offline`, 17 states).
   While the delete operation is in flight an update of the old generation is
   still applied and sets the lifecycle back (`doc-sync.ts:1008-1009`); the acknowledgement
   keeps text and baseline, and the next drain finds a changed document in a deleted
   state: a resurrection nobody typed. `doc-sync.ts:1243-1244` says only a real edit drains from here.
3. **A Key Replacement can delete the only copy of the newest key** (`rotation_replaced`, 10 states).
   Device `a` prepares a replacement and collects; device `b` commits epoch 2; `a`'s
   `replaceKeys` deletes the owner's copy (`fake-sync-server.ts:368`); `b`'s collection fails on
   the vault key it no longer holds. Every later rotation stops at `epoch-rotation.ts:133`, which
   builds on the keyring held, and the refused write that would have been the occasion to collect
   (`epoch-rotation.ts:168-170`) finds nothing to collect.

### Named by a property, without a run of their own

Each is a condition a property, an instance or a theorem names; without it TLC finds the history described.

- `RoomyAppliesOnce` (window with a place for each document). With one place for two documents a
  **parked retransmission is stored twice**: a reconnect asks for an operation again; its
  acknowledgement arrives, frees the place and queues its commit behind the copy's attempt
  mark; the copy is parked, the commit lands and gives up the receipt, and the next answer
  sends the copy. `transmit` guards against exactly this, but `operationsWaiting` is not
  looked at when an acknowledgement is committed (`graph-sync.ts:1254`, `1267`). `StoredAtMostOnce` is
  therefore a theorem about sends that find room. In the same way **a place leaks**: a retransmission whose
  mark lands between its acknowledgement's arrival and commit takes the document's place
  again, and its second acknowledgement has no route any more (`graph-sync.ts:1686`);
  nothing gives the place back until the document's next operation or the end of the socket.
- `Undisturbed` (`DocCatchup`). While a received snapshot is being opened the watermark
  already stands before it: an edit saves that watermark to the row, and a snapshot this device captures then
  claims updates it lacks, behind which the relay prunes.
- `Plain` (`WatermarkIsHonest`). With a snapshot the second half of `WatermarkHonest` fails even where
  nothing is edited: the call for a page of a lost socket ends while the snapshot of the new one is being opened, and
  saves the watermark that stands before it: the row claims what it lacks until the next save.
- `MaxRestarts = 0` in `Calm` (`PruneLosesNothingHolds`). A tab killed after such a save starts from that row, and
  uploads a snapshot that claims updates it lacks, behind which the relay prunes.
- `GapPursued` (`DocCatchup`) where the device makes no operation. With one of its own (a log of 3,
  no snapshots) TLC finds, in 14 states, **a repeat that is dropped though it was needed**. The
  first page holds update 1 and is being opened. The acknowledgement of this device's update 2
  is committed: a gap, and a request from 0, which repeats the one in flight
  (`graph-sync.ts:1210-1219`). A peer's update 3 arrives and is held behind the gap. Then the page is
  applied: the watermark is 1, health is "healthy", and 3 stays in `futureUpdates`, since only the
  update right after the watermark is taken up and 2 was never held. `finishCatchup` sends the repeat
  only for a document the page left with a gap (`graph-sync.ts:1240`; the comment above it says
  the answer just applied "serves both"). The device rests without update 3 until the next
  message for the document, or the next connection, shows the gap again.
  It fails in the same way without an operation, where a repeat is dropped because health is "healthy": with room for
  one held update (`FutureLimit` 256 in the code), when a third finds no room; and with two epochs and a lost
  socket, when the old socket's page is opened a second time and sets the health back.
- `MaxDrops` (`RevivalKept`). With three sockets lost (found by simulation, 45 states) **an acknowledgement takes
  the generation back**: a resurrection into generation 3 is acknowledged only after the device has adopted
  generation 4, the commit sets the generation back to 3 (`doc-sync.ts`, `commitAcknowledgement`), the next append is
  refused, and `discardOlderGeneration` clears an edit made on the deleted document.
- `Calm` (`DocLifecycle`).
  *waits*: a commit or a decryption that overlaps an adopted deletion works on the
  emptied document; an edit made during the purge or while an operation is sealed is taken
  into the new baseline unsent; a drain during the purge resurrects.
  *refusals*: a `stale_generation` for an old request that arrives when the device is already in the new
  generation discards a queue whose operation is on its way, and an edit behind it is taken into
  the baseline by the next page (`BaselineShared` fails, against `doc-sync.ts:785-786`).
  *deletions*: a delete made while a resurrection is unacknowledged is lost; an edit made while
  the delete is in flight is not drained until something else asks for a drain; and finding 2.
- `Gap` (`KeyEpochs.EditsStored`). Two overlapping walks of `keysChanged` seal the same head
  twice: it is stored twice, and one row stays in the outbox until the document is opened again. A walk that
  lags behind writes beyond the end of the queue (`doc-sync.ts:850`) and leaves a gap in the array, past which
  nothing is sent until then (reached with `MaxOps = 7`). Besides, a refusal that does not name
  its epoch makes the session wait for one more than it holds, which may not exist; and the
  retry timer is not cleared when access ends.
- `storedAtOpen` (`KeyEpochs.ReplacedNotStored`). Three epochs and a restart turn the second row of such an
  operation into **an edit sealed again although it is stored**. Both rows stay in the outbox, the
  new one is sent and stored, and the tab is killed before its acknowledgement is committed. `ready`
  reads the outbox back by `createdAt`, which a reseal keeps, and then by the random id: the
  stored operation may come second. At the next epoch it is "behind the head" and is sealed again
  (26 states with `MaxEpoch = 3`), though `doc-sync.ts:818-820` takes whatever is behind the head
  for never sent, since "sealing it again would store the edit twice". The property excepts what
  was stored when the document was opened and stands behind the head, and nothing else; with
  that exception it holds at `MaxEpoch = 3` too (5.2 M states, without the temporal properties).
- `crossed` (`FileLock`). With four processes, two of which die, one waiter removes the
  breaker another has just made, both break, and two hold (39 states): `file-lock.ts:11` says a
  stale lock is "taken over by one waiter at a time".
- `missed` (`EpochRotation`), described with the module.
- `SessionAccess`: a relay that accepts a socket before it closes it with 4401 resets
  `credentialRefusals` at each open, so the limit of `graph-sync.ts:1832-1833` is never reached and the
  session retries without back-off. Lengths of waits are not modelled, so no property says it.

## 5. Not modelled, and why

- *Failed cache transactions and a second tab over the same cache.* No transaction of the
  models fails but by the tab's death. Two hazards without a property are about these (`doc-sync.ts:785`).
- *The clock arithmetic of state vectors* (`state-vector.ts`, `doc-sync.ts:778`): the models count
  updates and insertions, not Yjs structs. To be stated as functions and checked against their definition.
- *Presence, engine retention with its batch holds, the Settings Vault's copies, watermarks of many
  documents, the order of foreground and background catch-ups*: next in the plan.
- *Server session refresh, derived index sharing, the folder-backed store, the Local Mirror,
  vault session*: protocols of their own, each worth a module, that share no state with those here.
- *A process suspended while it holds the file lock* and so outlives the age of its
  lock: `file-lock.ts` documents the overlap. Resumed between reading the file and removing it, it
  can remove its successor's. A waiter gives up after 45 s and a lock is stale after 60 s, so an
  early waiter never takes one over.
- *Cryptography* is one asynchronous step; *wire parsing*, the *user interface*, *publishing* and
  the single-timer helpers have no concurrent state of their own.

Coverage. The repository is a whole product; most of its lines are views, editors,
extensions and servers' plumbing. What is mapped is the protocol state of
`lib/sync/` and of the file lock.

## 6. Plan

1. Proofs: `DeletedStaysDeleted`, `RevivalKept` and `Converged` of `DocLifecycle`, for bounded drops.
2. `StateVectors`: merge is a least upper bound, as functions, with lemmas.
3. `OutboxDelivery` with failed transactions and two tabs over one cache.
4. `RefreshOnce`, `IndexShare`, `Presence`, `EngineRetention`.
5. `FilesystemStore` and `LocalMirror`.
