----------------------------- MODULE DocCatchup -----------------------------
(***************************************************************************)
(* How one device keeps up with a document's log at the relay: the         *)
(* watermark of sync/doc-sync.ts, the gaps it asks for again, the catch-up *)
(* queue of sync/graph-sync.ts, snapshots and Graph Key epochs.            *)
(*                                                                         *)
(* One device and one generation of one document. Other devices act        *)
(* through the relay: they append, rotate the key and upload snapshots.    *)
(* The n-th update of the log is its content; the device's own operations  *)
(* are delivered as OutboxDelivery shows, at most one at a time.           *)
(***************************************************************************)
EXTENDS Integers, Sequences, FiniteSets, SequencesExt

CONSTANTS
    Subscribed,     \* the document is retained: the relay sends its live updates
    Undisturbed,    \* nothing is edited or compacted while a received snapshot is being opened
    PageRows,       \* maxCatchupRows of a page
    FutureLimit,    \* updates held for a gap (256 in the code)
    MaxLog,         \* bound: updates in the log
    MaxOwn,         \* bound: operations of this device
    MaxEpoch,       \* bound: Graph Key epochs
    OwnSnaps,       \* bound: snapshots this device uploads
    PeerSnaps,      \* bound: snapshots other devices upload
    MaxDrops,       \* bound: sockets lost
    MaxRestarts     \* bound: tabs killed

ASSUME CatchupAssumption ==
    /\ {Subscribed, Undisturbed} \subseteq BOOLEAN
    /\ {PageRows, FutureLimit, MaxLog, MaxEpoch} \subseteq Nat \ {0}
    /\ {MaxOwn, OwnSnaps, PeerSnaps, MaxDrops, MaxRestarts} \subseteq Nat

VARIABLES
    \* The engine.
    lastSeq,    \* the watermark: every update up to it is taken as applied
    held,       \* the updates the live document contains
    future,     \* futureUpdates: updates beyond the next, held for a gap
    health,     \* syncHealth
    missing,    \* missingEpoch, or 0
    tasks,      \* calls of receive() that have not returned
    op,         \* the operation at the head of the outbox, or 0
    sealed,     \* the epoch it is sealed under
    refused,    \* the relay refused it as sealed under an older epoch
    captured,   \* the snapshot uploadSnapshot is encrypting
    pending,    \* pendingSnapshot: uploaded, not yet read back
    \* The session and the cache.
    open,       \* the socket is open
    asks,       \* the catch-up queue
    keyEpoch,   \* the newest epoch of the keyring
    row,        \* the cache row: its watermark and its content
    c2r, r2c,   \* the socket, in order, each way; while it is shut, c2r holds the snapshots that wait
    \* The relay.
    log,        \* the epoch of every update ever stored
    ownAt,      \* where each operation of this device was stored, or 0
    graphEpoch, \* the epoch it accepts writes under
    snap,       \* its newest snapshot
    floor,      \* updates up to it were pruned behind a verified snapshot
    \* Bookkeeping.
    told,       \* the highest sequence an answer or an update named
    drops, restarts, ownSnaps, peerSnaps

engine  == <<lastSeq, held, future, health, missing, tasks, op, sealed, refused, captured, pending>>
session == <<open, asks, keyEpoch, row, c2r, r2c>>
relay   == <<log, ownAt, graphEpoch, snap, floor>>
bounds  == <<drops, restarts, ownSnaps, peerSnaps>>
vars == <<engine, session, relay, told, bounds>>

Seqs   == 1..MaxLog
Epochs == 1..MaxEpoch

Larger(a, b) == IF a > b THEN a ELSE b

\* No request in this place of the queue.
None == -1

\* An update of the log, or a snapshot through `seq`, as an envelope under an epoch.
Envelope == [seq: Seqs, epoch: Epochs, snap: BOOLEAN, holds: SUBSET Seqs]
Task == [t: {"update", "page"}, opening: Seq(Envelope), todo: Seq(Envelope), applied: BOOLEAN,
         more: BOOLEAN, conn: 0..MaxDrops] \cup [t: {"ack"}, n: 1..MaxOwn, seq: Seqs, mark: 0..MaxLog]

UpdateAt(s) == [seq |-> s, epoch |-> log[s], snap |-> FALSE, holds |-> {s}]

-----------------------------------------------------------------------------
Init ==
    /\ lastSeq = 0 /\ held = {} /\ future = {} /\ health = "healthy" /\ missing = 0
    /\ tasks = <<>> /\ op = 0 /\ sealed = 1 /\ refused = FALSE /\ captured = <<>> /\ pending = <<>>
    /\ open = FALSE /\ asks = [fly |-> None, again |-> None, wait |-> None]
    /\ keyEpoch = 1 /\ row = [seq |-> 0, holds |-> {}] /\ c2r = <<>> /\ r2c = <<>>
    /\ log = <<>> /\ ownAt = [n \in 1..MaxOwn |-> 0] /\ graphEpoch = 1
    /\ snap = [through |-> 0, epoch |-> 1, holds |-> {}, verified |-> FALSE] /\ floor = 0
    /\ told = 0 /\ drops = 0 /\ restarts = 0 /\ ownSnaps = 0 /\ peerSnaps = 0

-----------------------------------------------------------------------------
(* The catch-up queue: one request in flight, one waiting, and a repeat of *)
(* the one in flight.                                                      *)

\* pumpCatchups: the waiting request goes out when none is in flight.
Pump(q) ==
    IF q.fly = None /\ q.wait # None THEN [q EXCEPT !.fly = q.wait, !.wait = None] ELSE q

\* queueCatchup: a repeat of the request in flight is remembered; any other replaces the one
\* waiting.
Ask(q, after) ==
    IF ~open THEN q
    ELSE IF q.fly = after THEN [q EXCEPT !.again = after]
    ELSE Pump([q EXCEPT !.wait = after])

\* Mutant: the waiting request is not sent when the one in flight is answered.
FinishOnly(q, after) == [q EXCEPT !.fly = None, !.again = None]

\* finishCatchup: the request is answered; its repeat goes out if the answer left a gap.
Finish(q, after) ==
    LET idle == [q EXCEPT !.fly = None, !.again = None]
    IN  Pump(IF q.again # None /\ after = "sequence-gap" THEN [idle EXCEPT !.wait = q.again] ELSE idle)

\* What the change of the queue from q to r puts on the socket.
Requests(q, r) ==
    IF q.fly = None /\ r.fly # None THEN <<[t |-> "catchup", after |-> r.fly]>> ELSE <<>>

\* requestCatchup of the engine.
RequestCatchup(after) ==
    /\ asks' = Ask(asks, after)
    /\ c2r' = c2r \o Requests(asks, asks')

-----------------------------------------------------------------------------
(* The cache row: a save merges into it.                                   *)
Save(seq, holds) == row' = [seq |-> Larger(row.seq, seq), holds |-> row.holds \cup holds]

-----------------------------------------------------------------------------
(* applyEnvelope: what a call decides before it waits for the decryption.  *)

\* The next update of the log.
Follows(s) == s = lastSeq + 1

\* Mutant: every update beyond a gap is held.
HoldAll(s) == future \cup {s}

\* An update beyond a gap is held while there is room.
Hold(s) == IF Cardinality(future) < FutureLimit THEN future \cup {s} ELSE future

\* Not the next one: held for the gap, which is asked for unless a key is missing.
Gap(e) ==
    /\ e.seq > lastSeq /\ ~Follows(e.seq)
    /\ future' = Hold(e.seq)
    /\ IF missing # 0
       THEN UNCHANGED <<health, asks, c2r>>
       ELSE health' = "sequence-gap" /\ RequestCatchup(lastSeq)
    /\ UNCHANGED missing

\* Sealed under an epoch the keyring does not hold.
Unreadable(e) ==
    /\ e.epoch > keyEpoch
    /\ health' = "key-unavailable"
    /\ missing' = Larger(missing, e.epoch)

-----------------------------------------------------------------------------
(* receive(): an update.                                                   *)
Call(t, todo, more) ==
    [t |-> t, opening |-> <<>>, todo |-> todo, applied |-> FALSE, more |-> more, conn |-> drops]

Rest(k) == [k EXCEPT !.todo = Tail(@)]

NewTask(k)    == tasks' = Append(tasks, k)
SetTask(i, k) == tasks' = [tasks EXCEPT ![i] = k]

\* The call 0 is a new one.
PutTask(i, k) == IF i = 0 THEN NewTask(k) ELSE SetTask(i, k)

\* A call goes on with its next envelope until it waits for a decryption: the envelope is known,
\* beyond a gap, unreadable, or to be opened.
Take(k, i) ==
    LET e == Head(k.todo)
    IN  \/ /\ e.seq <= lastSeq
           /\ PutTask(i, [Rest(k) EXCEPT !.applied = TRUE])
           /\ UNCHANGED <<future, health, missing, asks, c2r>>
        \/ /\ Gap(e)
           /\ PutTask(i, Rest(k))
        \/ /\ Follows(e.seq)
           /\ Unreadable(e)
           /\ PutTask(i, Rest(k))
           /\ UNCHANGED <<future, asks, c2r>>
        \/ /\ Follows(e.seq)
           /\ e.epoch <= keyEpoch
           /\ PutTask(i, [Rest(k) EXCEPT !.opening = <<e>>])
           /\ UNCHANGED <<future, health, missing, asks, c2r>>

OnUpdate ==
    /\ r2c # <<>> /\ Head(r2c).t = "update"
    /\ r2c' = Tail(r2c)
    /\ Take(Call("update", <<UpdateAt(Head(r2c).seq)>>, FALSE), 0)
    /\ told' = Larger(told, Head(r2c).seq)
    /\ UNCHANGED <<lastSeq, held, op, sealed, refused, captured, pending, open, keyEpoch, row, relay, bounds>>

\* A snapshot stands for everything before it.
BeforeSnapshot(s) == s - 1

\* A catch-up page. Its snapshot sets the watermark, and forgets the updates held for gaps it
\* closed, before it is opened.
OnPage ==
    /\ r2c # <<>> /\ Head(r2c).t = "page"
    /\ r2c' = Tail(r2c)
    /\ LET page == Head(r2c)
           call == Call("page", page.rows, page.more)
       IN  /\ \/ /\ page.snap = <<>> /\ page.rows = <<>>
                 /\ NewTask(call)
                 /\ UNCHANGED <<lastSeq, future, health, missing, asks, c2r>>
              \/ /\ page.snap = <<>> /\ page.rows # <<>>
                 /\ Take(call, 0)
                 /\ UNCHANGED lastSeq
              \/ \E s \in Range(page.snap) :
                   /\ lastSeq' = BeforeSnapshot(s.seq)
                   /\ future' = {u \in future : u > s.seq}
                   /\ \/ /\ Unreadable(s)
                         /\ NewTask(call)
                      \/ /\ s.epoch <= keyEpoch
                         /\ NewTask([call EXCEPT !.opening = <<s>>])
                         /\ UNCHANGED <<health, missing>>
                   /\ UNCHANGED <<asks, c2r>>
           /\ told' = Larger(told, page.last)
    /\ UNCHANGED <<held, op, sealed, refused, captured, pending, open, keyEpoch, row, relay, bounds>>

EndTask(i)    == tasks' = RemoveAt(tasks, i)

\* The next envelope of a call under way.
TakeEnvelope(i) ==
    /\ tasks[i].t # "ack" /\ tasks[i].opening = <<>> /\ tasks[i].todo # <<>>
    /\ Take(tasks[i], i)
    /\ UNCHANGED <<lastSeq, held, op, sealed, refused, captured, pending, open, keyEpoch, row, r2c, relay, told, bounds>>

\* Mutant: an update held for a gap is forgotten when the gap closes.
ForgetHeld(s) == <<>>

\* The update held for the place after s.
HeldAfter(s) == IF s + 1 \in future THEN <<UpdateAt(s + 1)>> ELSE <<>>

\* Decrypted: applied, and the update held for the next place is taken up.
Opened(i) ==
    /\ tasks[i].t # "ack" /\ tasks[i].opening # <<>>
    /\ LET k == tasks[i]
           e == k.opening[1]
           seq == Larger(lastSeq, e.seq)
       IN  /\ lastSeq' = seq
           /\ held' = held \cup e.holds
           /\ future' = future \ {seq + 1}
           /\ SetTask(i, [k EXCEPT !.opening = <<>>, !.todo = HeldAfter(seq) \o @, !.applied = TRUE])
    /\ health' = "healthy"
    /\ UNCHANGED <<missing, op, sealed, refused, captured, pending, session, relay, told, bounds>>

\* A live update that was applied is saved.
EndUpdate(i) ==
    /\ tasks[i].t = "update" /\ tasks[i].opening = <<>> /\ tasks[i].todo = <<>>
    /\ EndTask(i)
    /\ IF tasks[i].applied THEN Save(lastSeq, held) ELSE UNCHANGED row
    /\ UNCHANGED <<lastSeq, held, future, health, missing, op, sealed, refused, captured, pending, open, asks, keyEpoch, c2r, r2c,
                   relay, told, bounds>>

\* The call's page came over the socket that is open.
OfThisSocket(k) == k.conn = drops

\* A page is saved; the next page is asked for, or the cycle ends. The answer frees the queue
\* unless it came over an earlier socket.
EndPage(i) ==
    /\ tasks[i].t = "page" /\ tasks[i].opening = <<>> /\ tasks[i].todo = <<>>
    /\ EndTask(i)
    /\ Save(lastSeq, held)
    /\ LET asked == IF tasks[i].more THEN Ask(asks, lastSeq) ELSE asks
           ended == OfThisSocket(tasks[i])
       IN  /\ asks' = IF ended THEN Finish(asked, health) ELSE asked
           /\ c2r' = c2r \o Requests(IF ended THEN [asks EXCEPT !.fly = None] ELSE asks, asks')
    /\ UNCHANGED <<lastSeq, held, future, health, missing, op, sealed, refused, captured, pending, open, keyEpoch, r2c,
                   relay, told, bounds>>

-----------------------------------------------------------------------------
(* receive(): an acknowledgement.                                          *)

\* Mutant: the watermark goes where the acknowledgement is.
WatermarkAtAck(s) == s

\* The watermark an acknowledgement of sequence s commits: contiguous, or where it was.
AckedWatermark(s) == IF s = lastSeq + 1 THEN s ELSE lastSeq

OnAck ==
    /\ r2c # <<>> /\ Head(r2c).t = "ack"
    /\ r2c' = Tail(r2c)
    /\ LET m == Head(r2c)
       IN  /\ told' = Larger(told, m.seq)
           /\ tasks' = IF m.n # op THEN tasks
                       ELSE Append(tasks, [t |-> "ack", n |-> m.n, seq |-> m.seq,
                                           mark |-> AckedWatermark(m.seq)])
    /\ UNCHANGED <<lastSeq, held, future, health, missing, op, sealed, refused, captured, pending, open, asks, keyEpoch, row, c2r,
                   relay, bounds>>

\* The commit landed: the watermark moves over a contiguous sequence, and a gap is asked for.
AckCommitted(i) ==
    /\ tasks[i].t = "ack"
    /\ EndTask(i)
    /\ LET k == tasks[i]
       IN  IF k.n # op
           THEN UNCHANGED <<row, lastSeq, held, health, asks, c2r, op, refused>>
           ELSE /\ Save(k.mark, held \cup {k.seq})
                /\ held' = held \cup {k.seq}
                /\ lastSeq' = AckedWatermark(k.seq)
                /\ IF k.seq > lastSeq + 1
                   THEN health' = "sequence-gap" /\ RequestCatchup(lastSeq)
                   ELSE UNCHANGED <<health, asks, c2r>>
                /\ op' = 0 /\ refused' = FALSE
    /\ UNCHANGED <<future, missing, sealed, captured, pending, open, keyEpoch, r2c, relay, told, bounds>>

-----------------------------------------------------------------------------
(* The device writes, loses its socket, is killed, collects a key.         *)

\* A received snapshot is being opened: the watermark already stands before it.
OpeningSnapshot ==
    \E i \in DOMAIN tasks : tasks[i].t # "ack" /\ \E k \in DOMAIN tasks[i].opening : tasks[i].opening[k].snap

MayDisturb == Undisturbed => ~OpeningSnapshot

AppendMsg(n, e) == [t |-> "append", n |-> n, epoch |-> e]
MadeSoFar    == Cardinality({n \in 1..MaxOwn : ownAt[n] # 0})

\* An edit: saved with the watermark as it stands, queued and sent.
Edit ==
    /\ op = 0 /\ MadeSoFar < MaxOwn /\ Len(log) < MaxLog
    /\ MayDisturb
    /\ op' = MadeSoFar + 1 /\ sealed' = keyEpoch /\ refused' = FALSE
    /\ Save(lastSeq, held)
    /\ c2r' = IF open THEN Append(c2r, AppendMsg(op', keyEpoch)) ELSE c2r
    /\ UNCHANGED <<lastSeq, held, future, health, missing, tasks, captured, pending, open, asks, keyEpoch, r2c,
                   relay, told, bounds>>

\* A new socket: the snapshots that waited go first, then the engine asks from its watermark and
\* sends its operation again.
Connect ==
    /\ ~open
    /\ open' = TRUE
    /\ asks' = [fly |-> lastSeq, again |-> None, wait |-> None]
    /\ c2r' = c2r \o <<[t |-> "catchup", after |-> lastSeq]>> \o (IF op = 0 THEN <<>> ELSE <<AppendMsg(op, sealed)>>)
    /\ UNCHANGED <<engine, keyEpoch, row, r2c, relay, told, bounds>>

NoAsks == asks' = [fly |-> None, again |-> None, wait |-> None]

\* forgetSocketGeneration.
Drop ==
    /\ open /\ drops < MaxDrops
    /\ open' = FALSE /\ drops' = drops + 1
    /\ NoAsks /\ c2r' = <<>> /\ r2c' = <<>>
    /\ UNCHANGED <<engine, keyEpoch, row, relay, told, restarts, ownSnaps, peerSnaps>>

\* The tab is killed and its document read back from the row.
Restart ==
    /\ restarts < MaxRestarts
    /\ restarts' = restarts + 1
    /\ lastSeq' = row.seq /\ held' = row.holds /\ future' = {} /\ health' = "healthy" /\ missing' = 0
    /\ tasks' = <<>> /\ captured' = <<>> /\ pending' = <<>> /\ refused' = FALSE
    /\ open' = FALSE /\ NoAsks /\ c2r' = <<>> /\ r2c' = <<>>
    /\ UNCHANGED <<op, sealed, keyEpoch, row, relay, told, drops, ownSnaps, peerSnaps>>

\* The relay refused the operation as sealed under an older epoch.
OnStaleEpoch ==
    /\ r2c # <<>> /\ Head(r2c).t = "stale_epoch"
    /\ r2c' = Tail(r2c)
    /\ refused' = (refused \/ Head(r2c).n = op)
    /\ UNCHANGED <<lastSeq, held, future, health, missing, tasks, op, sealed, captured, pending, open, asks, keyEpoch, row, c2r,
                   relay, told, bounds>>

\* followEpoch: the newest epoch is announced, wanted or collected. keysChanged: a refused
\* operation is sealed and sent again, and what could not be opened is asked for again.
KeysChanged ==
    /\ keyEpoch < graphEpoch \/ refused
    /\ keyEpoch' = graphEpoch
    /\ LET resent == IF refused /\ open THEN <<AppendMsg(op, graphEpoch)>> ELSE <<>>
       IN  IF missing # 0
           THEN /\ missing' = 0 /\ health' = "sequence-gap"
                /\ asks' = Ask(asks, lastSeq)
                /\ c2r' = c2r \o resent \o Requests(asks, asks')
           ELSE c2r' = c2r \o resent /\ UNCHANGED <<missing, health, asks>>
    /\ sealed' = IF refused THEN graphEpoch ELSE sealed
    /\ refused' = FALSE
    /\ UNCHANGED <<lastSeq, held, future, tasks, op, captured, pending, open, row, r2c, relay, told, bounds>>

-----------------------------------------------------------------------------
(* Snapshots.                                                              *)

\* A document behind a gap, or missing a key, uploads no snapshot.
HealthyEnough == health = "healthy"

\* uploadSnapshot: everything the document contains, through the watermark, captured before the
\* encryption yields.
CaptureSnapshot ==
    /\ captured = <<>> /\ ownSnaps < OwnSnaps /\ MayDisturb
    /\ lastSeq > 0 /\ op = 0 /\ HealthyEnough
    /\ ownSnaps' = ownSnaps + 1
    /\ captured' = <<[through |-> lastSeq, holds |-> held]>>
    /\ UNCHANGED <<lastSeq, held, future, health, missing, tasks, op, sealed, refused, pending, session, relay, told,
                   drops, restarts, peerSnaps>>

\* Mutant: the watermark is read when the encryption is done.
ThroughNow(c) == [c EXCEPT !.through = lastSeq]

\* What is sent and compared on the read-back is what was captured.
AsCaptured(c) == c

\* Encrypted: it becomes the snapshot in flight, and is sent, or waits for the next socket.
SendSnapshot ==
    /\ captured # <<>>
    /\ captured' = <<>>
    /\ LET c == AsCaptured(captured[1])
       IN  /\ pending' = <<c>>
           /\ c2r' = Append(c2r, [t |-> "snapshot", through |-> c.through, holds |-> c.holds, epoch |-> keyEpoch])
    /\ UNCHANGED <<lastSeq, held, future, health, missing, tasks, op, sealed, refused, open, asks, keyEpoch, row, r2c,
                   relay, told, bounds>>

\* The read-back: the stored snapshot is what was captured, and the relay may prune behind it. Its
\* four messages are one step: if another snapshot replaces this one among them the relay has no
\* such snapshot to give back, or to mark.
ReadBack ==
    /\ open /\ pending # <<>>
    /\ snap.through = pending[1].through /\ snap.holds = pending[1].holds
    /\ snap' = [snap EXCEPT !.verified = TRUE]
    /\ pending' = <<>>
    /\ UNCHANGED <<lastSeq, held, future, health, missing, tasks, op, sealed, refused, captured, session,
                   log, ownAt, graphEpoch, floor, told, bounds>>

-----------------------------------------------------------------------------
(* The relay.                                                              *)

\* A cold request is answered from the newest snapshot, and so is one behind what was pruned, by a
\* relay that prunes (doc-sync.test.ts:1525).
FromSnapshot(after) == snap.through > 0 /\ (after = 0 \/ after < floor)

Page(after) ==
    LET base == IF FromSnapshot(after) THEN snap.through ELSE after
        last == IF base + PageRows < Len(log) THEN base + PageRows ELSE Len(log)
    IN  [t |-> "page", more |-> last < Len(log), last |-> last,
         rows |-> [i \in 1..(IF last > base THEN last - base ELSE 0) |-> UpdateAt(base + i)],
         snap |-> IF FromSnapshot(after)
                  THEN <<[seq |-> snap.through, epoch |-> snap.epoch, snap |-> TRUE, holds |-> snap.holds]>>
                  ELSE <<>>]

\* The latest snapshot replaces the one before. The loopback relay never prunes; one that does must
\* not let a late, older snapshot replace the one it pruned behind, or the difference is lost.
Latest(m) ==
    IF m.through < floor THEN snap
    ELSE [through |-> m.through, epoch |-> m.epoch, holds |-> m.holds, verified |-> FALSE]

Answer(m) == r2c' = Append(r2c, m)

TakeCatchup(m) ==
    /\ m.t = "catchup"
    /\ Answer(Page(m.after))
    /\ UNCHANGED relay

\* An operation stored before is acknowledged again; one sealed under an older epoch is refused.
TakeAppend(m) ==
    /\ m.t = "append"
    /\ \/ /\ ownAt[m.n] # 0
          /\ Answer([t |-> "ack", n |-> m.n, seq |-> ownAt[m.n]])
          /\ UNCHANGED relay
       \/ /\ ownAt[m.n] = 0 /\ m.epoch < graphEpoch
          /\ Answer([t |-> "stale_epoch", n |-> m.n])
          /\ UNCHANGED relay
       \/ /\ ownAt[m.n] = 0 /\ m.epoch = graphEpoch
          /\ log' = Append(log, m.epoch)
          /\ ownAt' = [ownAt EXCEPT ![m.n] = Len(log')]
          /\ Answer([t |-> "ack", n |-> m.n, seq |-> Len(log')])
          /\ UNCHANGED <<graphEpoch, snap, floor>>

TakeSnapshot(m) ==
    /\ m.t = "snapshot"
    /\ snap' = Latest(m)
    /\ UNCHANGED <<log, ownAt, graphEpoch, floor, r2c>>

RelayTakes ==
    /\ open /\ c2r # <<>>
    /\ c2r' = Tail(c2r)
    /\ LET m == Head(c2r) IN TakeCatchup(m) \/ TakeAppend(m) \/ TakeSnapshot(m)
    /\ UNCHANGED <<engine, open, asks, keyEpoch, row, told, bounds>>

\* Room is kept for the operation already made.
Room == Len(log) + (IF op # 0 /\ ownAt[op] = 0 THEN 1 ELSE 0) < MaxLog

\* Another device appends; the relay tells the subscribers.
PeerAppends ==
    /\ Room
    /\ log' = Append(log, graphEpoch)
    /\ r2c' = IF open /\ Subscribed THEN Append(r2c, [t |-> "update", seq |-> Len(log')]) ELSE r2c
    /\ UNCHANGED <<engine, open, asks, keyEpoch, row, c2r, ownAt, graphEpoch, snap, floor, told, bounds>>

\* The owner starts a new epoch.
PeerRotates ==
    /\ graphEpoch < MaxEpoch
    /\ graphEpoch' = graphEpoch + 1
    /\ UNCHANGED <<engine, session, log, ownAt, snap, floor, told, bounds>>

\* A device that is up to date uploads a snapshot, and may read it back.
PeerSnapshots ==
    /\ peerSnaps < PeerSnaps /\ Len(log) > snap.through
    /\ peerSnaps' = peerSnaps + 1
    /\ \E read \in BOOLEAN :
         snap' = [through |-> Len(log), epoch |-> graphEpoch, holds |-> 1..Len(log), verified |-> read]
    /\ UNCHANGED <<engine, session, log, ownAt, graphEpoch, floor, told, drops, restarts, ownSnaps>>

\* History is pruned only behind a verified snapshot.
Prune ==
    /\ snap.verified /\ floor < snap.through
    /\ floor' = snap.through
    /\ UNCHANGED <<engine, session, log, ownAt, graphEpoch, snap, told, bounds>>

-----------------------------------------------------------------------------
Calls ==
    \E i \in DOMAIN tasks :
        TakeEnvelope(i) \/ Opened(i) \/ EndUpdate(i) \/ EndPage(i) \/ AckCommitted(i)

Device == OnUpdate \/ OnPage \/ OnAck \/ OnStaleEpoch \/ Calls

Next ==
    \/ Device \/ Connect \/ RelayTakes \/ KeysChanged
    \/ Edit \/ Drop \/ Restart \/ CaptureSnapshot \/ SendSnapshot \/ ReadBack
    \/ PeerAppends \/ PeerRotates \/ PeerSnapshots \/ Prune

\* The event loop serves every message and every finished wait; the relay answers, the backoff
\* reconnects, and the retry timer collects the key.
Spec ==
    /\ Init /\ [][Next]_vars
    /\ WF_vars(Device) /\ WF_vars(Connect) /\ WF_vars(RelayTakes) /\ WF_vars(KeysChanged)

-----------------------------------------------------------------------------
(* Properties.                                                             *)

\* Every variable holds a value the program can give it.
TypeOK ==
    /\ {lastSeq, row.seq, told, snap.through, floor} \subseteq 0..MaxLog
    /\ {held, future, row.holds, snap.holds} \subseteq SUBSET Seqs
    /\ Cardinality(future) <= FutureLimit
    /\ health \in {"healthy", "sequence-gap", "key-unavailable"}
    /\ missing \in 0..MaxEpoch /\ {keyEpoch, graphEpoch, sealed} \subseteq Epochs
    /\ tasks \in Seq(Task)
    /\ op \in 0..MaxOwn /\ refused \in BOOLEAN /\ open \in BOOLEAN
    /\ {asks.fly, asks.again, asks.wait} \subseteq None..MaxLog
    /\ log \in Seq(Epochs) /\ Len(log) <= MaxLog
    /\ floor <= snap.through

\* The watermark passes only over updates the document contains: whatever gaps, pages,
\* acknowledgements and decryptions overlap, nothing up to it will be asked for again. The same
\* holds of the cache row, from which a killed tab starts again.
WatermarkHonest ==
    /\ OpeningSnapshot \/ 1..lastSeq \subseteq held
    /\ 1..row.seq \subseteq row.holds

\* Nothing is on its way, being applied or asked for.
AtRest ==
    /\ open /\ c2r = <<>> /\ r2c = <<>> /\ tasks = <<>>
    /\ asks.fly = None /\ asks.wait = None

\* A document at rest contains every update up to the newest the relay has named to it, unless it
\* waits for a key: a gap is never merely recorded, nor its request dropped as a duplicate.
GapPursued == AtRest /\ missing = 0 => 1..told \subseteq held

\* What the relay keeps is the whole log: whatever it pruned, its newest snapshot contains.
PruneLosesNothing == 1..floor \subseteq snap.holds

\* A device that goes on running has, in the end, every update of the log.
KeepsUp == <>[](1..Len(log) \subseteq held)
=============================================================================
