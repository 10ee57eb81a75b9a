--------------------------- MODULE OutboxDelivery ---------------------------
(***************************************************************************)
(* One document's local edits on their way to the relay: the durable       *)
(* outbox of sync/doc-sync.ts over sync/local-cache.ts, one tab, one       *)
(* active generation, against the relay contract of sync/loopback-relay.ts.*)
(* What the document receives from other devices is left out: this module  *)
(* is about what leaves the device.  A send finds room in the graph's      *)
(* operation window; module OperationWindow is about when it does not.     *)
(*                                                                         *)
(* The text is abstracted to a set of edits.  An insertion is named by a   *)
(* Yjs state vector, a deletion is not: it lives in the delete set, which  *)
(* Yjs writes whole into every difference it encodes.                      *)
(*                                                                         *)
(* The event loop interleaves at every `await`.  Cache work is a queue     *)
(* (`persistenceTail`): a Run action lands the transaction at its head     *)
(* and runs the code that was waiting for it.                              *)
(***************************************************************************)
EXTENDS Integers, Sequences, FiniteSets

CONSTANTS
    Inserts,        \* edits a state vector names
    Deletes,        \* edits only a delete set holds
    MaxOps,         \* bound: outbox ids ever made
    MaxCloses,      \* bound: sockets lost
    MaxCrashes,     \* bound: tabs killed
    MaxRefusals     \* bound: writes the relay refuses on a quota

Edits == Inserts \cup Deletes

ASSUME EditsAssumption == Inserts \cap Deletes = {}
ASSUME BoundsAssumption == {MaxOps, MaxCloses, MaxCrashes, MaxRefusals} \subseteq Nat

VARIABLES
    \* The engine's memory, gone with the tab.
    phase,      \* "down", "loading" (inside ready), "up"
    doc,        \* the edits of the live Y.Doc
    synced,     \* lastSyncedStateVector: the insertions the relay is known to hold
    snap,       \* lastSyncedSnapshot: the whole state the relay is known to hold
    known,      \* whether lastSyncedSnapshot is defined
    queue,      \* durableQueue
    captured,   \* outbox ids whose boundary snapshot this session holds
    recovered,  \* recoveredDirtyTokens
    active,     \* activeDirtyToken, as a set of at most one token
    timer,      \* debounceTimer
    drain,      \* drainPromise: "idle", or what drainCurrentDiff is waiting for
    draft,      \* the operation drainCurrentDiff is making
    tail,       \* persistenceTail
    \* IndexedDB.
    row,        \* the document's row: its edits, synced vector and dirty tokens
    rows,       \* the document's outbox rows
    \* The graph's connection.
    open,       \* the socket is open
    opens,      \* onOpen callbacks waiting for this engine to be ready
    retryTimer, \* refusalTimer
    c2r, r2c,   \* the socket, in order, each way
    \* The relay.
    log,        \* the operations stored for the document
    receipts,   \* outbox ids it would answer again without storing
    \* Bookkeeping of the bounds.
    nextId, closes, crashes, refusals

memory  == <<doc, synced, snap, known, queue, captured, recovered, active, timer, drain, draft>>
disk    == <<row, rows>>
wire    == <<c2r, r2c>>
relay   == <<log, receipts>>
bounds  == <<closes, crashes, refusals>>
vars == <<phase, memory, tail, disk, open, opens, retryTimer, wire, relay, nextId, bounds>>

-----------------------------------------------------------------------------
(* Records.  `snap` and `settles` of an operation are the engine's own     *)
(* notes about it; only id, content and sv are stored.                     *)

Op == [id: Nat, content: SUBSET Edits, sv: SUBSET Inserts,
       snap: SUBSET Edits, settles: SUBSET Edits]

NoOp == [id |-> 0, content |-> {}, sv |-> {}, snap |-> {}, settles |-> {}]

SaveTask    == [t: {"save"}, upd: SUBSET Edits, syn: SUBSET Inserts,
                token: SUBSET Edits, superseded: SUBSET Edits]
ResumeTask  == [t: {"resume"}]
EnqueueTask == [t: {"enqueue"}, op: Op, upd: SUBSET Edits, syn: SUBSET Inserts]
MarkTask    == [t: {"mark"}, op: Op, by: {"drain", "resend"}]
CommitTask  == [t: {"commit"}, op: Op, upd: SUBSET Edits, syn: SUBSET Inserts]
Task == SaveTask \cup ResumeTask \cup EnqueueTask \cup MarkTask \cup CommitTask

Append1(op)  == [t |-> "append", op |-> op]
Confirm(id)  == [t |-> "confirm", id |-> id]
Ack(id)      == [t |-> "ack", id |-> id]
Refused(id)  == [t |-> "refused", id |-> id]
ClientMessage == [t: {"append"}, op: Op] \cup [t: {"confirm"}, id: Nat]
ServerMessage == [t: {"ack", "refused"}, id: Nat]

Ids(ops) == {op.id : op \in ops}
Stored   == {log[i].id : i \in 1..Len(log)}
Held     == UNION {log[i].content : i \in 1..Len(log)}

-----------------------------------------------------------------------------
Init ==
    /\ phase = "down" /\ doc = {} /\ synced = {} /\ snap = {} /\ known = FALSE
    /\ queue = <<>> /\ captured = {} /\ recovered = {} /\ active = {}
    /\ timer = FALSE /\ drain = "idle" /\ draft = NoOp /\ tail = <<>>
    /\ row = [upd |-> {}, syn |-> {}, tok |-> {}] /\ rows = {}
    /\ open = FALSE /\ opens = 0 /\ retryTimer = FALSE
    /\ c2r = <<>> /\ r2c = <<>> /\ log = <<>> /\ receipts = {}
    /\ nextId = 1 /\ closes = 0 /\ crashes = 0 /\ refusals = 0

\* A send reaches the socket only while it is open; the outbox row is what is kept.
Send(m) == c2r' = IF open THEN Append(c2r, m) ELSE c2r

\* requestDrain: one drain at a time; a second caller shares the first one's promise.
DrainTasks(d) == IF d = "idle" THEN <<[t |-> "resume"]>> ELSE <<>>
Draining(d)   == IF d = "idle" THEN "tail" ELSE d

\* transmit: the attempt is marked in the cache before the operation is sent.
MarkOf(op, by) == [t |-> "mark", op |-> op, by |-> by]

\* Mutant: what is already queued is left to the acknowledgement that may never come.
ResendOnlyDrains(q, d) == IF q # <<>> THEN <<>> ELSE DrainTasks(d)

\* resync and retryUnsent: the head operation again, or a drain when there is none.
ResendTasks(q, d) == IF q # <<>> THEN <<MarkOf(Head(q), "resend")>> ELSE DrainTasks(d)
ResendDrain(q, d) == IF q # <<>> THEN d ELSE Draining(d)

-----------------------------------------------------------------------------
(* Engine life.                                                            *)

\* The graph creates the document's engine, which starts to read its cache.
Start ==
    /\ phase = "down"
    /\ phase' = "loading"
    /\ UNCHANGED <<memory, tail, disk, open, opens, retryTimer, wire, relay, nextId, bounds>>

\* pending: the outbox rows of the document in the order they were made.
InOrder(ops) ==
    {q \in [1..Cardinality(ops) -> ops] : \A i, j \in DOMAIN q : i < j => q[i].id < q[j].id}

\* Mutant: whatever the cache holds is taken as known to the relay.
BaselineAlwaysKnown == TRUE

\* The relay's baseline is unknown when the cache is ahead of what was acknowledged.
BaselineKnown == rows = {} /\ row.tok = {}

\* How many resyncs ran or wait: enableSync's when the socket is open, and one per onOpen.
ResyncsDue == opens + (IF open THEN 1 ELSE 0)

\* ready: IndexedDB runs overlapping transactions in the order they were created, so
\* nothing this engine writes lands before both of its reads, and no task runs earlier.
Ready ==
    /\ phase = "loading"
    /\ phase' = "up"
    /\ doc' = doc \cup row.upd
    /\ synced' = row.syn
    /\ recovered' = row.tok
    /\ queue' \in InOrder(rows)
    /\ known' = BaselineKnown
    /\ snap' = row.upd
    /\ opens' = 0
    /\ IF ResyncsDue = 0
       THEN UNCHANGED <<tail, drain>>
       ELSE /\ tail' = tail \o IF queue' = <<>> THEN DrainTasks(drain)
                               ELSE [i \in 1..ResyncsDue |-> MarkOf(Head(queue'), "resend")]
            /\ drain' = ResendDrain(queue', drain)
    /\ UNCHANGED <<captured, active, timer, draft, disk, open, retryTimer, wire, relay,
                   nextId, bounds>>

\* Mutant: an edit waiting for its debounce does not count.
IsIdleBeforeDebounce == phase = "up" /\ queue = <<>> /\ drain = "idle"

\* isIdle: nothing queued, debounced or draining.
IsIdle == phase = "up" /\ queue = <<>> /\ ~timer /\ drain = "idle"

Forget ==
    /\ phase' = "down" /\ doc' = {} /\ synced' = {} /\ snap' = {} /\ known' = FALSE
    /\ queue' = <<>> /\ captured' = {} /\ recovered' = {} /\ active' = {}
    /\ timer' = FALSE /\ drain' = "idle" /\ draft' = NoOp /\ tail' = <<>>

\* The graph destroys the engine of a document nobody retains, once it is idle.
Retire ==
    /\ IsIdle
    /\ Forget
    /\ UNCHANGED <<disk, open, opens, retryTimer, wire, relay, nextId, bounds>>

-----------------------------------------------------------------------------
(* Edits and the drain.                                                    *)

\* A local edit: saved at once under a new dirty token, sent after the debounce.
Edit(e) ==
    /\ phase \in {"loading", "up"}
    /\ e \notin doc \cup row.upd
    /\ doc' = doc \cup {e}
    /\ active' = {e}
    /\ tail' = Append(tail, [t |-> "save", upd |-> doc', syn |-> synced,
                             token |-> {e}, superseded |-> active])
    /\ timer' = TRUE
    /\ UNCHANGED <<phase, synced, snap, known, queue, captured, recovered, drain, draft,
                   disk, open, opens, retryTimer, wire, relay, nextId, bounds>>

\* The debounce ends, or flush ends it early.
FireTimer ==
    /\ timer
    /\ timer' = FALSE
    /\ tail' = tail \o DrainTasks(drain)
    /\ drain' = Draining(drain)
    /\ UNCHANGED <<phase, doc, synced, snap, known, queue, captured, recovered, active, draft,
                   disk, open, opens, retryTimer, wire, relay, nextId, bounds>>

\* Mutant: only an empty difference says there is nothing to send.
NeverNothingToSend == FALSE

\* Snapshot equality, never the length of the difference, says there is nothing to send.
NothingToSend == known /\ snap = doc

\* A difference names the insertions past the vector and always the whole delete set.
Diff == ((doc \cap Inserts) \ synced) \cup (doc \cap Deletes)

MayDrain == queue = <<>>

\* Every token whose edits this difference holds.
TokensToSettle == recovered \cup active

\* drainCurrentDiff resumes once the cache is quiet: it captures the difference, its vector,
\* its snapshot and its tokens together, then waits for the encryption.
RunResume ==
    /\ phase = "up" /\ tail # <<>> /\ Head(tail).t = "resume"
    /\ tail' = Tail(tail)
    /\ IF ~MayDrain \/ NothingToSend \/ Diff = {}
       THEN drain' = "idle" /\ UNCHANGED <<draft, active, nextId>>
       ELSE /\ nextId <= MaxOps
            /\ nextId' = nextId + 1
            /\ drain' = "sealing"
            /\ draft' = [id |-> nextId, content |-> Diff, sv |-> doc \cap Inserts,
                         snap |-> doc, settles |-> TokensToSettle]
            /\ active' = {}
    /\ UNCHANGED <<phase, doc, synced, snap, known, queue, captured, recovered, timer,
                   disk, open, opens, retryTimer, wire, relay, bounds>>

\* Mutant: the vector is taken when the encryption has ended.
VectorAfterSealing == doc \cap Inserts

\* Mutant: the vector names all the difference holds, deletions included.
VectorWithDeletes == draft.content

\* The vector stored with an operation is the one captured with its difference.
SealedVector == draft.sv

\* The encryption ends: the operation and the document as it now is go to the cache together.
Sealed ==
    /\ drain = "sealing"
    /\ drain' = "storing"
    /\ tail' = Append(tail, [t |-> "enqueue", op |-> [draft EXCEPT !.sv = SealedVector],
                             upd |-> doc, syn |-> synced])
    /\ UNCHANGED <<phase, doc, synced, snap, known, queue, captured, recovered, active, timer,
                   draft, disk, open, opens, retryTimer, wire, relay, nextId, bounds>>

-----------------------------------------------------------------------------
(* Cache transactions, each with the code that waited for it.              *)

\* Mutant: the copy written last wins.
ReplaceRow(upd, syn) == [row EXCEPT !.upd = upd, !.syn = syn]

\* mergeState: CRDT merge of the two copies, union of the two vectors.
MergeRow(upd, syn) == [row EXCEPT !.upd = @ \cup upd, !.syn = @ \cup syn]

SaveRow(task) ==
    [MergeRow(task.upd, task.syn) EXCEPT !.tok = (@ \ task.superseded) \cup task.token]

\* Mutant: an operation settles every token of the row.
EnqueueClearsTokens(task) == [MergeRow(task.upd, task.syn) EXCEPT !.tok = {}]

\* enqueue: only the tokens captured with the operation are settled.
EnqueueRow(task) == [MergeRow(task.upd, task.syn) EXCEPT !.tok = @ \ task.op.settles]

RunSave ==
    /\ phase = "up" /\ tail # <<>> /\ Head(tail).t = "save"
    /\ row' = SaveRow(Head(tail))
    /\ tail' = Tail(tail)
    /\ UNCHANGED <<phase, memory, rows, open, opens, retryTimer, wire, relay, nextId, bounds>>

\* The state and its operation land in one transaction; the operation is then transmitted.
RunEnqueue ==
    /\ phase = "up" /\ tail # <<>> /\ Head(tail).t = "enqueue"
    /\ LET op == Head(tail).op
       IN /\ row' = EnqueueRow(Head(tail))
          /\ rows' = rows \cup {op}
          /\ recovered' = recovered \ op.settles
          /\ captured' = captured \cup {op.id}
          /\ queue' = Append(queue, op)
          /\ tail' = Append(Tail(tail), MarkOf(op, "drain"))
    /\ drain' = "sending"
    /\ UNCHANGED <<phase, doc, synced, snap, known, active, timer, draft, open, opens,
                   retryTimer, wire, relay, nextId, bounds>>

\* Mutant: what was asked to be sent is sent, acknowledged or not.
SentRegardless(op) == TRUE

\* transmit, after its mark landed: the head may have been acknowledged meanwhile.
StillHead(op) == queue # <<>> /\ Head(queue).id = op.id

RunMark ==
    /\ phase = "up" /\ tail # <<>> /\ Head(tail).t = "mark"
    /\ tail' = Tail(tail)
    /\ IF StillHead(Head(tail).op) THEN Send(Append1(Head(tail).op)) ELSE UNCHANGED c2r
    /\ drain' = IF Head(tail).by = "drain" THEN "idle" ELSE drain
    /\ UNCHANGED <<phase, doc, synced, snap, known, queue, captured, recovered, active, timer,
                   draft, disk, open, opens, retryTimer, r2c, relay, nextId, bounds>>

\* commitAcknowledgement: settled by this transaction, or by an earlier copy of the same ack.
Committed(task) == task.op.id \in Ids(rows) \/ task.syn \subseteq row.syn

CommitRow(task) ==
    IF task.op.id \in Ids(rows) THEN MergeRow(task.upd, task.syn) ELSE row

CommitRows(task) == {op \in rows : op.id # task.op.id}

\* The rest of onAck: the boundary becomes the baseline, the operation leaves the queue, the
\* relay may drop its receipt, and the next operation or difference follows.  The retry of a
\* refused write is called off when all of that has ended, now or later.
RunCommit ==
    /\ phase = "up" /\ tail # <<>> /\ Head(tail).t = "commit"
    /\ LET task == Head(tail)
           op == task.op
       IN /\ row' = CommitRow(task)
          /\ rows' = CommitRows(task)
          /\ IF Committed(task)
             THEN /\ known' = (known \/ op.id \in captured)
                  /\ snap' = IF op.id \in captured THEN op.snap ELSE snap
                  /\ captured' = captured \ {op.id}
                  /\ synced' = synced \cup op.sv
                  /\ queue' = IF queue = <<>> THEN <<>> ELSE Tail(queue)
                  /\ Send(Confirm(op.id))
                  /\ tail' = Tail(tail) \o ResendTasks(queue', drain)
                  /\ drain' = ResendDrain(queue', drain)
                  /\ retryTimer' \in {retryTimer, FALSE}
             ELSE /\ tail' = Tail(tail)
                  /\ UNCHANGED <<known, snap, captured, synced, queue, c2r, drain, retryTimer>>
    /\ UNCHANGED <<phase, doc, recovered, active, timer, draft, open, opens, r2c, relay,
                   nextId, bounds>>

-----------------------------------------------------------------------------
(* The socket and the relay.                                               *)

\* onOpen resyncs the engine, at once or when it is ready.
Open ==
    /\ ~open
    /\ open' = TRUE
    /\ IF phase = "up"
       THEN /\ tail' = tail \o ResendTasks(queue, drain)
            /\ drain' = ResendDrain(queue, drain)
            /\ UNCHANGED opens
       ELSE /\ opens' = IF phase = "loading" THEN opens + 1 ELSE opens
            /\ UNCHANGED <<tail, drain>>
    /\ UNCHANGED <<phase, doc, synced, snap, known, queue, captured, recovered, active, timer,
                   draft, disk, retryTimer, wire, relay, nextId, bounds>>

\* The socket is lost with everything still in it.
Close ==
    /\ open /\ closes < MaxCloses
    /\ closes' = closes + 1
    /\ open' = FALSE
    /\ c2r' = <<>> /\ r2c' = <<>>
    /\ UNCHANGED <<phase, memory, tail, disk, opens, retryTimer, relay, nextId, crashes,
                   refusals>>

\* The row and outbox the cache would hold had its next transaction landed.
Landed(task) ==
    CASE task.t = "save"    -> <<SaveRow(task), rows>>
      [] task.t = "enqueue" -> <<EnqueueRow(task), rows \cup {task.op}>>
      [] task.t = "commit"  -> <<CommitRow(task), CommitRows(task)>>
      [] OTHER              -> <<row, rows>>

\* The tab dies.  The transaction under way may have landed, and nobody was told.
Crash ==
    /\ phase # "down" /\ crashes < MaxCrashes
    /\ crashes' = crashes + 1
    /\ \/ UNCHANGED disk
       \/ /\ phase = "up" /\ tail # <<>>
          /\ LET landed == Landed(Head(tail))
             IN row' = landed[1] /\ rows' = landed[2]
    /\ Forget
    /\ open' = FALSE /\ opens' = 0 /\ retryTimer' = FALSE
    /\ c2r' = <<>> /\ r2c' = <<>>
    /\ UNCHANGED <<relay, nextId, closes, refusals>>

\* An append is stored once: a known outbox id is answered from its receipt.
RelayAppend ==
    /\ c2r # <<>> /\ Head(c2r).t = "append"
    /\ LET op == Head(c2r).op
       IN /\ IF op.id \in receipts
             THEN UNCHANGED relay
             ELSE log' = Append(log, op) /\ receipts' = receipts \cup {op.id}
          /\ r2c' = Append(r2c, Ack(op.id))
    /\ c2r' = Tail(c2r)
    /\ UNCHANGED <<phase, memory, tail, disk, open, opens, retryTimer, nextId, bounds>>

\* Over its quota the relay answers a write without looking at it.
RelayRefuse ==
    /\ c2r # <<>> /\ Head(c2r).t = "append" /\ refusals < MaxRefusals
    /\ refusals' = refusals + 1
    /\ r2c' = Append(r2c, Refused(Head(c2r).op.id))
    /\ c2r' = Tail(c2r)
    /\ UNCHANGED <<phase, memory, tail, disk, open, opens, retryTimer, relay, nextId,
                   closes, crashes>>

RelayConfirm ==
    /\ c2r # <<>> /\ Head(c2r).t = "confirm"
    /\ receipts' = receipts \ {Head(c2r).id}
    /\ c2r' = Tail(c2r)
    /\ UNCHANGED <<phase, memory, tail, disk, open, opens, retryTimer, r2c, log, nextId, bounds>>

\* onAck looks at the head of the queue only, before it waits for the cache.
AcksHead(id) == queue # <<>> /\ Head(queue).id = id

\* The acknowledged vector: what was known and what the operation held.
AckedVector == synced \cup Head(queue).sv

ReceiveAck ==
    /\ r2c # <<>> /\ Head(r2c).t = "ack"
    /\ r2c' = Tail(r2c)
    /\ IF AcksHead(Head(r2c).id)
       THEN tail' = Append(tail, [t |-> "commit", op |-> Head(queue), upd |-> doc,
                                  syn |-> AckedVector])
       ELSE UNCHANGED tail
    /\ UNCHANGED <<phase, memory, disk, open, opens, retryTimer, c2r, relay, nextId, bounds>>

\* A refusal leaves the operation at the head of the queue and arms one retry.
ReceiveRefusal ==
    /\ r2c # <<>> /\ Head(r2c).t = "refused"
    /\ r2c' = Tail(r2c)
    /\ retryTimer' = TRUE
    /\ UNCHANGED <<phase, memory, tail, disk, open, opens, c2r, relay, nextId, bounds>>

\* resendRefused: nothing while the socket is closed, the reconnect resends by itself.
RetryRefused ==
    /\ retryTimer
    /\ retryTimer' = FALSE
    /\ IF open /\ phase = "up" /\ queue # <<>>
       THEN tail' = Append(tail, MarkOf(Head(queue), "resend"))
       ELSE UNCHANGED tail
    /\ UNCHANGED <<phase, memory, disk, open, opens, wire, relay, nextId, bounds>>

-----------------------------------------------------------------------------
RunTask == RunSave \/ RunResume \/ RunEnqueue \/ RunMark \/ RunCommit

Relay == RelayAppend \/ RelayConfirm

Receive == ReceiveAck \/ ReceiveRefusal

Next ==
    \/ Start \/ Ready \/ Retire
    \/ \E e \in Edits : Edit(e)
    \/ FireTimer \/ Sealed \/ RunTask
    \/ Open \/ Close \/ Crash
    \/ Relay \/ RelayRefuse
    \/ Receive \/ RetryRefused

Spec == Init /\ [][Next]_vars

\* Everything the code schedules by itself happens: timers, cache and crypto callbacks, the
\* reconnect loop, the relay's answers; and the document is opened again some day.
Fairness ==
    /\ WF_vars(Start) /\ WF_vars(Ready) /\ WF_vars(FireTimer)
    /\ WF_vars(Sealed) /\ WF_vars(RunTask)
    /\ WF_vars(Open) /\ WF_vars(Relay) /\ WF_vars(Receive) /\ WF_vars(RetryRefused)

FairSpec == Spec /\ Fairness

-----------------------------------------------------------------------------
(* Properties.                                                             *)

TypeOK ==
    /\ phase \in {"down", "loading", "up"}
    /\ doc \in SUBSET Edits /\ synced \in SUBSET Inserts
    /\ snap \in SUBSET Edits /\ known \in BOOLEAN
    /\ queue \in Seq(Op) /\ captured \in SUBSET Nat
    /\ recovered \in SUBSET Edits /\ active \in SUBSET Edits
    /\ timer \in BOOLEAN
    /\ drain \in {"idle", "tail", "sealing", "storing", "sending"}
    /\ draft \in Op /\ tail \in Seq(Task)
    /\ row \in [upd: SUBSET Edits, syn: SUBSET Inserts, tok: SUBSET Edits]
    /\ rows \in SUBSET Op /\ IsFiniteSet(rows)
    /\ open \in BOOLEAN /\ opens \in Nat /\ retryTimer \in BOOLEAN
    /\ c2r \in Seq(ClientMessage) /\ r2c \in Seq(ServerMessage)
    /\ log \in Seq(Op) /\ receipts \in SUBSET Nat
    /\ nextId \in Nat /\ closes \in Nat /\ crashes \in Nat /\ refusals \in Nat

\* The relay stores an outbox id at most once, whatever is resent, lost, replayed after a
\* crash or refused: `The relay applies an outbox id once` (doc-sync.ts:219).
AtMostOnce == \A i, j \in 1..Len(log) : log[i].id = log[j].id => i = j

\* `at most one durable append per document is in flight` (doc-sync.ts:3): the outbox never
\* holds two operations, and what the socket still carries beside it is an echo of an operation
\* the relay already stored, never one the outbox gave up.
InTransit == {c2r[i].op : i \in {k \in 1..Len(c2r) : c2r[k].t = "append"}}
OneInFlight == Cardinality(Ids(rows)) <= 1 /\ Ids(InTransit) \subseteq Ids(rows) \cup Stored

\* The engine's queue and the durable outbox never disagree: no row waits for a restart to be
\* sent, and nothing is sent that a restart would forget.
QueueMirrorsOutbox == phase = "up" => Ids(rows) = {queue[i].id : i \in 1..Len(queue)}

\* `Local state is written to IndexedDB before transmission` (doc-sync.ts:2).
DurableBeforeSent ==
    Held \cup UNION {op.content : op \in InTransit} \subseteq row.upd

\* The vector the next difference is taken from never names an insertion that neither the
\* relay holds nor the outbox carries, in memory or at rest: such an edit would never be sent.
BaselineSound == synced \cup row.syn \subseteq Held

\* An edit at rest that no operation carries keeps a dirty token, so a restart sends it.
UnsentIsTokened ==
    row.upd \subseteq Held \cup UNION {op.content : op \in rows} \/ row.tok # {}

\* `True only when destroying the engine cannot strand a locally queued operation` (isIdle):
\* what an idle engine holds beyond the relay is at rest under a token.
IdleStrandsNothing ==
    IsIdle => doc \subseteq row.upd /\ (doc \subseteq Held \/ row.tok # {})

\* An append that brings the relay nothing new is made only while the baseline is unknown:
\* `at worst a deletion set is sent once more` (ready), never in a loop of its own making.
NoEmptyAppends ==
    [][drain # "sealing" /\ drain' = "sealing" /\ draft'.content \subseteq Held => ~known]_vars

\* Whatever reached the disk reaches the relay.
EditsArrive == \A e \in Edits : e \in row.upd ~> e \in Held

\* The outbox is an exactly-once queue.
Promise == INSTANCE ReliableOutbox WITH
    OpIds <- 1..MaxOps, outbox <- Ids(rows), stored <- [i \in 1..Len(log) |-> log[i].id]
ImplementsReliableOutbox == Promise!Spec

-----------------------------------------------------------------------------
(* Why AtMostOnce holds: the invariant its proof carries through a step.   *)

Places(s) == 1..Len(s)

\* The stage a drain is at while this task of its own waits in the cache queue.
Stage(task) ==
    CASE task.t = "resume"  -> "tail"
      [] task.t = "enqueue" -> "storing"
      [] task.t = "mark"    -> IF task.by = "drain" THEN "sending" ELSE "none"
      [] OTHER              -> "none"

\* At most one task in the cache queue belongs to a drain, and to the stage it is at.
OneDrain ==
    \A i \in Places(tail) : Stage(tail[i]) # "none" =>
        /\ drain = Stage(tail[i])
        /\ \A j \in Places(tail) : Stage(tail[j]) # "none" => j = i

Drafting == drain \in {"sealing", "storing"}

\* While an operation is being made nothing is queued, and the one to be stored is the draft.
DraftAlone ==
    /\ Drafting => queue = <<>> /\ draft.id \in 1..(nextId - 1)
    /\ \A i \in Places(tail) : tail[i].t = "enqueue" => tail[i].op.id = draft.id

\* An acknowledgement waiting for the cache is the head's, or older than the draft behind it.
CommitsOfHead ==
    \A i \in Places(tail) : tail[i].t = "commit" =>
        /\ tail[i].op.id \in Stored
        /\ queue # <<>> => tail[i].op.id = Head(queue).id
        /\ Drafting => tail[i].op.id # draft.id
        /\ \A j \in Places(tail) : tail[j].t = "enqueue" => i < j

\* One operation at most, the same in memory and at rest.
OneRow ==
    /\ \A a, b \in rows : a = b
    /\ Len(queue) <= 1
    /\ phase = "up" => rows = {queue[i] : i \in Places(queue)}

\* Before the cache has been read there is only what an early edit asks for.
NotUpYet ==
    phase # "up" =>
        /\ queue = <<>> /\ drain \in {"idle", "tail"}
        /\ \A i \in Places(tail) : tail[i].t \in {"save", "resume"}

\* An id is new when it is given.
IdsAreOld ==
    /\ nextId \in Nat \ {0}
    /\ Stored \cup receipts \cup Ids(rows) \subseteq 1..(nextId - 1)
    /\ \A i \in Places(c2r) :
        /\ c2r[i].t = "append" => c2r[i].op.id \in 1..(nextId - 1)
        /\ c2r[i].t = "confirm" => c2r[i].id \in 1..(nextId - 1)

\* What can still be sent, or already is on its way.
Live == Ids(rows) \cup Ids({queue[i] : i \in Places(queue)})
            \cup IF Drafting THEN {draft.id} ELSE {}

\* An operation whose receipt is gone or being given up is never sent again.
FinishedForGood ==
    /\ Live \cap (Stored \ receipts) = {}
    /\ \A i \in Places(c2r) : c2r[i].t = "confirm" => c2r[i].id \notin Live
    /\ \A i \in Places(c2r) : c2r[i].t = "append" =>
        /\ c2r[i].op.id \notin Stored \ receipts
        /\ \A j \in Places(c2r) : c2r[j].t = "confirm" /\ j < i => c2r[j].id # c2r[i].op.id

\* The relay acknowledges what it stored.
AcksAreStored ==
    /\ receipts \subseteq Stored
    /\ \A i \in Places(r2c) : r2c[i].t = "ack" => r2c[i].id \in Stored

\* At most one durable append is in flight, and its id is not sent again once settled: every
\* part is kept by every step.
OutboxInv ==
    /\ OneDrain /\ DraftAlone /\ CommitsOfHead /\ OneRow /\ NotUpYet
    /\ IdsAreOld /\ FinishedForGood /\ AcksAreStored /\ AtMostOnce
=============================================================================
