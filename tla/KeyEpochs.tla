----------------------------- MODULE KeyEpochs -----------------------------
(***************************************************************************)
(* Following a new Graph Key epoch (ADR 0127): the session's followEpoch   *)
(* and its retry timer (sync/graph-sync.ts) over one document's engine,    *)
(* which seals again what the relay refused and asks again for what it     *)
(* could not open (sync/doc-sync.ts).                                      *)
(*                                                                         *)
(* The keyring is read where the code reads it, and several walks of       *)
(* keysChanged may overlap: each call starts one, none waits for another.  *)
(* Text is a count of insertions; `upTo` of an operation is where the      *)
(* document stood when it was made. An edit reaches the cache's row in its *)
(* own step (OutboxDelivery is about when it does not), and the window,    *)
(* quotas, gaps and generations belong to the other modules.               *)
(***************************************************************************)
EXTENDS Integers, Sequences, FiniteSets

CONSTANTS
    Walks,          \* bound: calls of keysChanged under way at once, by name
    MaxEpoch,       \* bound: epochs of the graph
    MaxEdits,       \* bound: edits
    MaxOps,         \* bound: outbox ids ever made
    MaxTroubles     \* bound: sockets lost, tabs killed, collections that bring nothing

ASSUME KeyEpochsAssumption ==
    /\ IsFiniteSet(Walks) /\ Walks # {} /\ Walks \cap {"drain", "resend"} = {}
    /\ MaxEpoch \in Nat \ {0}
    /\ {MaxEdits, MaxOps, MaxTroubles} \subseteq Nat

VARIABLES
    \* The session.
    keyEpoch,       \* the newest epoch of the keyring
    wantedEpoch,    \* the newest epoch the session heard of
    waitingForKey,  \* the epoch the session says it waits for, 0 for none
    refreshing,     \* refreshKeyring: "no", "asked", "read" (the answer is on its way), "failing"
    collected,      \* the epoch that answer carries
    recent,         \* KEY_REFRESH_INTERVAL_MS has not passed since the last collection
    keyRetryTimer,
    \* The engine.
    edits, synced, base,    \* the document, what the relay acknowledged, what needs no drain
    timer, drain, draft,    \* the debounce, drainPromise and the operation it makes
    durableQueue, captured, \* and the ids whose boundary snapshot is held
    refusedAsStale, missingEpoch,
    walk,           \* what each call of keysChanged waits for
    tail,           \* persistenceTail
    \* IndexedDB.
    rows, dirty, rowSynced,
    \* The socket and the relay.
    open, c2r, r2c, graphEpoch, stored, receipts,
    \* Bookkeeping of the bounds, how the random outbox ids happen to sort, and what the relay
    \* had stored when the document was last opened (a history variable: no step depends on it).
    nextId, troubles, idOrder, storedAtOpen

session == <<wantedEpoch, waitingForKey, refreshing, collected, recent, keyRetryTimer>>
text    == <<edits, synced, base, timer>>
sending == <<drain, draft, durableQueue, captured>>
keys    == <<refusedAsStale, missingEpoch, walk>>
disk    == <<rows, dirty, rowSynced>>
wire    == <<open, c2r, r2c>>
relay   == <<graphEpoch, stored, receipts>>
opening == <<idOrder, storedAtOpen>>
bounds  == <<nextId, troubles, opening>>
vars    == <<keyEpoch, session, text, sending, keys, tail, disk, wire, relay, bounds>>

-----------------------------------------------------------------------------
Greater(a, b) == IF a > b THEN a ELSE b

Op   == [id: 1..MaxOps, from: 0..MaxEdits, upTo: 1..MaxEdits, epoch: 1..MaxEpoch]
NoOp == [id |-> 0, from |-> 0, upTo |-> 0, epoch |-> 0]
Content(op) == (op.from + 1)..op.upTo
Contents(ops) == UNION {Content(op) : op \in ops}

Idle == [pc |-> "idle", epoch |-> 0, index |-> 0, old |-> NoOp, new |-> NoOp, headReplaced |-> FALSE]

Init ==
    /\ keyEpoch = 1 /\ wantedEpoch = 0 /\ waitingForKey = 0 /\ refreshing = "no" /\ collected = 0
    /\ recent = FALSE /\ keyRetryTimer = FALSE
    /\ edits = 0 /\ synced = 0 /\ base = 0 /\ timer = FALSE
    /\ drain = "no" /\ draft = NoOp /\ durableQueue = <<>> /\ captured = {}
    /\ refusedAsStale = {} /\ missingEpoch = 0 /\ walk = [w \in Walks |-> Idle] /\ tail = <<>>
    /\ rows = {} /\ dirty = {} /\ rowSynced = 0
    /\ open = FALSE /\ c2r = <<>> /\ r2c = <<>>
    /\ graphEpoch = 1 /\ stored = {} /\ receipts = {}
    /\ nextId = 1 /\ troubles = 0 /\ idOrder = "any" /\ storedAtOpen = {}

-----------------------------------------------------------------------------
(* resealStaleOperations and keysChanged.                                  *)

\* Mutant: a head whose answer is still on its way is sealed again too.
MayResealAny(op, index, refused) == TRUE

\* Every operation behind the head, the head only once the relay refused it.
MayReseal(op, index, refused) == index > 1 \/ op.id \in refused

\* A walk stops at the next operation to seal. A gap in the queue (see Put) makes it throw.
Stops(queue, refused, epoch, from) ==
    {i \in from..Len(queue) : \/ queue[i] = NoOp
                              \/ queue[i].epoch < epoch /\ MayReseal(queue[i], i, refused)}

WalkOn(w, queue, refused, from) ==
    LET stops == Stops(queue, refused, w.epoch, from)
        i     == CHOOSE k \in stops : \A j \in stops : k <= j
    IN  IF stops # {} /\ queue[i] # NoOp
        THEN [w EXCEPT !.pc = "sealing", !.index = i, !.old = queue[i], !.new = NoOp]
        ELSE IF stops = {} /\ w.headReplaced /\ Head(queue) # NoOp
        THEN [w EXCEPT !.pc = "marking", !.old = NoOp, !.new = NoOp]
        ELSE Idle

\* Mutant: what could not be opened waits for the next update.
NeverAsk(missing, epoch) == missing

\* What could not be opened is asked for again once the walk is over and its key is held.
AskAgain(missing, epoch) == IF missing <= epoch THEN 0 ELSE missing

\* keysChanged, as far as its first await, given the refusals known by then.
KeysChanged(refused, missing, epoch) ==
    LET idle == {w \in Walks : walk[w] = Idle}
        on   == WalkOn([Idle EXCEPT !.epoch = epoch], durableQueue, refused, 1)
    IN  /\ idle # {}
        /\ walk' = [walk EXCEPT ![CHOOSE w \in idle : TRUE] = on]
        /\ missingEpoch' = IF on = Idle THEN AskAgain(missing, epoch) ELSE missing

\* openSymmetric and sealSymmetric returned; the new operation is to be stored first.
Sealed(w) ==
    /\ walk[w].pc = "sealing" /\ nextId <= MaxOps
    /\ walk' = [walk EXCEPT ![w].pc = "storing",
                            ![w].new = [walk[w].old EXCEPT !.id = nextId, !.epoch = walk[w].epoch]]
    /\ tail' = Append(tail, [t |-> "store", by |-> w])
    /\ nextId' = nextId + 1
    /\ UNCHANGED <<keyEpoch, session, text, sending, refusedAsStale, missingEpoch, disk, wire, relay,
                   troubles, opening>>

\* Mutant: the old operation goes before the new one is stored.
DiscardFirst(first, old, new) == IF first THEN rows \ {old} ELSE rows \cup {new}

\* The outbox after each of the two transactions of a reseal: the new operation is stored first.
RowsAfter(first, old, new) == IF first THEN rows \cup {new} ELSE rows \ {old}

RunStore ==
    /\ tail # <<>> /\ Head(tail).t = "store"
    /\ LET w == Head(tail).by IN
       /\ rows' = RowsAfter(TRUE, walk[w].old, walk[w].new)
       /\ walk' = [walk EXCEPT ![w].pc = "discarding"]
       /\ tail' = Append(Tail(tail), [t |-> "discard", by |-> w])
    /\ UNCHANGED <<keyEpoch, session, text, sending, refusedAsStale, missingEpoch, dirty, rowSynced, wire,
                   relay, bounds>>

\* durableQueue[index] = resealed, whatever the queue has become meanwhile: it may have grown
\* shorter than that, and an array written beyond its end has a gap.
Put(queue, i, op) ==
    [j \in 1..Greater(i, Len(queue)) |-> IF j = i THEN op ELSE IF j <= Len(queue) THEN queue[j] ELSE NoOp]

\* Mutant: the head sealed again is left for the next reconnect to send.
ReplacedLater(w) == FALSE

\* Whether the head was among what this walk sealed again.
HeadReplaced(w) == walk[w].headReplaced \/ walk[w].index = 1

RunDiscard ==
    /\ tail # <<>> /\ Head(tail).t = "discard"
    /\ LET w     == Head(tail).by
           old   == walk[w].old
           new   == walk[w].new
           queue == Put(durableQueue, walk[w].index, new)
           left  == refusedAsStale \ {old.id}
           on    == WalkOn([walk[w] EXCEPT !.headReplaced = HeadReplaced(w)],
                           queue, left, walk[w].index + 1)
       IN  /\ rows' = RowsAfter(FALSE, old, new)
           /\ refusedAsStale' = left
           /\ durableQueue' = queue
           /\ captured' = IF old.id \in captured THEN (captured \ {old.id}) \cup {new.id} ELSE captured
           /\ walk' = [walk EXCEPT ![w] = on]
           /\ tail' = IF on.pc = "marking"
                      THEN Append(Tail(tail), [t |-> "mark", op |-> Head(queue), by |-> w])
                      ELSE Tail(tail)
           /\ missingEpoch' = IF on = Idle THEN AskAgain(missingEpoch, keyEpoch) ELSE missingEpoch
    /\ UNCHANGED <<keyEpoch, session, text, drain, draft, dirty, rowSynced, wire, relay, bounds>>


-----------------------------------------------------------------------------
(* followEpoch and its timer.                                              *)

\* Mutant: the session waits for the epoch after the one it was told of.
WaitsForNext(epoch, wanted) ==
    /\ waitingForKey' = IF epoch >= wanted THEN 0 ELSE wanted + 1
    /\ keyRetryTimer' = (epoch < wanted)

\* Mutant: no timer asks again.
WaitsToBeTold(epoch, wanted) ==
    /\ waitingForKey' = IF epoch >= wanted THEN 0 ELSE wanted
    /\ keyRetryTimer' = FALSE

\* What a collection finished or given up leaves: the session waits, on a timer, or does not.
Waits(epoch, wanted) ==
    /\ waitingForKey' = IF epoch >= wanted THEN 0 ELSE wanted
    /\ keyRetryTimer' = (epoch < wanted)

\* A collection under way answers this call too; a refused write or an unreadable update asks
\* at most once an interval while the session waits.
AsksNow(announced) == announced \/ waitingForKey = 0 \/ ~recent

Follow(epoch, announced, refused, missing) ==
    /\ wantedEpoch' = Greater(wantedEpoch, epoch)
    /\ refusedAsStale' = refused
    /\ \/ /\ keyEpoch >= wantedEpoch'
          /\ waitingForKey' = 0
          /\ keyRetryTimer' = (keyRetryTimer /\ waitingForKey = 0)
          /\ KeysChanged(refused, missing, keyEpoch)
          /\ UNCHANGED <<refreshing, recent>>
       \/ /\ keyEpoch < wantedEpoch'
          /\ IF refreshing = "no" /\ AsksNow(announced)
             THEN refreshing' = "asked" /\ recent' = TRUE
             ELSE UNCHANGED <<refreshing, recent>>
          /\ missingEpoch' = missing
          /\ UNCHANGED <<waitingForKey, keyRetryTimer, walk>>

\* The server reads this account's copy of the newest key; the answer is on its way.
CollectionRead ==
    /\ refreshing = "asked"
    /\ refreshing' = "read" /\ collected' = graphEpoch
    /\ UNCHANGED <<keyEpoch, wantedEpoch, waitingForKey, recent, keyRetryTimer, text, sending, keys, tail,
                   disk, wire, relay, bounds>>

\* The network, or a copy this device refused: refreshKeyring returns without the key.
CollectionFails ==
    /\ refreshing = "asked" /\ troubles < MaxTroubles
    /\ refreshing' = "failing" /\ troubles' = troubles + 1
    /\ UNCHANGED <<keyEpoch, wantedEpoch, waitingForKey, collected, recent, keyRetryTimer, text, sending,
                   keys, tail, disk, wire, relay, nextId, opening>>

Refreshed ==
    /\ refreshing \in {"read", "failing"}
    /\ keyEpoch' = IF refreshing = "read" THEN Greater(keyEpoch, collected) ELSE keyEpoch
    /\ refreshing' = "no" /\ collected' = 0
    /\ Waits(keyEpoch', wantedEpoch)
    /\ KeysChanged(refusedAsStale, missingEpoch, keyEpoch')
    /\ UNCHANGED <<wantedEpoch, recent, text, sending, refusedAsStale, tail, disk, wire, relay, bounds>>

KeyRetry ==
    /\ keyRetryTimer
    /\ wantedEpoch' = wantedEpoch
    /\ \/ /\ keyEpoch >= wantedEpoch
          /\ waitingForKey' = 0 /\ keyRetryTimer' = FALSE
          /\ KeysChanged(refusedAsStale, missingEpoch, keyEpoch)
          /\ UNCHANGED <<refreshing, recent>>
       \/ /\ keyEpoch < wantedEpoch
          /\ keyRetryTimer' = FALSE
          /\ IF refreshing = "no" THEN refreshing' = "asked" /\ recent' = TRUE
             ELSE UNCHANGED <<refreshing, recent>>
          /\ UNCHANGED <<waitingForKey, walk, missingEpoch>>
    /\ UNCHANGED <<keyEpoch, collected, refusedAsStale, text, sending, tail, disk, wire, relay, bounds>>

IntervalPasses ==
    /\ recent
    /\ recent' = FALSE
    /\ UNCHANGED <<keyEpoch, wantedEpoch, waitingForKey, refreshing, collected, keyRetryTimer, text, sending,
                   keys, tail, disk, wire, relay, bounds>>

\* The workspace collects the key on its own, and tells nobody.
CollectedElsewhere ==
    /\ keyEpoch < graphEpoch
    /\ keyEpoch' = graphEpoch
    /\ UNCHANGED <<session, text, sending, keys, tail, disk, wire, relay, bounds>>

-----------------------------------------------------------------------------
(* The engine's operations.                                                *)

Mark(op, by) == [t |-> "mark", op |-> op, by |-> by]

\* requestDrain: a drain under way answers this call too.
DrainTask(d) == IF d = "no" THEN <<[t |-> "resume"]>> ELSE <<>>
Draining(d)  == IF d = "no" THEN "waiting" ELSE d

Edit ==
    /\ edits < MaxEdits
    /\ edits' = edits + 1 /\ dirty' = dirty \cup {edits'}
    /\ timer' = TRUE
    /\ UNCHANGED <<keyEpoch, session, synced, base, sending, keys, tail, rows, rowSynced, wire, relay, bounds>>

Debounced ==
    /\ timer
    /\ timer' = FALSE
    /\ drain' = Draining(drain) /\ tail' = tail \o DrainTask(drain)
    /\ UNCHANGED <<keyEpoch, session, edits, synced, base, draft, durableQueue, captured, keys, disk, wire,
                   relay, bounds>>

\* drainCurrentDiff after the tasks before it: the operation is made of what the document is now.
RunResume ==
    /\ tail # <<>> /\ Head(tail).t = "resume"
    /\ tail' = Tail(tail)
    /\ IF durableQueue # <<>> \/ base = edits \/ synced = edits
       THEN drain' = "no" /\ UNCHANGED <<draft, nextId>>
       ELSE /\ nextId <= MaxOps
            /\ drain' = "sealing" /\ nextId' = nextId + 1
            /\ draft' = [id |-> nextId, from |-> synced, upTo |-> edits, epoch |-> keyEpoch]
    /\ UNCHANGED <<keyEpoch, session, text, durableQueue, captured, keys, disk, wire, relay,
                   troubles, opening>>

DrainSealed ==
    /\ drain = "sealing"
    /\ drain' = "storing"
    /\ tail' = Append(tail, [t |-> "enqueue"])
    /\ UNCHANGED <<keyEpoch, session, text, draft, durableQueue, captured, keys, disk, wire, relay, bounds>>

RunEnqueue ==
    /\ tail # <<>> /\ Head(tail).t = "enqueue"
    /\ rows' = rows \cup {draft} /\ dirty' = dirty \ (1..draft.upTo)
    /\ durableQueue' = Append(durableQueue, draft)
    /\ captured' = captured \cup {draft.id}
    /\ tail' = Append(Tail(tail), Mark(draft, "drain"))
    /\ drain' = "marking" /\ draft' = NoOp
    /\ UNCHANGED <<keyEpoch, session, text, keys, rowSynced, wire, relay, bounds>>

\* transmit, once the attempt is marked: only what is still at the head is sent.
RunMark ==
    /\ tail # <<>> /\ Head(tail).t = "mark"
    /\ LET op == Head(tail).op
           by == Head(tail).by
       IN  /\ c2r' = IF open /\ durableQueue # <<>> /\ Head(durableQueue).id = op.id
                     THEN Append(c2r, [t |-> "append", op |-> op]) ELSE c2r
           /\ drain' = IF by = "drain" THEN "no" ELSE drain
           /\ IF by \in Walks
              THEN walk' = [walk EXCEPT ![by] = Idle] /\ missingEpoch' = AskAgain(missingEpoch, keyEpoch)
              ELSE UNCHANGED <<walk, missingEpoch>>
    /\ tail' = Tail(tail)
    /\ UNCHANGED <<keyEpoch, session, text, draft, durableQueue, captured, refusedAsStale, disk, open, r2c,
                   relay, bounds>>

\* The head again, or a drain when there is none.
Resend(q, before) ==
    IF q # <<>> /\ Head(q) # NoOp
    THEN drain' = drain /\ tail' = Append(before, Mark(Head(q), "resend"))
    ELSE drain' = Draining(drain) /\ tail' = before \o DrainTask(drain)

RunCommit ==
    /\ tail # <<>> /\ Head(tail).t = "commit"
    /\ LET op == Head(tail).op IN
       IF op \notin rows
       THEN tail' = Tail(tail) /\ UNCHANGED <<text, sending, disk, c2r>>
       ELSE /\ rows' = rows \ {op} /\ rowSynced' = Head(tail).synced /\ dirty' = dirty
            /\ synced' = Greater(synced, op.upTo)
            /\ base' = IF op.id \in captured THEN op.upTo ELSE base
            /\ captured' = captured \ {op.id}
            /\ durableQueue' = SubSeq(durableQueue, 2, Len(durableQueue))
            /\ c2r' = IF open THEN Append(c2r, [t |-> "confirm", id |-> op.id]) ELSE c2r
            /\ Resend(durableQueue', Tail(tail))
            /\ UNCHANGED <<edits, timer, draft>>
    /\ UNCHANGED <<keyEpoch, session, keys, open, r2c, relay, bounds>>

-----------------------------------------------------------------------------
(* What the socket brings.                                                 *)

Received(kind) == r2c # <<>> /\ Head(r2c).t = kind /\ r2c' = Tail(r2c)

OnAck ==
    /\ Received("ack")
    /\ tail' = IF durableQueue # <<>> /\ Head(durableQueue).id = Head(r2c).id
               THEN Append(tail, [t |-> "commit", op |-> Head(durableQueue),
                                  synced |-> Greater(synced, Head(durableQueue).upTo)])
               ELSE tail
    /\ UNCHANGED <<keyEpoch, session, text, sending, keys, disk, open, c2r, relay, bounds>>

\* The refusal is noted before the epoch is followed: its key may be held already.
OnStaleEpoch ==
    /\ Received("stale")
    /\ Follow(Head(r2c).epoch, FALSE, refusedAsStale \cup {Head(r2c).id}, missingEpoch)
    /\ UNCHANGED <<keyEpoch, collected, text, sending, tail, disk, open, c2r, relay, bounds>>

OnEpochChanged ==
    /\ Received("epoch")
    /\ Follow(Head(r2c).epoch, TRUE, refusedAsStale, missingEpoch)
    /\ UNCHANGED <<keyEpoch, collected, text, sending, tail, disk, open, c2r, relay, bounds>>

\* Another document's refusal: its engine is told of it, and then every engine of the key.
OnOthersStaleEpoch ==
    /\ Received("other")
    /\ Follow(Head(r2c).epoch, FALSE, refusedAsStale, missingEpoch)
    /\ UNCHANGED <<keyEpoch, collected, text, sending, tail, disk, open, c2r, relay, bounds>>

\* A peer's update under a key this device lacks; one it can open changes nothing here.
OnUpdate ==
    /\ Received("update")
    /\ LET epoch == Head(r2c).epoch IN
       IF keyEpoch < epoch /\ missingEpoch < epoch
       THEN Follow(epoch, FALSE, refusedAsStale, epoch)
       ELSE UNCHANGED <<wantedEpoch, waitingForKey, refreshing, recent, keyRetryTimer, keys>>
    /\ UNCHANGED <<keyEpoch, collected, text, sending, tail, disk, open, c2r, relay, bounds>>

\* The engine's resync when the socket opens.
Connect ==
    /\ ~open
    /\ open' = TRUE
    /\ Resend(durableQueue, tail)
    /\ UNCHANGED <<keyEpoch, session, text, draft, durableQueue, captured, keys, disk, c2r, r2c, relay, bounds>>

Drop ==
    /\ open /\ troubles < MaxTroubles
    /\ open' = FALSE /\ c2r' = <<>> /\ r2c' = <<>> /\ troubles' = troubles + 1
    /\ UNCHANGED <<keyEpoch, session, text, sending, keys, tail, disk, relay, nextId, opening>>

\* The order of the outbox: by createdAt, which a reseal keeps, and then by the random id.
Before(order, a, b) ==
    \/ a.upTo < b.upTo
    \/ a.upTo = b.upTo /\ IF order = "rising" THEN a.id < b.id ELSE a.id > b.id

\* A tab killed and the graph opened again: ready reads the row and the outbox.
Restart ==
    /\ troubles < MaxTroubles
    /\ troubles' = troubles + 1
    /\ wantedEpoch' = 0 /\ waitingForKey' = 0 /\ refreshing' = "no" /\ collected' = 0
    /\ recent' = FALSE /\ keyRetryTimer' = FALSE
    /\ synced' = rowSynced /\ timer' = FALSE /\ UNCHANGED edits
    /\ base' = IF rows # {} \/ dirty # {} THEN 0 ELSE edits
    /\ drain' = "no" /\ draft' = NoOp /\ captured' = {}
    /\ \E order \in {"rising", "falling"} :
           /\ idOrder \in {"any", order}
           /\ idOrder' = IF Cardinality(rows) > 1 THEN order ELSE idOrder
           /\ \E queue \in [1..Cardinality(rows) -> rows] :
                 /\ \A i, j \in DOMAIN queue : i < j => Before(order, queue[i], queue[j])
                 /\ durableQueue' = queue
    /\ refusedAsStale' = {} /\ missingEpoch' = 0 /\ walk' = [w \in Walks |-> Idle] /\ tail' = <<>>
    /\ open' = FALSE /\ c2r' = <<>> /\ r2c' = <<>>
    /\ storedAtOpen' = stored
    /\ UNCHANGED <<keyEpoch, disk, relay, nextId>>

-----------------------------------------------------------------------------
(* The relay and the other devices.                                        *)

Answer(m) == r2c' = Append(r2c, m)

RelayAppend ==
    /\ c2r # <<>> /\ Head(c2r).t = "append"
    /\ c2r' = Tail(c2r)
    /\ LET op == Head(c2r).op IN
       IF op.id \in receipts
       THEN Answer([t |-> "ack", id |-> op.id]) /\ UNCHANGED <<stored, receipts>>
       ELSE IF op.epoch < graphEpoch
       THEN Answer([t |-> "stale", id |-> op.id, epoch |-> graphEpoch]) /\ UNCHANGED <<stored, receipts>>
       ELSE /\ Answer([t |-> "ack", id |-> op.id])
            /\ stored' = stored \cup {op} /\ receipts' = receipts \cup {op.id}
    /\ UNCHANGED <<keyEpoch, session, text, sending, keys, tail, disk, open, graphEpoch, bounds>>

RelayConfirm ==
    /\ c2r # <<>> /\ Head(c2r).t = "confirm"
    /\ c2r' = Tail(c2r) /\ receipts' = receipts \ {Head(c2r).id}
    /\ UNCHANGED <<keyEpoch, session, text, sending, keys, tail, disk, open, r2c, graphEpoch, stored, bounds>>

\* Another device moves the graph to a new epoch; those connected are told.
Rotate ==
    /\ graphEpoch < MaxEpoch
    /\ graphEpoch' = graphEpoch + 1
    /\ r2c' = IF open THEN Append(r2c, [t |-> "epoch", epoch |-> graphEpoch']) ELSE r2c
    /\ UNCHANGED <<keyEpoch, session, text, sending, keys, tail, disk, open, c2r, stored, receipts, bounds>>

\* Another device writes, or another document of this one is refused.
OthersAct ==
    /\ open /\ graphEpoch > 1
    /\ \A i \in DOMAIN r2c : r2c[i].t \notin {"update", "other"}
    /\ \E kind \in {"update", "other"} : Answer([t |-> kind, epoch |-> graphEpoch])
    /\ UNCHANGED <<keyEpoch, session, text, sending, keys, tail, disk, open, c2r, relay, bounds>>

-----------------------------------------------------------------------------
Resealing == (\E w \in Walks : Sealed(w)) \/ RunStore \/ RunDiscard
Following == CollectionRead \/ CollectionFails \/ Refreshed \/ KeyRetry \/ IntervalPasses
Sending   == Debounced \/ RunResume \/ DrainSealed \/ RunEnqueue \/ RunMark \/ RunCommit
Receiving == OnAck \/ OnStaleEpoch \/ OnEpochChanged \/ OnOthersStaleEpoch \/ OnUpdate
Relay     == RelayAppend \/ RelayConfirm

Next ==
    \/ Resealing \/ Following \/ Sending \/ Receiving \/ Relay
    \/ CollectedElsewhere \/ Edit \/ Connect \/ Drop \/ Restart \/ Rotate \/ OthersAct

\* Timers fire, transactions land, a collection ends, the socket comes back and delivers.
Fairness ==
    /\ WF_vars(Resealing \/ Sending) /\ WF_vars(CollectionRead \/ CollectionFails \/ Refreshed \/ KeyRetry)
    /\ WF_vars(Receiving) /\ WF_vars(Relay \/ Connect)

Spec == Init /\ [][Next]_vars /\ Fairness

-----------------------------------------------------------------------------
(* Properties.                                                             *)

AnyOp == Op \cup {NoOp}

Task ==
    [t: {"resume", "enqueue"}] \cup [t: {"store", "discard"}, by: Walks]
    \cup [t: {"mark"}, op: Op, by: Walks \cup {"drain", "resend"}]
    \cup [t: {"commit"}, op: Op, synced: 0..MaxEdits]
ClientMessage == [t: {"append"}, op: Op] \cup [t: {"confirm"}, id: 1..MaxOps]
ServerMessage ==
    [t: {"ack"}, id: 1..MaxOps] \cup [t: {"stale"}, id: 1..MaxOps, epoch: 1..MaxEpoch]
    \cup [t: {"epoch", "other", "update"}, epoch: 1..MaxEpoch]

\* Every variable keeps its type.
TypeOK ==
    /\ {keyEpoch, graphEpoch} \subseteq 1..MaxEpoch
    /\ {wantedEpoch, waitingForKey, collected, missingEpoch} \subseteq 0..MaxEpoch
    /\ refreshing \in {"no", "asked", "read", "failing"}
    /\ {recent, keyRetryTimer, timer, open} \subseteq BOOLEAN
    /\ {edits, synced, base, rowSynced} \subseteq 0..MaxEdits /\ dirty \subseteq 1..MaxEdits
    /\ drain \in {"no", "waiting", "sealing", "storing", "marking"} /\ draft \in AnyOp
    /\ durableQueue \in Seq(AnyOp) /\ rows \subseteq Op /\ stored \subseteq Op
    /\ captured \subseteq 1..MaxOps /\ refusedAsStale \subseteq 1..MaxOps /\ receipts \subseteq 1..MaxOps
    /\ walk \in [Walks -> [pc: {"idle", "sealing", "storing", "discarding", "marking"}, epoch: 0..MaxEpoch,
                           index: Nat, old: AnyOp, new: AnyOp, headReplaced: BOOLEAN]]
    /\ tail \in Seq(Task) /\ c2r \in Seq(ClientMessage) /\ r2c \in Seq(ServerMessage)
    /\ nextId \in 1..(MaxOps + 1)
    /\ troubles \in 0..MaxTroubles /\ idOrder \in {"any", "rising", "falling"}
    /\ storedAtOpen \subseteq Op

\* However its operations are sealed again, and wherever the tab dies, an edit is stored at the
\* relay, in the outbox at rest, or still marked as not yet queued.
EditKept == 1..edits \subseteq Contents(stored) \cup Contents(rows) \cup dirty

\* What a walk seals again is nothing the relay has stored, "sealing it again would store the
\* edit twice": not when the walk picks it, and not if it becomes the head and is sent meanwhile.
\* The exception is a second row of an edit stored already when the document was opened, which two
\* overlapping walks left in the outbox: it may be read back to a place behind the head, where
\* the code takes it for one that was never sent.
ReplacedNotStored ==
    \A w \in Walks : walk[w].old \in stored => walk[w].index > 1 /\ walk[w].old \in storedAtOpen

\* Nothing that waits for a key waits to be told. While the session says it waits, or the head
\* of the queue was refused under an older key, the key is being collected, a retry is set, or
\* (for the head) a walk is on its way; and while an update waits for its key the session is
\* not satisfied with an older one.
RefusedHead == durableQueue # <<>> /\ Head(durableQueue).id \in refusedAsStale
WaitIsWatched ==
    /\ waitingForKey # 0 => keyRetryTimer \/ refreshing # "no"
    /\ RefusedHead => refreshing # "no" \/ keyRetryTimer \/ \E w \in Walks : walk[w] # Idle
    /\ missingEpoch # 0 => wantedEpoch >= missingEpoch

\* Every edit reaches the relay, through any change of keys, unless overlapping walks left a gap
\* in the queue: nothing is sent past one before the document is opened again.
Gap == \E i \in DOMAIN durableQueue : durableQueue[i] = NoOp
EditsStored == \A e \in 1..MaxEdits : edits >= e ~> e \in Contents(stored) \/ Gap

\* The session stops waiting for a key, and the engine asks again for what it could not open.
KeysFollowed == waitingForKey # 0 \/ missingEpoch # 0 ~> waitingForKey = 0 /\ missingEpoch = 0

=============================================================================
