---------------------------- MODULE DocLifecycle ----------------------------
(***************************************************************************)
(* Deletion, resurrection and generations of one document: one device's    *)
(* engine of sync/doc-sync.ts, the relay, and the other devices through    *)
(* it. A deletion, and a resurrection, starts a new generation at the      *)
(* relay (ADR 0039, ADR 0157).                                             *)
(*                                                                         *)
(* Text is a set of items. What an item's bytes are, how gaps are held and *)
(* paged (DocCatchup) and what a crash does to an operation (OutboxDelivery)*)
(* are left to the other modules: here an operation is written in one      *)
(* step, and the waits modelled are those around which generations change. *)
(***************************************************************************)
EXTENDS Integers, Sequences, FiniteSets, SequencesExt

CONSTANTS
    Creates,        \* this device may be the one that created the document
    Calm,           \* what is assumed not to happen
    MaxEdits,       \* bound: items this device writes
    MaxPeerEdits,   \* bound: items the other devices write
    MaxGen,         \* bound: generations
    MaxDeletes,     \* bound: deletions by this device
    MaxDrops        \* bound: sockets lost

ASSUME LifecycleAssumption ==
    /\ Creates \in BOOLEAN
    /\ Calm \subseteq {"waits", "refusals", "deletions"}
    /\ MaxGen \in Nat \ {0}
    /\ {MaxEdits, MaxPeerEdits, MaxDeletes, MaxDrops} \subseteq Nat

VARIABLES
    \* The engine.
    text, dead,     \* the live document: what it shows, and what was deleted in it
    gen, life,      \* documentGeneration, lifecycleState
    lastSeq,        \* the watermark in this generation
    known,          \* lastSyncedStateVector: the items the relay is known to hold
    base,           \* lastSyncedSnapshot: what needs no sending, or <<>> when unknown
    timer,          \* the debounce of an edit is pending
    drain,          \* "no", "wanted", or "busy"
    sealing,        \* the operation a busy drain seals and writes
    queue,          \* durableQueue
    rows,           \* the operations in the outbox of the cache, by id
    created,        \* createdHere
    recreating,     \* the next page says where this device's text is written again
    deletion,       \* delete(): "no", "asked", "discarding" the queue, "writing" its operation
    deletionGen,    \* the generation of the operation being written
    calls,          \* calls of receive() and staleGeneration() that wait
    \* The socket and the relay.
    open, c2r, r2c,
    rgen, rstate,   \* the document's generation and state
    rlog,           \* the updates of this generation
    receipts,       \* the acknowledgements given, one for each operation stored
    \* Bookkeeping.
    buried,         \* the items a deletion removed from the relay
    revived,        \* the edits written on a document known to be deleted, and its generation then
    edits, peerEdits, deletes, drops, ops

engine == <<text, dead, gen, life, lastSeq, known, base, timer, drain, sealing, queue, rows, created, recreating,
            deletion, deletionGen, calls>>
socket == <<open, c2r, r2c>>
relay  == <<rgen, rstate, rlog, receipts>>
bounds == <<edits, peerEdits, deletes, drops, ops>>
vars   == <<engine, socket, relay, buried, revived, bounds>>

\* An item: who wrote it, which one it is, and how often it was written again.
Items == {"here", "peer"} \X (1..(MaxEdits + MaxPeerEdits)) \X Nat
\* Mutant: the text is left as it is.
SameItem(i) == i

Again(i) == <<i[1], i[2], i[3] + 1>>
Edit_(i) == <<i[1], i[2]>>

Snapshot == <<[text |-> text, dead |-> dead]>>
Unknown  == <<>>

\* What does not happen during a wait where waits do not overlap.
Calmly(w, P) == w \in Calm => P

Waiting(t) == \E k \in Range(calls) : k.t = t

-----------------------------------------------------------------------------
Init ==
    /\ text = {} /\ dead = {} /\ gen = 1 /\ life = "active" /\ lastSeq = 0
    /\ known = {} /\ base = Snapshot /\ timer = FALSE /\ drain = "no" /\ sealing = <<>>
    /\ queue = <<>> /\ rows = {}
    /\ created \in {FALSE, Creates} /\ recreating = FALSE /\ calls = <<>>
    /\ deletion = "no" /\ deletionGen = 0
    /\ open = FALSE /\ c2r = <<>> /\ r2c = <<>>
    /\ rgen = 1 /\ rstate = "active" /\ rlog = <<>> /\ receipts = {}
    /\ buried = {} /\ revived = {}
    /\ edits = 0 /\ peerEdits = 0 /\ deletes = 0 /\ drops = 0 /\ ops = 0

-----------------------------------------------------------------------------
(* Helpers of the engine.                                                  *)

Send(ms)  == c2r' = IF open THEN c2r \o ms ELSE c2r
Message(o) == [t |-> o.kind, op |-> o]
CatchUp(g, after) == [t |-> "catchup", gen |-> g, after |-> after]

NewCall(k)    == calls' = Append(calls, k)
SetCall(i, k) == calls' = [calls EXCEPT ![i] = k]

\* The call 0 is a new one.
PutCall(i, k) == IF i = 0 THEN NewCall(k) ELSE SetCall(i, k)
EndCall(i)    == calls' = RemoveAt(calls, i)

\* requestDrain: a drain under way is joined.
WantDrain(d) == IF d = "no" THEN "wanted" ELSE d

\* The content is deleted, in a transaction no drain is scheduled for.
ClearText == text' = {} /\ dead' = dead \cup text

\* discardOlderGeneration: the copy holds deleted text; it is cleared, never merged.
DiscardOlder ==
    /\ ClearText
    /\ known' = {}
    /\ base' = <<[text |-> {}, dead |-> dead \cup text]>>
    /\ lastSeq' = 0

-----------------------------------------------------------------------------
(* Editing and draining.                                                   *)

\* The waits inside delete() and inside the adoption of a deletion.
MidDeletion ==
    deletion # "no" \/ life = "deleting" \/ Waiting("purge") \/ (queue # <<>> /\ Head(queue).kind = "delete")

\* The relay has refused, or will refuse, something this device sent for an older generation; or
\* the device is away, and has not heard of a newer one.
GenOf(m) == IF m.t = "catchup" THEN m.gen ELSE m.op.gen
Outdated ==
    \/ Waiting("stale")
    \/ \E m \in Range(r2c) : m.t = "stale"
    \/ \E m \in Range(c2r) : m.t # "confirm" /\ GenOf(m) # rgen
    \/ ~open /\ gen # rgen

Edit ==
    /\ edits < MaxEdits
    /\ Calmly("refusals", ~Outdated)
    /\ Calmly("deletions", ~MidDeletion) /\ Calmly("waits", drain # "busy")
    /\ edits' = edits + 1
    /\ text' = text \cup {<<"here", edits', 0>>}
    /\ timer' = TRUE
    /\ revived' = IF life = "deleted" THEN revived \cup {<<edits', gen>>} ELSE revived
    /\ UNCHANGED <<sealing, dead, gen, life, lastSeq, known, base, drain, queue, rows, created, recreating, deletion,
                   deletionGen, calls, socket, relay, buried, peerEdits, deletes, drops, ops>>

FireTimer ==
    /\ timer
    /\ timer' = FALSE
    /\ drain' = WantDrain(drain)
    /\ UNCHANGED <<sealing, text, dead, gen, life, lastSeq, known, base, queue, rows, created, recreating, deletion,
                   deletionGen, calls, socket, relay, buried, revived, bounds>>

\* What an operation says: the difference, or the whole document for a resurrection.
Plaintext(items) == IF life = "deleted" THEN items ELSE items \ known

\* Judged by the snapshot, deletions included; an empty difference is not sent either.
NothingToSend == base = Snapshot \/ (text \subseteq known /\ dead = {})

\* The operation is captured before it is sealed and written.
DrainStart ==
    /\ drain = "wanted" /\ Calmly("waits", calls = <<>> /\ deletion = "no")
    /\ \/ /\ queue # <<>> \/ NothingToSend
          /\ drain' = "no"
          /\ UNCHANGED <<sealing, ops>>
       \/ /\ queue = <<>> /\ ~NothingToSend
          /\ ops' = ops + 1
          /\ drain' = "busy"
          /\ sealing' = <<[id |-> ops', kind |-> IF life = "deleted" THEN "resurrect" ELSE "append", gen |-> gen,
                         adds |-> Plaintext(text), kills |-> dead, holds |-> text \cup dead,
                         boundary |-> Snapshot, creates |-> created]>>
    /\ UNCHANGED <<text, dead, gen, life, lastSeq, known, base, timer, queue, rows, created, recreating, deletion,
                   deletionGen, calls, socket, relay, buried, revived, edits, peerEdits, deletes, drops>>

\* Written: it enters the queue, and is sent if nothing is before it.
DrainEnd ==
    /\ drain = "busy"
    /\ drain' = "no" /\ sealing' = <<>>
    /\ queue' = queue \o sealing /\ rows' = rows \cup {sealing[1].id}
    /\ life' = IF sealing[1].kind = "resurrect" THEN "resurrecting" ELSE life
    /\ IF queue = <<>> THEN Send(<<Message(sealing[1])>>) ELSE UNCHANGED c2r
    /\ UNCHANGED <<text, dead, gen, lastSeq, known, base, timer, created, recreating, deletion, deletionGen, calls,
                   open, r2c, relay, buried, revived, bounds>>

-----------------------------------------------------------------------------
(* delete().                                                               *)
UpToDate ==
    /\ c2r = <<>> /\ r2c = <<>> /\ calls = <<>> /\ drain # "busy"
    /\ gen = rgen /\ lastSeq = Len(rlog) /\ life # "resurrecting"

\* Asked for: it waits for the cache.
DeleteAsked ==
    /\ deletes < MaxDeletes /\ deletion = "no"
    /\ life \notin {"deleted", "deleting"}
    /\ Calmly("deletions", UpToDate)
    /\ deletes' = deletes + 1
    /\ deletion' = "asked"
    /\ UNCHANGED <<sealing, text, dead, gen, life, lastSeq, known, base, timer, drain, queue, rows, created, recreating,
                   deletionGen, calls, socket, relay, buried, revived, edits, peerEdits, drops, ops>>

\* The document is emptied, whatever it has become meanwhile.
DeleteStart ==
    /\ deletion = "asked"
    /\ life' = "deleting" /\ timer' = FALSE
    /\ ClearText
    /\ queue' = <<>>
    /\ deletion' = "discarding"
    /\ revived' = {}
    /\ UNCHANGED <<sealing, gen, lastSeq, known, base, drain, rows, created, recreating, deletionGen, calls,
                   socket, relay, buried, bounds>>

\* The queue is discarded; the cleared document is the baseline, and the operation, of the
\* generation the document is in now, is being written.
DeleteDiscarded ==
    /\ deletion = "discarding"
    /\ deletion' = "writing" /\ deletionGen' = gen
    /\ base' = Snapshot
    /\ rows' = {o.id : o \in Range(queue)}
    /\ UNCHANGED <<sealing, text, dead, gen, life, lastSeq, known, timer, drain, queue, created, recreating, calls,
                   socket, relay, buried, revived, bounds>>

DeleteWritten ==
    /\ deletion = "writing"
    /\ deletion' = "no" /\ deletionGen' = 0
    /\ ops' = ops + 1
    /\ LET o == [id |-> ops', kind |-> "delete", gen |-> deletionGen, adds |-> {}, kills |-> {}, holds |-> {},
                 boundary |-> Unknown, creates |-> FALSE]
       IN  queue' = Append(queue, o) /\ rows' = rows \cup {o.id}
    /\ Send(<<Message(Head(queue'))>>)
    /\ UNCHANGED <<sealing, text, dead, gen, life, lastSeq, known, base, timer, drain, created, recreating, calls,
                   open, r2c, relay, buried, revived, edits, peerEdits, deletes, drops>>

-----------------------------------------------------------------------------
(* receive(): acknowledgements.                                            *)
Received(t) == r2c # <<>> /\ Head(r2c).t = t /\ r2c' = Tail(r2c) /\ Calmly("waits", calls = <<>> /\ drain # "busy" /\ deletion = "no")

IsHead(id) == queue # <<>> /\ Head(queue).id = id

OnAck ==
    /\ Received("ack")
    /\ LET m == Head(r2c)
       IN  IF IsHead(m.id) THEN NewCall([t |-> "ack", ack |-> m, op |-> Head(queue)]) ELSE UNCHANGED calls
    /\ UNCHANGED <<sealing, text, dead, gen, life, lastSeq, known, base, timer, drain, queue, rows, created,
                   recreating, deletion, deletionGen, open, c2r, relay, buried, revived, bounds>>

Confirm(id) == [t |-> "confirm", id |-> id]

\* The acknowledgement is committed, unless the cache lost the operation meanwhile. The next
\* operation follows, or a drain; after a deletion nothing is drained.
AckCommitted(i) ==
    /\ calls[i].t = "ack"
    /\ EndCall(i)
    /\ LET m == calls[i].ack
           o == calls[i].op
           next == IF Len(queue) > 1 THEN <<Message(queue[2])>> ELSE <<>>
           gap  == IF o.kind # "delete" /\ m.seq > lastSeq + 1 THEN <<CatchUp(m.gen, lastSeq)>> ELSE <<>>
       IN  \/ /\ o.id \notin rows
              /\ UNCHANGED <<gen, life, lastSeq, known, base, drain, queue, rows, created, c2r>>
           \/ /\ o.id \in rows
              /\ rows' = rows \ {o.id}
              /\ queue' = IF queue = <<>> THEN <<>> ELSE Tail(queue)
              /\ Send(gap \o <<Confirm(m.id)>> \o next)
              /\ gen' = m.gen
              /\ IF o.kind = "delete"
                 THEN /\ life' = "deleted" /\ lastSeq' = 0 /\ known' = {}
                      /\ UNCHANGED <<base, drain, created>>
                 ELSE /\ life' = "active" /\ created' = FALSE
                      /\ base' = o.boundary /\ known' = known \cup o.holds
                      /\ lastSeq' = IF m.seq = lastSeq + 1 THEN m.seq ELSE lastSeq
                      /\ drain' = IF next = <<>> THEN WantDrain(drain) ELSE drain
    /\ UNCHANGED <<sealing, text, dead, timer, recreating, deletion, deletionGen, open, r2c, relay, buried, revived,
                   bounds>>

-----------------------------------------------------------------------------
(* receive(): updates and pages.                                           *)

\* A peer's resurrection, broadcast as the first update of the new generation.
Resurrects(g, s) == life = "deleted" /\ g = gen + 1 /\ s = 1

\* applyEnvelope, up to its decryption, for the next update of a call k. A live update names its
\* generation, one of a page has whichever the document is in.
Take(k, i) ==
    LET e == Head(k.todo)
        g == IF k.live THEN e.gen ELSE gen
        rest == [k EXCEPT !.todo = Tail(@)]
        mark == IF g = gen THEN lastSeq ELSE 0
    IN  \/ /\ g # gen /\ ~Resurrects(g, e.seq)
           /\ PutCall(i, rest)
           /\ UNCHANGED <<gen, life, lastSeq, c2r>>
        \/ /\ g = gen \/ Resurrects(g, e.seq)
           /\ gen' = g
           /\ life' = IF g = gen THEN life ELSE "active"
           /\ lastSeq' = mark
           /\ \/ e.seq <= mark /\ PutCall(i, rest) /\ UNCHANGED c2r
              \/ e.seq > mark + 1 /\ PutCall(i, rest) /\ Send(<<CatchUp(g, mark)>>)
              \/ e.seq = mark + 1 /\ PutCall(i, [rest EXCEPT !.opening = <<e>>]) /\ UNCHANGED c2r

OnUpdate ==
    /\ Received("update")
    /\ Take([t |-> "apply", live |-> TRUE, todo |-> <<Head(r2c).update>>, opening |-> <<>>], 0)
    /\ UNCHANGED <<sealing, text, dead, known, base, timer, drain, queue, rows, created, recreating, deletion,
                   deletionGen, open, relay, buried, revived, bounds>>

TakeNext(i) ==
    /\ calls[i].t = "apply" /\ calls[i].opening = <<>> /\ calls[i].todo # <<>>
    /\ Take(calls[i], i)
    /\ UNCHANGED <<sealing, text, dead, known, base, timer, drain, queue, rows, created, recreating, deletion,
                   deletionGen, open, r2c, relay, buried, revived, bounds>>

\* Decrypted: applied to the document as it is now.
Opened(i) ==
    /\ calls[i].t = "apply" /\ calls[i].opening # <<>>
    /\ LET e == calls[i].opening[1]
       IN  /\ dead' = dead \cup e.kills
           /\ text' = (text \cup e.adds) \ dead'
           /\ known' = known \cup e.adds
           /\ base' = IF queue = <<>> /\ ~timer /\ drain = "no" THEN <<[text |-> text', dead |-> dead']>> ELSE base
           /\ lastSeq' = IF e.seq > lastSeq THEN e.seq ELSE lastSeq
    /\ SetCall(i, [calls[i] EXCEPT !.opening = <<>>])
    /\ UNCHANGED <<sealing, gen, life, timer, drain, queue, rows, created, recreating, deletion, deletionGen, socket,
                   relay, buried, revived, bounds>>

EndApply(i) ==
    /\ calls[i].t = "apply" /\ calls[i].opening = <<>> /\ calls[i].todo = <<>>
    /\ EndCall(i)
    /\ UNCHANGED <<sealing, text, dead, gen, life, lastSeq, known, base, timer, drain, queue, rows, created,
                   recreating, deletion, deletionGen, socket, relay, buried, revived, bounds>>

\* adoptRelayDeletion, up to the purge: the document is emptied.
AdoptDeletion(g) ==
    /\ gen' = g /\ life' = "deleted" /\ lastSeq' = 0
    /\ ClearText
    /\ NewCall([t |-> "purge"])
    /\ UNCHANGED <<known, base, timer>>

\* Purged: the outbox is empty, and the emptied document the shared baseline.
Purged(i) ==
    /\ calls[i].t = "purge"
    /\ EndCall(i)
    /\ queue' = <<>> /\ rows' = {} /\ base' = Snapshot
    /\ UNCHANGED <<sealing, text, dead, gen, life, lastSeq, known, timer, drain, created, recreating, deletion,
                   deletionGen, socket, relay, buried, revived, bounds>>

\* recreateInto: this device's text is written again, as its own, in the relay's generation.
RecreateInto(g, state) ==
    /\ gen' = g /\ lastSeq' = 0 /\ life' = state
    /\ text' = {Again(i) : i \in text}
    /\ dead' = dead \cup text
    /\ timer' = (timer \/ text # {})
    /\ UNCHANGED <<known, base>>

\* Mutant: a deletion this device already holds is adopted again.
HoldsNoDeletion(g) == FALSE

\* Mutant: a deletion this device has not emptied the document for counts as held.
HoldsAnyDeletion(g) == g >= gen

\* This device already holds the deletion: what is in the document was written after it.
HoldsDeletion(g) == g = gen /\ life \in {"deleted", "resurrecting"}

\* Mutant: an older generation's text is kept when a newer one is reached.
NeverOlder(g) == FALSE

\* An active copy behind the generation the relay answers with holds deleted text.
CopyIsOlder(g) == g > gen /\ life = "active"

OnPage ==
    /\ Received("page")
    /\ LET m == Head(r2c)
           apply == [t |-> "apply", live |-> FALSE, todo |-> m.updates, opening |-> <<>>]
       IN  \/ /\ m.gen < gen
              /\ UNCHANGED <<text, dead, gen, life, lastSeq, known, base, timer, recreating, calls>>
           \/ /\ m.gen >= gen /\ recreating
              /\ recreating' = FALSE
              /\ RecreateInto(m.gen, m.state)
              /\ IF m.state = "deleted" THEN UNCHANGED calls ELSE NewCall(apply)
           \/ /\ m.gen >= gen /\ ~recreating /\ m.state = "deleted"
              /\ UNCHANGED recreating
              /\ IF HoldsDeletion(m.gen)
                 THEN lastSeq' = 0 /\ UNCHANGED <<text, dead, gen, life, known, base, timer, calls>>
                 ELSE AdoptDeletion(m.gen)
           \/ /\ m.gen >= gen /\ ~recreating /\ m.state = "active"
              /\ UNCHANGED <<recreating, timer>>
              /\ IF CopyIsOlder(m.gen) THEN DiscardOlder ELSE UNCHANGED <<text, dead, known, base, lastSeq>>
              /\ gen' = m.gen /\ life' = "active"
              /\ NewCall(apply)
    /\ UNCHANGED <<sealing, drain, queue, rows, created, deletion, deletionGen, open, c2r, relay, buried, revived,
                   bounds>>

-----------------------------------------------------------------------------
(* staleGeneration().                                                      *)

\* Text this device created, or resurrected: it is kept, and sent again whole.
AssertsText == created \/ \E o \in Range(queue) : o.kind = "resurrect" \/ (o.kind = "append" /\ o.creates)

\* Up to the discard of the queue.
OnStaleGeneration ==
    /\ Received("stale")
    /\ LET g == Head(r2c).gen
       IN  /\ \/ /\ AssertsText
                 /\ recreating' = TRUE /\ created' = TRUE
                 /\ known' = {} /\ base' = Unknown
                 /\ UNCHANGED <<text, dead, lastSeq>>
              \/ /\ ~AssertsText
                 /\ UNCHANGED <<recreating, created>>
                 /\ IF CopyIsOlder(g) THEN DiscardOlder ELSE UNCHANGED <<text, dead, known, base, lastSeq>>
           /\ NewCall([t |-> "stale", gen |-> g, ids |-> {o.id : o \in Range(queue)}])
    /\ queue' = <<>>
    /\ UNCHANGED <<sealing, rows, gen, life, timer, drain, deletion, deletionGen, open, c2r, relay, buried, revived,
                   bounds>>

\* Mutant: the device stays in the generation that was refused.
Stay(g) == gen

MoveTo(g) == g

\* Discarded: the document is asked for from the start of the relay's generation.
StaleDiscarded(i) ==
    /\ calls[i].t = "stale"
    /\ EndCall(i)
    /\ gen' = MoveTo(calls[i].gen) /\ lastSeq' = 0
    /\ rows' = rows \ calls[i].ids
    /\ Send(<<CatchUp(gen', 0)>>)
    /\ UNCHANGED <<sealing, text, dead, life, known, base, timer, drain, queue, created, recreating, deletion,
                   deletionGen, open, r2c, relay, buried, revived, bounds>>

-----------------------------------------------------------------------------
(* The socket.                                                             *)

\* A new socket: resync().
Connect ==
    /\ ~open /\ Calmly("waits", calls = <<>>)
    /\ open' = TRUE
    /\ c2r' = <<CatchUp(gen, lastSeq)>> \o (IF queue = <<>> THEN <<>> ELSE <<Message(Head(queue))>>)
    /\ drain' = IF queue = <<>> THEN WantDrain(drain) ELSE drain
    /\ UNCHANGED <<sealing, text, dead, gen, life, lastSeq, known, base, timer, queue, rows, created, recreating,
                   deletion, deletionGen, calls, r2c, relay, buried, revived, bounds>>

Drop ==
    /\ open /\ drops < MaxDrops
    /\ drops' = drops + 1
    /\ open' = FALSE /\ c2r' = <<>> /\ r2c' = <<>>
    /\ UNCHANGED <<engine, relay, buried, revived, edits, peerEdits, deletes, ops>>

-----------------------------------------------------------------------------
(* The relay.                                                              *)
UpdatesOf(log) == UNION {u.adds : u \in Range(log)} \ UNION {u.kills : u \in Range(log)}
RelayText == UpdatesOf(rlog)

At(g, s, u) == [gen |-> g, seq |-> s, adds |-> u.adds, kills |-> u.kills]
ToUpdate(g, s, u) == [t |-> "update", update |-> At(g, s, u)]
ToPage(g, state, us) == [t |-> "page", gen |-> g, state |-> state, updates |-> us]
Tail_(after) == [i \in 1..(IF after < Len(rlog) THEN Len(rlog) - after ELSE 0) |-> At(rgen, after + i, rlog[after + i])]

Answer(ms) == r2c' = r2c \o ms
Accepts(o) == o.gen = rgen /\ rstate = (IF o.kind = "resurrect" THEN "deleted" ELSE "active")
Receipt(id) == {r \in receipts : r.id = id}
Stores(o, g, s, log) ==
    LET ack == [t |-> "ack", id |-> o.id, gen |-> g, seq |-> Len(log)]
    IN  /\ rgen' = g /\ rstate' = s /\ rlog' = log
        /\ receipts' = receipts \cup {ack}
        /\ Answer(<<ack>>)

TakeConfirm(m) ==
    /\ m.t = "confirm"
    /\ receipts' = receipts \ Receipt(m.id)
    /\ UNCHANGED <<r2c, rgen, rstate, rlog, buried>>

\* A page, empty if the document is deleted, or the refusal of another generation.
TakeCatchup(m) ==
    /\ m.t = "catchup"
    /\ Answer(IF m.gen = rgen THEN <<ToPage(rgen, rstate, Tail_(m.after))>> ELSE <<[t |-> "stale", gen |-> rgen]>>)
    /\ UNCHANGED <<relay, buried>>

TakeAppend(m) ==
    /\ m.t = "append" /\ Receipt(m.op.id) = {} /\ Accepts(m.op)
    /\ Stores(m.op, rgen, rstate, Append(rlog, [adds |-> m.op.adds, kills |-> m.op.kills]))
    /\ UNCHANGED buried

\* A deletion or a resurrection starts a generation.
TakeLifecycle(m) ==
    /\ Receipt(m.op.id) = {} /\ Accepts(m.op)
    /\ \/ /\ m.t = "delete"
          /\ Stores(m.op, rgen + 1, "deleted", <<>>)
          /\ buried' = buried \cup RelayText
       \/ /\ m.t = "resurrect"
          /\ Stores(m.op, rgen + 1, "active", <<[adds |-> m.op.adds, kills |-> m.op.kills]>>)
          /\ UNCHANGED buried

\* An operation stored before is acknowledged again; one of another generation is refused.
Repeat(m) ==
    /\ Receipt(m.op.id) # {}
    /\ \E r \in Receipt(m.op.id) : Answer(<<r>>)
    /\ UNCHANGED <<relay, buried>>

Refuse(m) ==
    /\ Receipt(m.op.id) = {} /\ ~Accepts(m.op)
    /\ Answer(<<[t |-> "stale", gen |-> rgen]>>)
    /\ UNCHANGED <<relay, buried>>

RelayTakes ==
    /\ c2r # <<>>
    /\ c2r' = Tail(c2r)
    /\ LET m == Head(c2r)
       IN  \/ TakeConfirm(m) \/ TakeCatchup(m)
           \/ /\ m.t \in {"append", "delete", "resurrect"}
              /\ Repeat(m) \/ Refuse(m) \/ TakeAppend(m) \/ TakeLifecycle(m)
    /\ UNCHANGED <<engine, open, revived, bounds>>

\* To a subscriber: a document that is open is subscribed.
Tell(m) == r2c' = IF open THEN Append(r2c, m) ELSE r2c

PeerItem(n) == [adds |-> {<<"peer", n, 0>>}, kills |-> {}]

PeerEdits ==
    /\ peerEdits < MaxPeerEdits /\ rstate = "active"
    /\ Calmly("deletions", ~MidDeletion)
    /\ peerEdits' = peerEdits + 1
    /\ rlog' = Append(rlog, PeerItem(peerEdits'))
    /\ Tell(ToUpdate(rgen, Len(rlog'), PeerItem(peerEdits')))
    /\ UNCHANGED <<engine, open, c2r, rgen, rstate, receipts, buried, revived, edits, deletes, drops, ops>>

\* Room is kept for the generations of this device's own operations. The deletion does not bind
\* a device that created or resurrected the document and has not heard that the relay holds it:
\* what it writes asserts that the document exists (ADR 0157). That, and that others
\* delete only a document with updates in its log, restricts the other devices, not this one.
PeerDeletes ==
    /\ rgen < MaxGen /\ rstate = "active" /\ rlog # <<>>
    /\ rgen' = rgen + 1 /\ rstate' = "deleted" /\ rlog' = <<>>
    /\ buried' = IF AssertsText THEN buried ELSE buried \cup RelayText
    /\ Tell(ToPage(rgen', "deleted", <<>>))
    /\ UNCHANGED <<engine, open, c2r, receipts, revived, bounds>>

\* The relay may yet refuse, or has refused, more than one message for its generation.
MayRefuse ==
    \/ Waiting("stale")
    \/ \E m \in Range(c2r) : m.t # "confirm"
    \/ \E m \in Range(r2c) : m.t = "stale"
    \/ open /\ gen # rgen
    \/ ~open /\ ~(queue = <<>> /\ NothingToSend)

PeerResurrects ==
    /\ rgen < MaxGen /\ rstate = "deleted" /\ peerEdits < MaxPeerEdits
    /\ Calmly("refusals", ~MayRefuse)
    /\ Calmly("deletions", ~MidDeletion)
    /\ peerEdits' = peerEdits + 1
    /\ rgen' = rgen + 1 /\ rstate' = "active" /\ rlog' = <<PeerItem(peerEdits')>>
    /\ Tell(ToUpdate(rgen', 1, PeerItem(peerEdits')))
    /\ UNCHANGED <<engine, open, c2r, receipts, buried, revived, edits, deletes, drops, ops>>

-----------------------------------------------------------------------------
Calls ==
    \E i \in DOMAIN calls :
        \/ AckCommitted(i) \/ TakeNext(i) \/ Opened(i) \/ EndApply(i) \/ Purged(i) \/ StaleDiscarded(i)

Device ==
    \/ FireTimer \/ DrainStart \/ DrainEnd \/ DeleteStart \/ DeleteDiscarded \/ DeleteWritten
    \/ OnAck \/ OnUpdate \/ OnPage \/ OnStaleGeneration \/ Calls

Next ==
    \/ Device \/ Connect \/ RelayTakes
    \/ Edit \/ DeleteAsked \/ Drop
    \/ PeerEdits \/ PeerDeletes \/ PeerResurrects

\* The event loop serves timers, messages and finished waits; the back-off reconnects.
Spec == Init /\ [][Next]_vars /\ WF_vars(Device) /\ WF_vars(Connect) /\ WF_vars(RelayTakes)

-----------------------------------------------------------------------------
(* Properties.                                                             *)

TypeOK ==
    /\ \A items \in {text, dead, known, buried} : items \subseteq Items
    /\ gen \in Nat /\ rgen \in Nat /\ lastSeq \in Nat
    /\ life \in {"active", "deleting", "deleted", "resurrecting"}
    /\ rstate \in {"active", "deleted"}
    /\ Len(queue) <= 2 /\ text \cap dead = {}

\* Nothing is pending on either side.
AtRest ==
    /\ open /\ c2r = <<>> /\ r2c = <<>> /\ calls = <<>> /\ queue = <<>>
    /\ ~timer /\ drain = "no" /\ deletion = "no"

\* When nothing is pending the device shows what the relay holds, in its generation.
Converged ==
    AtRest => /\ gen = rgen /\ text = RelayText
              /\ life = rstate

\* The device and the relay come to rest: no refusal is answered by a message refused again for ever.
Settles == <>[]AtRest

\* Deleted text never comes back: not at the relay, and not in a document at rest.
DeletedStaysDeleted ==
    /\ RelayText \cap buried = {}
    /\ AtRest => text \cap buried = {}

\* What an engine at rest takes for shared is shared: no edit of this device is left behind in it
\* ("With no local work in any stage [...] the doc is exactly baseline-plus-relay-updates").
BaselineShared ==
    AtRest /\ base = Snapshot => {i \in text : i[1] = "here"} \subseteq RelayText

\* Only an edit revives a document: an engine nobody typed into sends no resurrection
\* ("only a real edit (resurrection) should ever drain from here").
OnlyEditsRevive == edits = 0 /\ ~created => \A o \in Range(queue) : o.kind # "resurrect"

\* An edit written on a deleted document is a resurrection: it reaches the relay, and only a
\* later deletion removes it.
RevivalKept ==
    AtRest => \A r \in revived : rgen \div 2 > r[2] \div 2 \/ \E i \in RelayText : Edit_(i) = <<"here", r[1]>>
=============================================================================
