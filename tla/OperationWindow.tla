--------------------------- MODULE OperationWindow ---------------------------
(***************************************************************************)
(* How one graph's documents share the socket: the operation window, the   *)
(* routes of acknowledgements and the retry of refused writes of           *)
(* sync/graph-sync.ts.                                                     *)
(*                                                                         *)
(* Each document's engine is what OutboxDelivery proves of it: at most one *)
(* queued operation, the attempt marks and acknowledgement commits waiting *)
(* in its cache queue, and no commit left when the next is queued.         *)
(***************************************************************************)
EXTENDS Integers, Sequences, FiniteSets, SequencesExt

CONSTANTS
    Docs,           \* the documents of the graph
    Windows,        \* the sizes OPERATION_WINDOW may have
    MaxOps,         \* bound: operations made by one document
    MaxCloses,      \* bound: sockets lost
    MaxRefusals     \* bound: writes the relay refuses on a quota

ASSUME DocsAssumption == IsFiniteSet(Docs)
ASSUME WindowAssumption == Windows \subseteq Nat \ {0} /\ {MaxOps, MaxCloses, MaxRefusals} \subseteq Nat

VARIABLES
    \* Every document's engine.
    head,       \* the number of its queued operation, or 0
    made,       \* how many operations it has made
    tail,       \* its cache queue: marks and commits
    finishing,  \* acknowledged operations whose receive() has not returned
    \* The session.
    window,     \* OPERATION_WINDOW
    open,       \* the socket is open
    ackRoute,   \* operations whose acknowledgement can be routed to a document
    inFlight,   \* operationsInFlight: each document's operation number, or 0
    waiting,    \* operationsWaiting, oldest first
    refused,    \* refusedDocs; `refusal` is shown while it is not empty
    retryTimer, \* refusalTimer
    c2r, r2c,   \* the socket, in order, each way
    \* The relay.
    log,        \* each document's stored operations
    receipts,   \* operations it would answer again without storing
    \* Bookkeeping of the bounds.
    closes, refusals

engines == <<head, made, tail, finishing>>
slots   == <<inFlight, waiting>>
retry   == <<refused, retryTimer>>
relay   == <<log, receipts>>
bounds  == <<closes, refusals>>
vars == <<engines, window, open, ackRoute, slots, retry, c2r, r2c, relay, bounds>>

Op   == [doc: Docs, n: 1..MaxOps]
Task == [t: {"mark"}, n: 1..MaxOps, by: {"drain", "resend"}] \cup [t: {"commit"}, n: 1..MaxOps]

OpOf(d, n)    == [doc |-> d, n |-> n]
Mark(n, by)   == [t |-> "mark", n |-> n, by |-> by]
Msg(t, op)    == [t |-> t, op |-> op]
Appends(ops)  == [i \in DOMAIN ops |-> Msg("append", ops[i])]

InFlight(f)   == {d \in Docs : f[d] # 0}

-----------------------------------------------------------------------------
Init ==
    /\ head = [d \in Docs |-> 0] /\ made = [d \in Docs |-> 0]
    /\ tail = [d \in Docs |-> <<>>] /\ finishing = [d \in Docs |-> {}]
    /\ window \in Windows /\ open = FALSE /\ ackRoute = {}
    /\ inFlight = [d \in Docs |-> 0] /\ waiting = <<>>
    /\ refused = {} /\ retryTimer = FALSE
    /\ c2r = <<>> /\ r2c = <<>>
    /\ log = [d \in Docs |-> <<>>] /\ receipts = {}
    /\ closes = 0 /\ refusals = 0

-----------------------------------------------------------------------------
(* The window.                                                             *)

\* Mutant: a document's newer operation waits beside its older one.
ParkBeside(op) == Append(waiting, op)

\* A document's newer operation takes the place of the one it has waiting.
Park(op) ==
    IF \E i \in DOMAIN waiting : waiting[i].doc = op.doc
    THEN [i \in DOMAIN waiting |-> IF waiting[i].doc = op.doc THEN op ELSE waiting[i]]
    ELSE Append(waiting, op)

Unpark(d) ==
    LET there == {i \in DOMAIN waiting : waiting[i].doc = d}
    IN IF there = {} THEN waiting ELSE RemoveAt(waiting, CHOOSE i \in there : TRUE)

\* No room: the window is full and this document has no place in it.
NoRoom(d) == inFlight[d] = 0 /\ Cardinality(InFlight(inFlight)) >= window

\* sendOperation: sent within the window, or held until an answer makes room.
SendOperation(op) ==
    IF ~open
    THEN UNCHANGED <<slots, c2r>>
    ELSE IF NoRoom(op.doc)
    THEN waiting' = Park(op) /\ UNCHANGED <<inFlight, c2r>>
    ELSE /\ waiting' = Unpark(op.doc)
         /\ inFlight' = [inFlight EXCEPT ![op.doc] = op.n]
         /\ c2r' = Append(c2r, Msg("append", op))

\* Mutant: the freed place waits for the next operation to be sent.
AdmitsNone(room) == 0

\* How many of the waiting operations find room.
Admits(room) == IF room < Len(waiting) THEN room ELSE Len(waiting)

\* operationAnswered: the answer to the operation in flight frees its document's place, and
\* the longest-waiting operations take what room there is.
OperationAnswered(op) ==
    IF inFlight[op.doc] # op.n
    THEN UNCHANGED <<slots, c2r>>
    ELSE LET room  == window - Cardinality(InFlight(inFlight) \ {op.doc})
             going == SubSeq(waiting, 1, Admits(room))
             Now(d) == {going[i].n : i \in {k \in DOMAIN going : going[k].doc = d}}
         IN /\ waiting' = SubSeq(waiting, Len(going) + 1, Len(waiting))
            /\ inFlight' = [d \in Docs |-> IF Now(d) # {} THEN CHOOSE n \in Now(d) : TRUE
                                           ELSE IF d = op.doc THEN 0 ELSE inFlight[d]]
            /\ c2r' = c2r \o Appends(going)

-----------------------------------------------------------------------------
(* Refusals.                                                               *)

\* Mutant: an accepted write shows that nothing is refused any more.
NothingRefused(docs) == FALSE

\* clearRefusal calls the retry off only when no document is left refused.
StillRefused(docs) == docs # {}

\* writeAccepted, for every document of a set.
WriteAccepted(docs) ==
    /\ refused' = refused \ docs
    /\ retryTimer' = (retryTimer /\ StillRefused(refused \ docs))

\* resendRefused: each refused document's head operation again, unless the socket is closed.
RetryRefused ==
    /\ retryTimer
    /\ retryTimer' = FALSE
    /\ IF open
       THEN /\ refused' = {d \in refused : head[d] # 0}
            /\ tail' = [d \in Docs |-> IF d \in refused' THEN Append(tail[d], Mark(head[d], "resend"))
                                       ELSE tail[d]]
       ELSE UNCHANGED <<refused, tail>>
    /\ UNCHANGED <<head, made, finishing, open, ackRoute, slots, c2r, r2c, relay, bounds>>

-----------------------------------------------------------------------------
(* The engines.                                                            *)

\* A drain stored the document's next operation: it is queued and its transmission begins.
Queue(d) ==
    /\ head[d] = 0 /\ made[d] < MaxOps
    /\ \A i \in DOMAIN tail[d] : tail[d][i].t # "commit"
    /\ made' = [made EXCEPT ![d] = @ + 1]
    /\ head' = [head EXCEPT ![d] = made[d] + 1]
    /\ tail' = [tail EXCEPT ![d] = Append(@, Mark(made[d] + 1, "drain"))]
    /\ UNCHANGED <<finishing, open, ackRoute, slots, retry, c2r, r2c, relay, bounds>>

\* The routes of the acknowledgements whose receive() returned.
RoutesDone(d) == {OpOf(d, n) : n \in finishing[d]}

\* What the session does once receive() has returned: forget the routes, accept the write.
Finished(d, routes) ==
    /\ finishing' = [finishing EXCEPT ![d] = {}]
    /\ ackRoute' = IF finishing[d] = {} THEN routes ELSE routes \ RoutesDone(d)
    /\ IF finishing[d] = {} THEN UNCHANGED retry ELSE WriteAccepted({d})

\* Mutant: what was asked to be sent is sent, acknowledged or not.
SentRegardless(d, n) == TRUE

\* transmit, after its mark landed: only what is still at the head is sent.
StillHead(d, n) == head[d] = n

\* The drain an acknowledgement waited for ends with its own transmission.
RunMark(d) ==
    /\ tail[d] # <<>> /\ Head(tail[d]).t = "mark"
    /\ LET task == Head(tail[d])
           routes == IF StillHead(d, task.n) THEN ackRoute \cup {OpOf(d, task.n)} ELSE ackRoute
       IN /\ IF StillHead(d, task.n) THEN SendOperation(OpOf(d, task.n))
             ELSE UNCHANGED <<slots, c2r>>
          /\ IF task.by = "drain" THEN Finished(d, routes)
             ELSE ackRoute' = routes /\ UNCHANGED <<finishing, retry>>
    /\ tail' = [tail EXCEPT ![d] = Tail(@)]
    /\ UNCHANGED <<head, made, open, r2c, relay, bounds>>

\* onAck, after its commit landed: the operation leaves the queue, and the relay may forget it.
RunCommit(d) ==
    /\ tail[d] # <<>> /\ Head(tail[d]).t = "commit"
    /\ LET n == Head(tail[d]).n
       IN /\ finishing' = [finishing EXCEPT ![d] = @ \cup {n}]
          /\ c2r' = IF open THEN Append(c2r, Msg("confirm", OpOf(d, n))) ELSE c2r
    /\ head' = [head EXCEPT ![d] = 0]
    /\ tail' = [tail EXCEPT ![d] = Tail(@)]
    /\ UNCHANGED <<made, open, ackRoute, slots, retry, r2c, relay, bounds>>

\* The drain an acknowledgement waited for found nothing to send.
DrainedNothing(d) ==
    /\ finishing[d] # {} /\ head[d] = 0
    /\ Finished(d, ackRoute)
    /\ UNCHANGED <<head, made, tail, open, slots, c2r, r2c, relay, bounds>>

-----------------------------------------------------------------------------
(* The socket and the relay.                                               *)

\* onOpen resyncs every engine: its head operation is sent again.
Open ==
    /\ ~open /\ open' = TRUE
    /\ tail' = [d \in Docs |-> IF head[d] = 0 THEN tail[d]
                               ELSE Append(tail[d], Mark(head[d], "resend"))]
    /\ UNCHANGED <<head, made, finishing, ackRoute, slots, retry, c2r, r2c, relay, bounds>>

\* forgetSocketGeneration: routes and window belong to the socket.
Close ==
    /\ open /\ closes < MaxCloses
    /\ closes' = closes + 1
    /\ open' = FALSE
    /\ ackRoute' = {}
    /\ inFlight' = [d \in Docs |-> 0] /\ waiting' = <<>>
    /\ c2r' = <<>> /\ r2c' = <<>>
    /\ UNCHANGED <<engines, retry, relay, refusals>>

RelayAppend ==
    /\ c2r # <<>> /\ Head(c2r).t = "append"
    /\ LET op == Head(c2r).op
       IN /\ IF op \in receipts
             THEN UNCHANGED relay
             ELSE /\ log' = [log EXCEPT ![op.doc] = Append(@, op.n)]
                  /\ receipts' = receipts \cup {op}
          /\ r2c' = Append(r2c, Msg("ack", op))
    /\ c2r' = Tail(c2r)
    /\ UNCHANGED <<engines, open, ackRoute, slots, retry, bounds>>

RelayRefuse ==
    /\ c2r # <<>> /\ Head(c2r).t = "append" /\ refusals < MaxRefusals
    /\ refusals' = refusals + 1
    /\ r2c' = Append(r2c, Msg("refused", Head(c2r).op))
    /\ c2r' = Tail(c2r)
    /\ UNCHANGED <<engines, open, ackRoute, slots, retry, relay, closes>>

RelayConfirm ==
    /\ c2r # <<>> /\ Head(c2r).t = "confirm"
    /\ receipts' = receipts \ {Head(c2r).op}
    /\ c2r' = Tail(c2r)
    /\ UNCHANGED <<engines, open, ackRoute, slots, retry, r2c, log, bounds>>

\* An acknowledgement without a route is dropped.  One that is not the head's is finished with
\* at once, the head's when its commit and the drain after it are.
ReceiveAck ==
    /\ r2c # <<>> /\ Head(r2c).t = "ack"
    /\ r2c' = Tail(r2c)
    /\ LET op == Head(r2c).op
       IN IF op \notin ackRoute
          THEN UNCHANGED <<slots, c2r, tail, ackRoute, retry>>
          ELSE /\ OperationAnswered(op)
               /\ IF head[op.doc] = op.n
                  THEN /\ tail' = [tail EXCEPT ![op.doc] = Append(@, [t |-> "commit", n |-> op.n])]
                       /\ UNCHANGED <<ackRoute, retry>>
                  ELSE /\ ackRoute' = ackRoute \ {op}
                       /\ WriteAccepted({op.doc})
                       /\ UNCHANGED tail
    /\ UNCHANGED <<head, made, finishing, open, relay, bounds>>

\* noteRefusal: the refused operation gives its place back, and one retry is armed.
ReceiveRefusal ==
    /\ r2c # <<>> /\ Head(r2c).t = "refused"
    /\ r2c' = Tail(r2c)
    /\ OperationAnswered(Head(r2c).op)
    /\ refused' = refused \cup {Head(r2c).op.doc}
    /\ retryTimer' = TRUE
    /\ UNCHANGED <<engines, open, ackRoute, relay, bounds>>

-----------------------------------------------------------------------------
Engine(d) == Queue(d) \/ RunMark(d) \/ RunCommit(d) \/ DrainedNothing(d)

Next ==
    /\ \/ \E d \in Docs : Engine(d)
       \/ Open \/ Close \/ RetryRefused
       \/ RelayAppend \/ RelayRefuse \/ RelayConfirm
       \/ ReceiveAck \/ ReceiveRefusal
    /\ UNCHANGED window

Spec == Init /\ [][Next]_vars

-----------------------------------------------------------------------------
(* Properties.                                                             *)

\* Types.  The waiting operations are a map: one at most for a document.
TypeOK ==
    /\ head \in [Docs -> 0..MaxOps] /\ made \in [Docs -> 0..MaxOps]
    /\ tail \in [Docs -> Seq(Task)] /\ finishing \in [Docs -> SUBSET (1..MaxOps)]
    /\ window \in Windows /\ open \in BOOLEAN /\ ackRoute \in SUBSET Op
    /\ inFlight \in [Docs -> 0..MaxOps] /\ waiting \in Seq(Op)
    /\ \A i, j \in DOMAIN waiting : waiting[i].doc = waiting[j].doc => i = j
    /\ refused \in SUBSET Docs /\ retryTimer \in BOOLEAN
    /\ c2r \in Seq([t: {"append", "confirm"}, op: Op])
    /\ r2c \in Seq([t: {"ack", "refused"}, op: Op])
    /\ log \in [Docs -> Seq(1..MaxOps)] /\ receipts \in SUBSET Op
    /\ closes \in Nat /\ refusals \in Nat

\* An operation waits only while the window is full: no answer's freed place is lost.
NoLostWakeup == waiting # <<>> => open /\ Cardinality(InFlight(inFlight)) = window

OnWire(op) ==
    \/ \E i \in DOMAIN c2r : c2r[i] = Msg("append", op)
    \/ \E i \in DOMAIN r2c : r2c[i].op = op

\* A queued operation always has a next step while the socket is open: a task of its engine, a
\* message whose answer finds its way back, a place to wait in or an armed retry.  Nothing else
\* would send it until a reconnect.
NothingStalls ==
    open => \A d \in Docs : head[d] # 0 =>
        \/ \E i \in DOMAIN tail[d] : tail[d][i].n = head[d]
        \/ OnWire(OpOf(d, head[d])) /\ OpOf(d, head[d]) \in ackRoute
        \/ \E i \in DOMAIN waiting : waiting[i] = OpOf(d, head[d])
        \/ d \in refused /\ retryTimer

\* `The relay applies an outbox id once` (doc-sync.ts:219).
RelayAppliesOnce ==
    \A d \in Docs : \A i, j \in DOMAIN log[d] : log[d][i] = log[d][j] => i = j

\* With a place for every document a retransmission keeps its turn in the socket's order, and
\* the relay stores no operation twice.
RoomyAppliesOnce == window >= Cardinality(Docs) => RelayAppliesOnce

=============================================================================
