------------------------ MODULE OutboxDelivery_proofs ------------------------
(***************************************************************************)
(* Theorems about OutboxDelivery for any edits and any bounds.             *)
(***************************************************************************)
EXTENDS OutboxDelivery, TLAPS, FiniteSetTheorems, SequenceTheorems

\* What a task carries follows from its kind.
LEMMA TaskKinds ==
    ASSUME NEW task \in Task
    PROVE  /\ task.t = "save" => task \in SaveTask
           /\ task.t = "resume" => task \in ResumeTask
           /\ task.t = "enqueue" => task \in EnqueueTask
           /\ task.t = "mark" => task \in MarkTask
           /\ task.t = "commit" => task \in CommitTask
BY DEF Task, SaveTask, ResumeTask, EnqueueTask, MarkTask, CommitTask

\* The tasks the engine makes are tasks.
LEMMA MadeTasks ==
    /\ \A op \in Op, b \in {"drain", "resend"} : MarkOf(op, b) \in Task
    /\ \A d : DrainTasks(d) \in Seq(Task)
    /\ \A q \in Seq(Op) : \A d : ResendTasks(q, d) \in Seq(Task)
<1>1. \A op \in Op, b \in {"drain", "resend"} : MarkOf(op, b) \in Task
  BY DEF MarkOf, Task, MarkTask
<1>2. [t |-> "resume"] \in Task
  BY DEF Task, ResumeTask
<1>3. \A d : DrainTasks(d) \in Seq(Task)
  BY <1>2 DEF DrainTasks
<1>4. \A q \in Seq(Op) : \A d : ResendTasks(q, d) \in Seq(Task)
  <2> TAKE q \in Seq(Op)
  <2> TAKE d
  <2>1. CASE q # <<>>
    <3>1. MarkOf(Head(q), "resend") \in Task
      BY <1>1, <2>1, HeadTailProperties
    <3> QED
      BY <2>1, <3>1 DEF ResendTasks
  <2>2. CASE q = <<>>
    BY <1>3, <2>2 DEF ResendTasks
  <2> QED
    BY <2>1, <2>2
<1> QED
  BY <1>1, <1>3, <1>4

-----------------------------------------------------------------------------
\* Every queue starts empty.
LEMMA Empties ==
    /\ <<>> \in Seq(Op) /\ <<>> \in Seq(Task)
    /\ <<>> \in Seq(ClientMessage) /\ <<>> \in Seq(ServerMessage)
    /\ NoOp \in Op
<1>1. NoOp \in Op
  BY DEF NoOp, Op
<1> QED
  BY <1>1, EmptySeq

\* A fresh engine has the shapes of an engine.
LEMMA ForgetTypes ==
    ASSUME Forget
    PROVE  /\ phase' = "down" /\ doc' \in SUBSET Edits /\ synced' \in SUBSET Inserts
           /\ snap' \in SUBSET Edits /\ known' \in BOOLEAN /\ queue' \in Seq(Op)
           /\ captured' \in SUBSET Nat /\ recovered' \in SUBSET Edits
           /\ active' \in SUBSET Edits /\ timer' \in BOOLEAN /\ drain' = "idle"
           /\ draft' \in Op /\ tail' \in Seq(Task)
<1>1. queue' \in Seq(Op)
  BY Empties DEF Forget
<1>2. tail' \in Seq(Task)
  BY Empties DEF Forget
<1>3. draft' \in Op
  BY Empties DEF Forget
<1> QED
  BY <1>1, <1>2, <1>3 DEF Forget

LEMMA Repeated ==
    ASSUME NEW S, NEW m \in S, NEW n \in Nat
    PROVE  [i \in 1..n |-> m] \in Seq(S)
OBVIOUS

\* What a transaction leaves in the document's row is a row.
LEMMA RowTypes ==
    ASSUME TypeOK, NEW task \in Task
    PROVE  /\ task.t = "save" => SaveRow(task) \in [upd: SUBSET Edits, syn: SUBSET Inserts,
                                                    tok: SUBSET Edits]
           /\ task.t = "enqueue" => EnqueueRow(task) \in [upd: SUBSET Edits, syn: SUBSET Inserts,
                                                          tok: SUBSET Edits]
           /\ task.t = "commit" => CommitRow(task) \in [upd: SUBSET Edits, syn: SUBSET Inserts,
                                                        tok: SUBSET Edits]
<1> DEFINE Row == [upd: SUBSET Edits, syn: SUBSET Inserts, tok: SUBSET Edits]
<1>1. row \in Row
  BY DEF TypeOK
<1>2. \A upd \in SUBSET Edits, syn \in SUBSET Inserts : MergeRow(upd, syn) \in Row
  BY <1>1 DEF MergeRow
<1>3. ASSUME task.t = "save" PROVE SaveRow(task) \in Row
  <2>1. task \in SaveTask
    BY <1>3, TaskKinds
  <2>2. MergeRow(task.upd, task.syn) \in Row /\ task.token \in SUBSET Edits
    BY <1>2, <2>1 DEF SaveTask
  <2> QED
    BY <2>2 DEF SaveRow
<1>4. ASSUME task.t = "enqueue" PROVE EnqueueRow(task) \in Row
  <2>1. task \in EnqueueTask
    BY <1>4, TaskKinds
  <2>2. MergeRow(task.upd, task.syn) \in Row
    BY <1>2, <2>1 DEF EnqueueTask
  <2> QED
    BY <2>2 DEF EnqueueRow
<1>5. ASSUME task.t = "commit" PROVE CommitRow(task) \in Row
  <2>1. task \in CommitTask
    BY <1>5, TaskKinds
  <2>2. MergeRow(task.upd, task.syn) \in Row
    BY <1>2, <2>1 DEF CommitTask
  <2> QED
    BY <1>1, <2>2 DEF CommitRow
<1> QED
  BY <1>3, <1>4, <1>5

\* A task at the head of the cache queue is a task.
LEMMA HeadTask ==
    ASSUME TypeOK, tail # <<>>
    PROVE  Head(tail) \in Task /\ Tail(tail) \in Seq(Task)
BY HeadTailProperties DEF TypeOK

LEMMA TypeStep == TypeOK /\ [Next]_vars => TypeOK'
<1> SUFFICES ASSUME TypeOK, [Next]_vars PROVE TypeOK'
  OBVIOUS
<1>q. /\ queue \in Seq(Op) /\ tail \in Seq(Task) /\ log \in Seq(Op)
      /\ c2r \in Seq(ClientMessage) /\ r2c \in Seq(ServerMessage)
  BY DEF TypeOK
<1>1. CASE Start
  BY <1>1 DEF Start, TypeOK, memory, disk, wire, relay, bounds
<1>2. CASE Ready
  <2>1. queue' \in Seq(Op)
    <3>1. PICK q \in InOrder(rows) : queue' = q
      BY <1>2 DEF Ready
    <3>2. Cardinality(rows) \in Nat
      BY FS_CardinalityType DEF TypeOK
    <3>3. q \in [1..Cardinality(rows) -> rows] /\ rows \in SUBSET Op
      BY <3>1 DEF InOrder, TypeOK
    <3> QED
      BY <3>1, <3>2, <3>3
  <2>2. tail' \in Seq(Task) /\ drain' \in {"idle", "tail", "sealing", "storing", "sending"}
    <3>1. CASE ResyncsDue = 0
      BY <1>2, <3>1 DEF Ready, TypeOK
    <3>2. CASE ResyncsDue # 0 /\ queue' = <<>>
      <4>1. tail' = tail \o DrainTasks(drain)
        BY <1>2, <3>2 DEF Ready
      <4>2. drain' \in {drain, "tail"}
        BY <1>2, <3>2 DEF Ready, ResendDrain, Draining
      <4> QED
        BY <4>1, <4>2, MadeTasks, ConcatProperties DEF TypeOK
    <3>3. CASE ResyncsDue # 0 /\ queue' # <<>>
      <4> DEFINE again == [i \in 1..ResyncsDue |-> MarkOf(Head(queue'), "resend")]
      <4>1. tail' = tail \o again /\ drain' = drain
        BY <1>2, <3>3 DEF Ready, ResendDrain
      <4>2. MarkOf(Head(queue'), "resend") \in Task
        BY <2>1, <3>3, MadeTasks, HeadTailProperties
      <4>3. ResyncsDue \in Nat
        BY DEF ResyncsDue, TypeOK
      <4>4. again \in Seq(Task)
        BY <4>2, <4>3, Repeated
      <4> QED
        BY <4>1, <4>4, ConcatProperties DEF TypeOK
    <3> QED
      BY <3>1, <3>2, <3>3
  <2> QED
    BY <1>2, <2>1, <2>2 DEF Ready, BaselineKnown, TypeOK, disk, wire, relay, bounds
<1>3. CASE Retire
  <2>1. UNCHANGED <<disk, open, opens, retryTimer, wire, relay, nextId, bounds>> /\ Forget
    BY <1>3 DEF Retire
  <2> QED
    BY <2>1, ForgetTypes DEF TypeOK, disk, wire, relay, bounds
<1>4. ASSUME NEW e \in Edits, Edit(e) PROVE TypeOK'
  <2>1. doc' \in SUBSET Edits /\ active' \in SUBSET Edits
    BY <1>4 DEF Edit, TypeOK
  <2>2. tail' \in Seq(Task)
    <3> DEFINE task == [t |-> "save", upd |-> doc', syn |-> synced, token |-> {e},
                        superseded |-> active]
    <3>1. task \in Task
      BY <2>1 DEF Task, SaveTask, TypeOK
    <3> QED
      BY <1>4, <3>1 DEF Edit, TypeOK
  <2> QED
    BY <1>4, <2>1, <2>2 DEF Edit, TypeOK, disk, wire, relay, bounds
<1>5. CASE FireTimer
  <2>1. tail' \in Seq(Task)
    BY <1>5, MadeTasks, ConcatProperties DEF FireTimer, TypeOK
  <2> QED
    BY <1>5, <2>1 DEF FireTimer, Draining, TypeOK, disk, wire, relay, bounds
<1>6. CASE RunResume
  <2>1. Diff \in SUBSET Edits /\ TokensToSettle \in SUBSET Edits /\ doc \cap Inserts \in SUBSET Inserts
    BY DEF Diff, TokensToSettle, TypeOK, Edits
  <2>2. draft' \in Op /\ nextId' \in Nat /\ active' \in SUBSET Edits
    BY <1>6, <2>1 DEF RunResume, TypeOK, Op
  <2>3. drain' \in {"idle", "sealing"} /\ tail' \in Seq(Task)
    BY <1>6, HeadTask DEF RunResume
  <2> QED
    BY <1>6, <2>2, <2>3 DEF RunResume, TypeOK, disk, wire, relay, bounds
<1>7. CASE Sealed
  <2>1. tail' \in Seq(Task)
    <3> DEFINE task == [t |-> "enqueue", op |-> [draft EXCEPT !.sv = SealedVector],
                        upd |-> doc, syn |-> synced]
    <3>1. [draft EXCEPT !.sv = SealedVector] \in Op
      BY DEF SealedVector, TypeOK, Op
    <3>2. task \in Task
      BY <3>1 DEF Task, EnqueueTask, TypeOK
    <3> QED
      BY <1>7, <3>2 DEF Sealed, TypeOK
  <2> QED
    BY <1>7, <2>1 DEF Sealed, TypeOK, disk, wire, relay, bounds
<1>8. CASE RunSave
  <2>1. row' \in [upd: SUBSET Edits, syn: SUBSET Inserts, tok: SUBSET Edits]
    BY <1>8, HeadTask, RowTypes DEF RunSave
  <2>2. tail' \in Seq(Task)
    BY <1>8, HeadTask DEF RunSave
  <2> QED
    BY <1>8, <2>1, <2>2 DEF RunSave, TypeOK, memory, wire, relay, bounds
<1>9. CASE RunEnqueue
  <2> DEFINE op == Head(tail).op
  <2>1. Head(tail) \in EnqueueTask /\ Tail(tail) \in Seq(Task) /\ Head(tail) \in Task
    BY <1>9, HeadTask, TaskKinds DEF RunEnqueue
  <2>2. op \in Op /\ MarkOf(op, "drain") \in Task
    BY <2>1, MadeTasks DEF EnqueueTask
  <2>3. row' \in [upd: SUBSET Edits, syn: SUBSET Inserts, tok: SUBSET Edits]
    BY <1>9, <2>1, RowTypes DEF RunEnqueue
  <2>4. rows' \in SUBSET Op /\ IsFiniteSet(rows')
    BY <1>9, <2>2, FS_AddElement DEF RunEnqueue, TypeOK
  <2>5. tail' \in Seq(Task) /\ queue' \in Seq(Op)
    BY <1>9, <2>1, <2>2 DEF RunEnqueue, TypeOK
  <2>6. recovered' \in SUBSET Edits /\ captured' \in SUBSET Nat
    BY <1>9, <2>2 DEF RunEnqueue, TypeOK, Op
  <2> QED
    BY <1>9, <2>3, <2>4, <2>5, <2>6 DEF RunEnqueue, TypeOK, wire, relay, bounds
<1>10. CASE RunMark
  <2> DEFINE op == Head(tail).op
  <2>1. Head(tail) \in MarkTask /\ Tail(tail) \in Seq(Task)
    BY <1>10, HeadTask, TaskKinds DEF RunMark
  <2>2. Append1(op) \in ClientMessage
    BY <2>1 DEF MarkTask, Append1, ClientMessage
  <2>3. c2r' \in Seq(ClientMessage)
    <3>1. c2r' = Append(c2r, Append1(op)) \/ c2r' = c2r
      BY <1>10 DEF RunMark, Send
    <3>2. Append(c2r, Append1(op)) \in Seq(ClientMessage)
      BY <1>q, <2>2, AppendProperties
    <3> QED
      BY <1>q, <3>1, <3>2
  <2> QED
    BY <1>10, <2>1, <2>3 DEF RunMark, TypeOK, disk, relay, bounds
<1>11. CASE RunCommit
  <2> DEFINE task == Head(tail)
  <2>1. task \in CommitTask /\ task \in Task /\ Tail(tail) \in Seq(Task) /\ task.op \in Op
    BY <1>11, HeadTask, TaskKinds DEF RunCommit, CommitTask
  <2>2. row' \in [upd: SUBSET Edits, syn: SUBSET Inserts, tok: SUBSET Edits]
    BY <1>11, <2>1, RowTypes DEF RunCommit
  <2>3. rows' \in SUBSET Op /\ IsFiniteSet(rows')
    BY <1>11, FS_Subset DEF RunCommit, CommitRows, TypeOK
  <2>4. CASE Committed(task)
    <3>1. queue' \in Seq(Op)
      <4>1. queue' = IF queue = <<>> THEN <<>> ELSE Tail(queue)
        BY <1>11, <2>4 DEF RunCommit
      <4> QED
        BY <1>q, <4>1, Empties, HeadTailProperties
    <3>2. tail' \in Seq(Task)
      <4>1. tail' = Tail(tail) \o ResendTasks(queue', drain)
        BY <1>11, <2>4 DEF RunCommit
      <4>2. ResendTasks(queue', drain) \in Seq(Task)
        BY <3>1, MadeTasks
      <4> QED
        BY <2>1, <4>1, <4>2, ConcatProperties
    <3>3. drain' \in {drain, "tail"}
      BY <1>11, <2>4 DEF RunCommit, ResendDrain, Draining
    <3>4. Confirm(task.op.id) \in ClientMessage
      BY <2>1 DEF Confirm, ClientMessage, Op
    <3>5. c2r' \in Seq(ClientMessage)
      <4>1. c2r' = Append(c2r, Confirm(task.op.id)) \/ c2r' = c2r
        BY <1>11, <2>4 DEF RunCommit, Send
      <4>2. Append(c2r, Confirm(task.op.id)) \in Seq(ClientMessage)
        BY <1>q, <3>4, AppendProperties
      <4> QED
        BY <1>q, <4>1, <4>2
    <3>6. /\ known' \in BOOLEAN /\ snap' \in SUBSET Edits /\ captured' \in SUBSET Nat
          /\ synced' \in SUBSET Inserts /\ retryTimer' \in BOOLEAN
      BY <1>11, <2>1, <2>4 DEF RunCommit, TypeOK, Op
    <3> QED
      BY <1>11, <2>2, <2>3, <3>1, <3>2, <3>3, <3>5, <3>6 DEF RunCommit, TypeOK, relay, bounds
  <2>5. CASE ~Committed(task)
    BY <1>11, <2>1, <2>2, <2>3, <2>5 DEF RunCommit, TypeOK, relay, bounds
  <2> QED
    BY <2>4, <2>5
<1>12. CASE Open
  <2>1. CASE phase = "up"
    <3>1. tail' \in Seq(Task) /\ drain' \in {drain, "tail"}
      <4>1. tail' = tail \o ResendTasks(queue, drain) /\ drain' = ResendDrain(queue, drain)
        BY <1>12, <2>1 DEF Open
      <4>2. ResendTasks(queue, drain) \in Seq(Task)
        BY <1>q, MadeTasks
      <4> QED
        BY <1>q, <4>1, <4>2, ConcatProperties DEF ResendDrain, Draining
    <3> QED
      BY <1>12, <2>1, <3>1 DEF Open, TypeOK, disk, wire, relay, bounds
  <2>2. CASE phase # "up"
    BY <1>12, <2>2 DEF Open, TypeOK, disk, wire, relay, bounds
  <2> QED
    BY <2>1, <2>2
<1>13. CASE Close
  <2>1. c2r' \in Seq(ClientMessage) /\ r2c' \in Seq(ServerMessage)
    BY <1>13, Empties DEF Close
  <2>2. closes' \in Nat
    BY <1>13 DEF Close, TypeOK
  <2>4. open' = FALSE
    BY <1>13 DEF Close
  <2>3. UNCHANGED <<phase, memory, tail, disk, opens, retryTimer, relay, nextId, crashes,
                    refusals>>
    BY <1>13 DEF Close
  <2> QED
    BY <2>1, <2>2, <2>3, <2>4 DEF TypeOK, memory, disk, relay
<1>14. CASE Crash
  <2>1. /\ row' \in [upd: SUBSET Edits, syn: SUBSET Inserts, tok: SUBSET Edits]
        /\ rows' \in SUBSET Op /\ IsFiniteSet(rows')
    <3>1. CASE UNCHANGED disk
      BY <3>1 DEF disk, TypeOK
    <3>2. CASE tail # <<>> /\ row' = Landed(Head(tail))[1] /\ rows' = Landed(Head(tail))[2]
      <4> DEFINE task == Head(tail)
      <4>1. task \in Task
        BY <3>2, HeadTask
      <4>2. CASE task.t = "save"
        BY <3>2, <4>1, <4>2, RowTypes DEF Landed, TypeOK
      <4>3. CASE task.t = "enqueue"
        <5>1. task.op \in Op
          BY <4>1, <4>3, TaskKinds DEF EnqueueTask
        <5> QED
          BY <3>2, <4>1, <4>3, <5>1, RowTypes, FS_AddElement DEF Landed, TypeOK
      <4>4. CASE task.t = "commit"
        <5>1. CommitRows(task) \subseteq rows
          BY DEF CommitRows
        <5> QED
          BY <3>2, <4>1, <4>4, <5>1, RowTypes, FS_Subset DEF Landed, TypeOK
      <4>5. CASE task.t \notin {"save", "enqueue", "commit"}
        BY <3>2, <4>5 DEF Landed, TypeOK
      <4> QED
        BY <4>2, <4>3, <4>4, <4>5
    <3> QED
      BY <1>14, <3>1, <3>2 DEF Crash
  <2> QED
    <3>1. c2r' \in Seq(ClientMessage) /\ r2c' \in Seq(ServerMessage)
      BY <1>14, Empties DEF Crash
    <3>2. crashes' \in Nat
      BY <1>14 DEF Crash, TypeOK
    <3>3. /\ open' = FALSE /\ opens' = 0 /\ retryTimer' = FALSE
          /\ UNCHANGED <<relay, nextId, closes, refusals>> /\ Forget
      BY <1>14 DEF Crash
    <3> QED
      BY <2>1, <3>1, <3>2, <3>3, ForgetTypes DEF TypeOK, relay
<1>15. CASE RelayAppend
  <2> DEFINE op == Head(c2r).op
  <2>1. op \in Op /\ Tail(c2r) \in Seq(ClientMessage)
    BY <1>15, HeadTailProperties DEF RelayAppend, TypeOK, ClientMessage
  <2>2. Ack(op.id) \in ServerMessage
    BY <2>1 DEF Ack, ServerMessage, Op
  <2>3. log' \in Seq(Op) /\ receipts' \in SUBSET Nat
    <3>1. Append(log, op) \in Seq(Op) /\ receipts \cup {op.id} \in SUBSET Nat
      BY <1>q, <2>1, AppendProperties DEF TypeOK, Op
    <3> QED
      BY <1>15, <1>q, <3>1 DEF RelayAppend, TypeOK, relay
  <2>4. r2c' \in Seq(ServerMessage)
    BY <1>15, <2>2 DEF RelayAppend, TypeOK
  <2> QED
    BY <1>15, <2>1, <2>3, <2>4 DEF RelayAppend, TypeOK, memory, disk, bounds
<1>16. CASE RelayRefuse
  <2>1. Head(c2r).op \in Op /\ Tail(c2r) \in Seq(ClientMessage)
    BY <1>16, HeadTailProperties DEF RelayRefuse, TypeOK, ClientMessage
  <2>2. Refused(Head(c2r).op.id) \in ServerMessage
    BY <2>1 DEF Refused, ServerMessage, Op
  <2> QED
    BY <1>16, <2>1, <2>2 DEF RelayRefuse, TypeOK, memory, disk, relay
<1>17. CASE RelayConfirm
  <2>1. Tail(c2r) \in Seq(ClientMessage)
    BY <1>17, HeadTailProperties DEF RelayConfirm, TypeOK
  <2> QED
    BY <1>17, <2>1 DEF RelayConfirm, TypeOK, memory, disk, bounds
<1>18. CASE ReceiveAck
  <2>1. Tail(r2c) \in Seq(ServerMessage)
    BY <1>18, HeadTailProperties DEF ReceiveAck, TypeOK
  <2>2. tail' \in Seq(Task)
    <3>1. CASE AcksHead(Head(r2c).id)
      <4>1. Head(queue) \in Op
        BY <3>1, HeadTailProperties DEF AcksHead, TypeOK
      <4>2. AckedVector \in SUBSET Inserts
        BY <4>1 DEF AckedVector, TypeOK, Op
      <4> DEFINE commit == [t |-> "commit", op |-> Head(queue), upd |-> doc,
                            syn |-> AckedVector]
      <4>3. commit \in Task
        BY <4>1, <4>2 DEF Task, CommitTask, TypeOK
      <4>4. Append(tail, commit) \in Seq(Task)
        BY <1>q, <4>3, AppendProperties
      <4> QED
        BY <1>18, <3>1, <4>4 DEF ReceiveAck
    <3>2. CASE ~AcksHead(Head(r2c).id)
      BY <1>18, <3>2 DEF ReceiveAck, TypeOK
    <3> QED
      BY <3>1, <3>2
  <2> QED
    BY <1>18, <2>1, <2>2 DEF ReceiveAck, TypeOK, memory, disk, relay, bounds
<1>19. CASE ReceiveRefusal
  <2>1. Tail(r2c) \in Seq(ServerMessage)
    BY <1>19, HeadTailProperties DEF ReceiveRefusal, TypeOK
  <2> QED
    BY <1>19, <2>1 DEF ReceiveRefusal, TypeOK, memory, disk, relay, bounds
<1>20. CASE RetryRefused
  <2>1. tail' \in Seq(Task)
    <3>1. CASE open /\ phase = "up" /\ queue # <<>>
      <4>1. MarkOf(Head(queue), "resend") \in Task
        BY <3>1, MadeTasks, HeadTailProperties DEF TypeOK
      <4>2. Append(tail, MarkOf(Head(queue), "resend")) \in Seq(Task)
        BY <1>q, <4>1, AppendProperties
      <4> QED
        BY <1>20, <3>1, <4>2 DEF RetryRefused
    <3>2. CASE ~(open /\ phase = "up" /\ queue # <<>>)
      BY <1>20, <3>2 DEF RetryRefused, TypeOK
    <3> QED
      BY <3>1, <3>2
  <2> QED
    BY <1>20, <2>1 DEF RetryRefused, TypeOK, memory, disk, wire, relay, bounds
<1>21. CASE UNCHANGED vars
  BY <1>21 DEF vars, memory, disk, wire, relay, bounds, TypeOK
<1> QED
  BY <1>1, <1>2, <1>3, <1>4, <1>5, <1>6, <1>7, <1>8, <1>9, <1>10, <1>11, <1>12, <1>13, <1>14,
     <1>15, <1>16, <1>17, <1>18, <1>19, <1>20, <1>21 DEF Next, RunTask, Relay, Receive

\* The engine, its cache, the socket and the relay keep the shapes the code gives them, for any
\* document and any number of operations, lost sockets, killed tabs and refusals.
THEOREM TypeCorrect == Spec => []TypeOK
<1>1. Init => TypeOK
  <2> SUFFICES ASSUME Init PROVE TypeOK
    OBVIOUS
  <2>1. /\ queue \in Seq(Op) /\ tail \in Seq(Task) /\ draft \in Op /\ log \in Seq(Op)
        /\ c2r \in Seq(ClientMessage) /\ r2c \in Seq(ServerMessage)
    BY Empties DEF Init
  <2>2. rows \in SUBSET Op /\ IsFiniteSet(rows)
    BY FS_EmptySet DEF Init
  <2>3. /\ phase = "down" /\ doc = {} /\ synced = {} /\ snap = {} /\ known = FALSE
        /\ captured = {} /\ recovered = {} /\ active = {} /\ timer = FALSE /\ drain = "idle"
        /\ row = [upd |-> {}, syn |-> {}, tok |-> {}] /\ open = FALSE /\ opens = 0
        /\ retryTimer = FALSE /\ receipts = {} /\ nextId = 1
        /\ closes = 0 /\ crashes = 0 /\ refusals = 0
    BY DEF Init
  <2> QED
    BY <2>1, <2>2, <2>3 DEF TypeOK
<1> QED
  BY <1>1, TypeStep, PTL DEF Spec

-----------------------------------------------------------------------------
(* The relay stores every operation at most once, for any edits and any    *)
(* bounds: OutboxInv is inductive.                                         *)

\* What the cache queue must satisfy.
TailInv == OneDrain /\ DraftAlone /\ CommitsOfHead

\* What the operations themselves must satisfy, wherever they are.
RowInv == OneRow /\ NotUpYet

\* What the socket and the relay must satisfy.
WireInv == IdsAreOld /\ FinishedForGood /\ AcksAreStored /\ AtMostOnce

LEMMA ThreeParts == OutboxInv <=> TailInv /\ RowInv /\ WireInv
BY DEF OutboxInv, TailInv, RowInv, WireInv

-----------------------------------------------------------------------------
(* The cache queue.  `k` tasks left its front and what is at its end is new. *)

LEMMA StageOfKinds ==
    /\ \A task : Stage(task) # "none" => task.t \in {"resume", "enqueue", "mark"}
    /\ \A task : task.t = "resume" => Stage(task) = "tail"
    /\ \A task : task.t = "enqueue" => Stage(task) = "storing"
    /\ \A task : task.t = "mark" => Stage(task) = IF task.by = "drain" THEN "sending" ELSE "none"
BY DEF Stage

\* Tasks of no drain may be added at any time.
LEMMA TailKept ==
    ASSUME TailInv, tail \in Seq(Task), NEW k \in {0, 1},
           \A i \in Places(tail') :
               \/ i + k \in Places(tail) /\ tail'[i] = tail[i + k]
               \/ /\ i + k > Len(tail) /\ Stage(tail'[i]) = "none"
                  /\ tail'[i].t \notin {"enqueue", "commit"},
           UNCHANGED <<drain, draft, nextId, log>>,
           \/ queue' \in {queue, <<>>}
           \/ ~Drafting /\ \A i \in Places(tail) : tail[i].t # "commit"
    PROVE  TailInv'
<1> DEFINE Kept(i) == i + k \in Places(tail) /\ tail'[i] = tail[i + k]
<1>1. \A i \in Places(tail') : Stage(tail'[i]) # "none" => Kept(i)
  OBVIOUS
<1>2. \A i \in Places(tail') : tail'[i].t \in {"enqueue", "commit"} => Kept(i)
  OBVIOUS
<1>3. \A i \in Places(tail') : i \in Int
  BY DEF Places
<1> HIDE DEF Kept
<1>4. OneDrain'
  <2>1. \A i \in Places(tail') : Stage(tail'[i]) # "none" => drain = Stage(tail'[i])
    BY <1>1 DEF Kept, TailInv, OneDrain
  <2>2. \A i, j \in Places(tail') :
            Stage(tail'[i]) # "none" /\ Stage(tail'[j]) # "none" => j = i
    <3> TAKE i, j \in Places(tail')
    <3> HAVE Stage(tail'[i]) # "none" /\ Stage(tail'[j]) # "none"
    <3>1. Kept(i) /\ Kept(j)
      BY <1>1
    <3>2. i + k = j + k
      BY <3>1 DEF Kept, TailInv, OneDrain
    <3> QED
      BY <1>3, <3>2
  <2> QED
    BY <2>1, <2>2 DEF OneDrain
<1>5. DraftAlone'
  BY <1>2 DEF Kept, TailInv, DraftAlone, Drafting
<1>6. CommitsOfHead'
  <2> SUFFICES ASSUME NEW i \in Places(tail'), tail'[i].t = "commit"
               PROVE  /\ tail'[i].op.id \in Stored
                      /\ queue' # <<>> => tail'[i].op.id = Head(queue').id
                      /\ Drafting => tail'[i].op.id # draft.id
                      /\ \A j \in Places(tail') : tail'[j].t = "enqueue" => i < j
    BY DEF CommitsOfHead, Stored, Drafting
  <2>1. Kept(i)
    BY <1>2
  <2>2. /\ tail'[i].op.id \in Stored
        /\ queue' # <<>> => tail'[i].op.id = Head(queue').id
        /\ Drafting => tail'[i].op.id # draft.id
    BY <2>1 DEF Kept, TailInv, CommitsOfHead
  <2>3. ASSUME NEW j \in Places(tail'), tail'[j].t = "enqueue" PROVE i < j
    <3>1. Kept(j)
      BY <1>2, <2>3
    <3>2. i + k < j + k
      BY <2>1, <3>1, <2>3 DEF Kept, TailInv, CommitsOfHead
    <3> QED
      BY <1>3, <3>2
  <2> QED
    BY <2>2, <2>3
<1> QED
  BY <1>4, <1>5, <1>6 DEF TailInv

\* A drain may be asked for when there is none.
LEMMA DrainAsked ==
    ASSUME TailInv, tail \in Seq(Task), NEW k \in {0, 1}, drain = "idle", drain' = "tail",
           \A i \in Places(tail') :
               \/ i + k \in Places(tail) /\ tail'[i] = tail[i + k]
               \/ i = Len(tail') /\ tail'[i] = [t |-> "resume"],
           UNCHANGED <<draft, nextId, log>>,
           \/ queue' \in {queue, <<>>}
           \/ ~Drafting /\ \A i \in Places(tail) : tail[i].t # "commit"
    PROVE  TailInv'
<1> DEFINE Kept(i) == i + k \in Places(tail) /\ tail'[i] = tail[i + k]
<1>0. \A i \in Places(tail) : Stage(tail[i]) = "none"
  BY DEF TailInv, OneDrain, Stage
<1>1. \A i \in Places(tail') : Stage(tail'[i]) # "none" => i = Len(tail') /\ Stage(tail'[i]) = "tail"
  BY <1>0, StageOfKinds
<1>2. \A i \in Places(tail') : tail'[i].t \in {"enqueue", "commit"} => Kept(i)
  OBVIOUS
<1>3. \A i \in Places(tail') : tail'[i].t # "enqueue"
  BY <1>1, StageOfKinds
<1>4. OneDrain'
  BY <1>1 DEF OneDrain
<1>5. DraftAlone'
  BY <1>3 DEF DraftAlone, Drafting
<1>6. CommitsOfHead'
  <2> SUFFICES ASSUME NEW i \in Places(tail'), tail'[i].t = "commit"
               PROVE  /\ tail'[i].op.id \in Stored
                      /\ queue' # <<>> => tail'[i].op.id = Head(queue').id
    BY <1>3 DEF CommitsOfHead, Stored, Drafting
  <2> QED
    BY <1>2 DEF TailInv, CommitsOfHead
<1> QED
  BY <1>4, <1>5, <1>6 DEF TailInv

-----------------------------------------------------------------------------
(* The shape of the queues a step leaves, place by place.                  *)

LEMMA TailPlaces ==
    ASSUME NEW S, NEW s \in Seq(S), s # <<>>
    PROVE  /\ Len(Tail(s)) = Len(s) - 1
           /\ \A i \in Places(Tail(s)) : i + 1 \in Places(s) /\ Tail(s)[i] = s[i + 1]
BY HeadTailProperties DEF Places

LEMMA AppendPlaces ==
    ASSUME NEW S, NEW s \in Seq(S), NEW e \in S
    PROVE  /\ Len(Append(s, e)) = Len(s) + 1
           /\ \A i \in Places(Append(s, e)) :
               \/ i \in Places(s) /\ Append(s, e)[i] = s[i]
               \/ i = Len(s) + 1 /\ Append(s, e)[i] = e
BY AppendProperties DEF Places

LEMMA ConcatPlaces ==
    ASSUME NEW S, NEW s \in Seq(S), NEW u \in Seq(S)
    PROVE  /\ Len(s \o u) = Len(s) + Len(u)
           /\ \A i \in Places(s \o u) :
               \/ i \in Places(s) /\ (s \o u)[i] = s[i]
               \/ i - Len(s) \in Places(u) /\ (s \o u)[i] = u[i - Len(s)]
BY ConcatProperties, LenProperties DEF Places

-----------------------------------------------------------------------------
(* The socket and the relay.                                               *)

\* Messages may leave the socket, and nothing new may come alive.
LEMMA WireKept ==
    ASSUME WireInv, NEW k \in {0, 1},
           \A i \in Places(c2r') : i + k \in Places(c2r) /\ c2r'[i] = c2r[i + k],
           \A i \in Places(r2c') : r2c'[i].t = "ack" => r2c'[i].id \in Stored,
           UNCHANGED <<log, receipts, nextId>>,
           Live' \subseteq Live, Ids(rows') \subseteq 1..(nextId - 1)
    PROVE  WireInv'
<1>1. Stored' = Stored
  BY DEF Stored
<1>2. IdsAreOld'
  <2>1. \A i \in Places(c2r') :
            /\ c2r'[i].t = "append" => c2r'[i].op.id \in 1..(nextId - 1)
            /\ c2r'[i].t = "confirm" => c2r'[i].id \in 1..(nextId - 1)
    BY DEF WireInv, IdsAreOld
  <2>2. Stored \cup receipts \subseteq 1..(nextId - 1) /\ nextId \in Nat \ {0}
    BY DEF WireInv, IdsAreOld
  <2> QED
    BY <1>1, <2>1, <2>2 DEF IdsAreOld
<1>3. FinishedForGood'
  <2>1. Live' \cap (Stored \ receipts) = {}
    BY DEF WireInv, FinishedForGood
  <2>2. \A i \in Places(c2r') : c2r'[i].t = "confirm" => c2r'[i].id \notin Live'
    BY DEF WireInv, FinishedForGood
  <2>3. ASSUME NEW i \in Places(c2r'), c2r'[i].t = "append"
        PROVE  /\ c2r'[i].op.id \notin Stored \ receipts
               /\ \A j \in Places(c2r') :
                    c2r'[j].t = "confirm" /\ j < i => c2r'[j].id # c2r'[i].op.id
    <3>1. c2r'[i].op.id \notin Stored \ receipts
      BY <2>3 DEF WireInv, FinishedForGood
    <3>2. ASSUME NEW j \in Places(c2r'), c2r'[j].t = "confirm", j < i
          PROVE  c2r'[j].id # c2r'[i].op.id
      <4>1. j + k < i + k
        BY <3>2 DEF Places
      <4> QED
        BY <2>3, <3>2, <4>1 DEF WireInv, FinishedForGood
    <3> QED
      BY <3>1, <3>2
  <2> QED
    BY <1>1, <2>1, <2>2, <2>3 DEF FinishedForGood
<1>4. AcksAreStored'
  BY <1>1 DEF WireInv, AcksAreStored
<1>5. AtMostOnce'
  BY DEF WireInv, AtMostOnce
<1> QED
  BY <1>2, <1>3, <1>4, <1>5 DEF WireInv

\* Nothing is new when the queue and the rows are what they were.
LEMMA LiveKept ==
    ASSUME UNCHANGED <<rows, queue, draft>>, Drafting' => Drafting
    PROVE  Live' \subseteq Live
BY DEF Live

\* The rows a document has are older than the next id.
LEMMA RowsAreOld ==
    ASSUME WireInv, UNCHANGED rows
    PROVE  Ids(rows') \subseteq 1..(nextId - 1)
BY DEF WireInv, IdsAreOld

LEMMA AcksKept ==
    ASSUME WireInv, UNCHANGED r2c
    PROVE  \A i \in Places(r2c') : r2c'[i].t = "ack" => r2c'[i].id \in Stored
BY DEF WireInv, AcksAreStored

\* A step that touches neither the socket nor the relay.
LEMMA WireUnchanged ==
    ASSUME WireInv, UNCHANGED <<wire, relay, nextId>>,
           Live' \subseteq Live, Ids(rows') \subseteq 1..(nextId - 1)
    PROVE  WireInv'
<1>1. UNCHANGED <<c2r, r2c, log, receipts, nextId>>
  BY DEF wire, relay
<1>2. \A i \in Places(c2r') : i + 0 \in Places(c2r) /\ c2r'[i] = c2r[i + 0]
  BY <1>1 DEF Places
<1>3. \A i \in Places(r2c') : r2c'[i].t = "ack" => r2c'[i].id \in Stored
  BY <1>1, AcksKept
<1> QED
  BY <1>1, <1>2, <1>3, WireKept

-----------------------------------------------------------------------------
(* One lemma per action.                                                   *)

LEMMA StartKeeps == ASSUME TypeOK, OutboxInv, Start PROVE OutboxInv'
<1>1. /\ UNCHANGED <<wire, relay, nextId, rows, queue, draft, drain, tail, log>>
      /\ phase = "down" /\ phase' = "loading"
  BY DEF Start, memory, disk, relay
<1>2. TailInv'
  <2>1. \A i \in Places(tail') : i + 0 \in Places(tail) /\ tail'[i] = tail[i + 0]
    BY <1>1 DEF Places
  <2> QED
    BY <1>1, <2>1, TailKept, ThreeParts DEF TypeOK
<1>3. RowInv'
  BY <1>1, ThreeParts DEF RowInv, OneRow, NotUpYet, Places
<1>4. WireInv'
  BY <1>1, LiveKept, RowsAreOld, WireUnchanged, ThreeParts DEF Drafting
<1> QED
  BY <1>2, <1>3, <1>4 DEF OutboxInv, TailInv, RowInv, WireInv

\* What a forgotten engine leaves behind.
LEMMA ForgetKeeps ==
    ASSUME OutboxInv, Forget, UNCHANGED <<log, nextId>>, \A a, b \in rows' : a = b
    PROVE  TailInv' /\ RowInv' /\ Live' = Ids(rows')
<1>1. phase' = "down" /\ queue' = <<>> /\ tail' = <<>> /\ drain' = "idle"
  BY DEF Forget
<1>2. Places(tail') = {} /\ Places(queue') = {} /\ Len(queue') = 0
  BY <1>1 DEF Places
<1>3. TailInv'
  BY <1>1, <1>2 DEF TailInv, OneDrain, DraftAlone, CommitsOfHead, Drafting
<1>4. RowInv'
  BY <1>1, <1>2 DEF RowInv, OneRow, NotUpYet
<1>5. Live' = Ids(rows')
  BY <1>1, <1>2 DEF Live, Ids, Drafting
<1> QED
  BY <1>3, <1>4, <1>5

LEMMA RetireKeeps == ASSUME TypeOK, OutboxInv, Retire PROVE OutboxInv'
<1>1. UNCHANGED <<wire, relay, nextId, rows, log>> /\ Forget
  BY DEF Retire, disk, relay
<1>2. TailInv' /\ RowInv' /\ Live' = Ids(rows')
  BY <1>1, ForgetKeeps DEF OutboxInv, OneRow
<1>3. Live' \subseteq Live
  BY <1>1, <1>2 DEF Live
<1>4. WireInv'
  BY <1>1, <1>3, RowsAreOld, WireUnchanged, ThreeParts
<1> QED
  BY <1>2, <1>4 DEF OutboxInv, TailInv, RowInv, WireInv

LEMMA EditKeeps == ASSUME TypeOK, OutboxInv, NEW e \in Edits, Edit(e) PROVE OutboxInv'
<1> DEFINE save == [t |-> "save", upd |-> doc', syn |-> synced, token |-> {e},
                    superseded |-> active]
<1>1. /\ UNCHANGED <<wire, relay, nextId, rows, queue, draft, drain, phase, log>>
      /\ tail' = Append(tail, save)
  BY DEF Edit, disk, relay
<1>2. save \in Task /\ save.t = "save" /\ Stage(save) = "none"
  <2>1. doc' \in SUBSET Edits /\ active \in SUBSET Edits /\ synced \in SUBSET Inserts
    BY DEF Edit, TypeOK
  <2> QED
    BY <2>1 DEF Task, SaveTask, Stage
<1> HIDE DEF save
<1>3. \A i \in Places(tail') : \/ i \in Places(tail) /\ tail'[i] = tail[i]
                               \/ i = Len(tail) + 1 /\ tail'[i] = save
  <2>1. tail \in Seq(Task)
    BY DEF TypeOK
  <2> QED
    BY <1>1, <1>2, <2>1, AppendPlaces
<1>4. TailInv'
  <2>1. \A i \in Places(tail') :
            \/ i + 0 \in Places(tail) /\ tail'[i] = tail[i + 0]
            \/ /\ i + 0 > Len(tail) /\ Stage(tail'[i]) = "none"
               /\ tail'[i].t \notin {"enqueue", "commit"}
    BY <1>2, <1>3, LenProperties DEF Places, TypeOK
  <2> QED
    BY <1>1, <2>1, TailKept, ThreeParts DEF TypeOK
<1>5. RowInv'
  <2>1. phase # "up" => \A i \in Places(tail') : tail'[i].t \in {"save", "resume"}
    BY <1>2, <1>3, ThreeParts DEF RowInv, NotUpYet
  <2> QED
    BY <1>1, <2>1, ThreeParts DEF RowInv, OneRow, NotUpYet
<1>6. WireInv'
  BY <1>1, LiveKept, RowsAreOld, WireUnchanged, ThreeParts DEF Drafting
<1> QED
  BY <1>4, <1>5, <1>6 DEF OutboxInv, TailInv, RowInv, WireInv

\* A drain is asked for after k tasks left the front: at once, or by the drain there is.
LEMMA Asking ==
    ASSUME TypeOK, TailInv, NEW k \in {0, 1}, NEW base \in Seq(Task),
           Len(base) = Len(tail) - k,
           \A i \in Places(base) : i + k \in Places(tail) /\ base[i] = tail[i + k],
           tail' = base \o DrainTasks(drain), drain' = Draining(drain),
           UNCHANGED <<draft, nextId, log>>,
           \/ queue' \in {queue, <<>>}
           \/ ~Drafting /\ \A i \in Places(tail) : tail[i].t # "commit"
    PROVE  /\ TailInv'
           /\ \A i \in Places(tail') : \/ i + k \in Places(tail) /\ tail'[i] = tail[i + k]
                                       \/ tail'[i].t = "resume"
<1>1. tail \in Seq(Task)
  BY DEF TypeOK
<1>2. CASE drain = "idle"
  <2> DEFINE resume == [t |-> "resume"]
  <2> DEFINE one == <<resume>>
  <2>1. tail' = base \o one /\ drain' = "tail"
    BY <1>2 DEF DrainTasks, Draining
  <2>2. one \in Seq(Task) /\ Len(one) = 1 /\ one[1] = resume /\ resume.t = "resume"
    BY DEF Task, ResumeTask
  <2> HIDE DEF one, resume
  <2>9. /\ Len(base \o one) = Len(base) + Len(one)
        /\ \A i \in Places(base \o one) :
            \/ i \in Places(base) /\ (base \o one)[i] = base[i]
            \/ i - Len(base) \in Places(one) /\ (base \o one)[i] = one[i - Len(base)]
    BY <2>2, ConcatPlaces
  <2>3. Len(base) \in Nat /\ Len(tail) \in Nat
    BY <1>1, LenProperties
  <2>4. Len(tail') = Len(base) + 1
    BY <2>1, <2>2, <2>9
  <2>5. \A i \in Places(tail') : \/ i \in Places(base) /\ tail'[i] = base[i]
                                 \/ i = Len(tail') /\ tail'[i] = resume
    <3> TAKE i \in Places(tail')
    <3>1. \/ i \in Places(base) /\ tail'[i] = base[i]
          \/ i - Len(base) \in Places(one) /\ tail'[i] = one[i - Len(base)]
      BY <2>1, <2>9
    <3>2. ASSUME i - Len(base) \in Places(one) PROVE i - Len(base) = 1 /\ i \in Int
      BY <2>2, <3>2 DEF Places
    <3>3. ASSUME i - Len(base) \in Places(one) PROVE i = Len(base) + 1
      BY <2>3, <3>2, <3>3
    <3> QED
      BY <2>2, <2>4, <3>1, <3>2, <3>3
  <2>6. \A i \in Places(tail') : \/ i + k \in Places(tail) /\ tail'[i] = tail[i + k]
                                 \/ i = Len(tail') /\ tail'[i] = [t |-> "resume"]
    BY <2>5 DEF resume
  <2>7. TailInv'
    BY <1>1, <1>2, <2>1, <2>6, DrainAsked
  <2>8. \A i \in Places(tail') : \/ i + k \in Places(tail) /\ tail'[i] = tail[i + k]
                                 \/ tail'[i].t = "resume"
    BY <2>2, <2>5
  <2> QED
    BY <2>7, <2>8
<1>3. CASE drain # "idle"
  <2>1. tail' = base /\ drain' = drain
    BY <1>3, ConcatEmptySeq DEF DrainTasks, Draining
  <2>2. \A i \in Places(tail') : i + k \in Places(tail) /\ tail'[i] = tail[i + k]
    BY <2>1
  <2>3. TailInv'
    BY <1>1, <2>1, <2>2, TailKept
  <2> QED
    BY <2>2, <2>3
<1> QED
  BY <1>2, <1>3

LEMMA FireTimerKeeps == ASSUME TypeOK, OutboxInv, FireTimer PROVE OutboxInv'
<1>1. /\ UNCHANGED <<wire, relay, nextId, rows, queue, draft, phase, log>>
      /\ tail' = tail \o DrainTasks(drain) /\ drain' = Draining(drain)
  BY DEF FireTimer, disk, relay
<1>2. /\ TailInv'
      /\ \A i \in Places(tail') : \/ i + 0 \in Places(tail) /\ tail'[i] = tail[i + 0]
                                  \/ tail'[i].t = "resume"
  <2>1. tail \in Seq(Task) /\ Len(tail) = Len(tail) - 0
    BY LenProperties DEF TypeOK
  <2>2. \A i \in Places(tail) : i + 0 \in Places(tail) /\ tail[i] = tail[i + 0]
    BY DEF Places
  <2> QED
    BY <1>1, <2>1, <2>2, Asking, ThreeParts
<1>3. RowInv'
  <2>1. phase # "up" => /\ drain' \in {"idle", "tail"}
                        /\ \A i \in Places(tail') : tail'[i].t \in {"save", "resume"}
    BY <1>1, <1>2, ThreeParts DEF RowInv, NotUpYet, Draining
  <2> QED
    BY <1>1, <2>1, ThreeParts DEF RowInv, OneRow, NotUpYet
<1>4. Drafting' => Drafting
  BY <1>1 DEF Drafting, Draining
<1>5. WireInv'
  BY <1>1, <1>4, LiveKept, RowsAreOld, WireUnchanged, ThreeParts
<1> QED
  BY <1>2, <1>3, <1>5 DEF OutboxInv, TailInv, RowInv, WireInv

LEMMA RunResumeKeeps == ASSUME TypeOK, OutboxInv, RunResume PROVE OutboxInv'
<1>1. /\ UNCHANGED <<wire, relay, rows, queue, phase, log, receipts, c2r, r2c>>
      /\ tail # <<>> /\ Head(tail).t = "resume" /\ tail' = Tail(tail)
      /\ tail \in Seq(Task) /\ phase = "up"
  BY DEF RunResume, disk, relay, wire, TypeOK
<1>2. /\ Len(tail') = Len(tail) - 1
      /\ \A i \in Places(tail') : i + 1 \in Places(tail) /\ tail'[i] = tail[i + 1]
  BY <1>1, TailPlaces
<1>3. 1 \in Places(tail) /\ Stage(tail[1]) = "tail"
  BY <1>1, StageOfKinds, EmptySeq DEF Places
<1>4. drain = "tail" /\ \A i \in Places(tail') : Stage(tail'[i]) = "none"
  <2>1. \A j \in Places(tail) : Stage(tail[j]) # "none" => j = 1
    BY <1>3 DEF OutboxInv, OneDrain
  <2>2. \A i \in Places(tail') : i + 1 # 1
    BY DEF Places
  <2> QED
    BY <1>2, <1>3, <2>1, <2>2 DEF OutboxInv, OneDrain
<1>5. \A i \in Places(tail') : tail'[i].t # "enqueue"
  BY <1>4, StageOfKinds
<1>6. \A i \in Places(tail') : tail'[i].t = "commit" =>
          tail'[i].op.id \in Stored /\ (queue # <<>> => tail'[i].op.id = Head(queue).id)
  BY <1>2 DEF OutboxInv, CommitsOfHead
<1>7. RowInv'
  BY <1>1 DEF OutboxInv, RowInv, OneRow, NotUpYet
<1>8. Stored' = Stored /\ Stored \subseteq 1..(nextId - 1) /\ nextId \in Nat \ {0}
  BY <1>1 DEF Stored, OutboxInv, IdsAreOld
<1>9. CASE drain' = "idle" /\ UNCHANGED <<draft, active, nextId>>
  <2>1. TailInv'
    BY <1>1, <1>4, <1>5, <1>6, <1>8, <1>9 DEF TailInv, OneDrain, DraftAlone, CommitsOfHead, Drafting
  <2>2. ~Drafting'
    BY <1>9 DEF Drafting
  <2>3. WireInv'
    BY <1>1, <1>9, <2>2, LiveKept, RowsAreOld, WireUnchanged, ThreeParts
  <2> QED
    BY <1>7, <2>1, <2>3 DEF OutboxInv, TailInv, RowInv, WireInv
<1>10. CASE /\ queue = <<>> /\ nextId' = nextId + 1 /\ drain' = "sealing" /\ draft'.id = nextId
  <2>1. TailInv'
    <3>0. nextId \in 1..(nextId' - 1) /\ nextId \notin Stored'
      BY <1>8, <1>10
    <3>1. DraftAlone'
      BY <1>1, <1>5, <1>10, <3>0 DEF DraftAlone
    <3>2. OneDrain'
      BY <1>4 DEF OneDrain
    <3>3. CommitsOfHead'
      BY <1>1, <1>5, <1>6, <1>8, <1>10, <3>0 DEF CommitsOfHead
    <3> QED
      BY <3>1, <3>2, <3>3 DEF TailInv
  <2>2. Live' = Ids(rows) \cup {nextId}
    BY <1>1, <1>10 DEF Live, Drafting, Places, Ids
  <2>3. Ids(rows) \subseteq Live
    BY DEF Live
  <2>4. IdsAreOld'
    BY <1>1, <1>8, <1>10 DEF OutboxInv, IdsAreOld
  <2>5. FinishedForGood'
    <3>1. nextId \notin Stored
      BY <1>8
    <3>2. \A i \in Places(c2r) : c2r[i].t = "confirm" => c2r[i].id # nextId
      BY <1>8 DEF OutboxInv, IdsAreOld
    <3> QED
      BY <1>1, <1>8, <2>2, <2>3, <3>1, <3>2 DEF OutboxInv, FinishedForGood
  <2>6. AcksAreStored' /\ AtMostOnce'
    BY <1>1, <1>8 DEF OutboxInv, AcksAreStored, AtMostOnce
  <2> QED
    BY <1>7, <2>1, <2>4, <2>5, <2>6 DEF OutboxInv, TailInv, RowInv
<1> QED
  <2>1. CASE ~MayDrain \/ NothingToSend \/ Diff = {}
    BY <1>9, <2>1 DEF RunResume
  <2>2. CASE ~(~MayDrain \/ NothingToSend \/ Diff = {})
    BY <1>10, <2>2 DEF RunResume, MayDrain
  <2> QED
    BY <2>1, <2>2

LEMMA SealedKeeps == ASSUME TypeOK, OutboxInv, Sealed PROVE OutboxInv'
<1> DEFINE enqueue == [t |-> "enqueue", op |-> [draft EXCEPT !.sv = SealedVector],
                       upd |-> doc, syn |-> synced]
<1>1. /\ UNCHANGED <<wire, relay, nextId, rows, queue, draft, phase, log>>
      /\ drain = "sealing" /\ drain' = "storing"
      /\ tail' = Append(tail, enqueue)
  BY DEF Sealed, disk, relay
<1>2. enqueue \in Task /\ enqueue.t = "enqueue" /\ enqueue.op.id = draft.id
  <2>1. [draft EXCEPT !.sv = SealedVector] \in Op
    BY DEF SealedVector, TypeOK, Op
  <2>2. [draft EXCEPT !.sv = SealedVector].id = draft.id
    BY DEF TypeOK, Op
  <2> QED
    BY <2>1, <2>2 DEF Task, EnqueueTask, TypeOK
<1> HIDE DEF enqueue
<1>3. tail \in Seq(Task) /\ Len(tail) \in Nat /\ phase = "up"
  BY <1>1, LenProperties DEF TypeOK, OutboxInv, NotUpYet
<1>4. \A i \in Places(tail') : \/ i \in Places(tail) /\ tail'[i] = tail[i]
                               \/ i = Len(tail) + 1 /\ tail'[i] = enqueue
  BY <1>1, <1>2, <1>3, AppendPlaces
<1>5. \A i \in Places(tail) : i < Len(tail) + 1 /\ Stage(tail[i]) = "none" /\ tail[i].t # "enqueue"
  <2>1. \A i \in Places(tail) : Stage(tail[i]) = "none"
    BY <1>1 DEF OutboxInv, OneDrain, Stage
  <2>2. \A i \in Places(tail) : i < Len(tail) + 1
    BY <1>3 DEF Places
  <2> QED
    BY <2>1, <2>2, StageOfKinds
<1>6. TailInv'
  <2>1. OneDrain'
    <3>1. \A i \in Places(tail') : Stage(tail'[i]) # "none" => i = Len(tail) + 1 /\ tail'[i] = enqueue
      BY <1>4, <1>5
    <3>2. Stage(enqueue) = "storing"
      BY <1>2, StageOfKinds
    <3>3. drain' = "storing"
      BY <1>1
    <3> QED
      BY <3>1, <3>2, <3>3 DEF OneDrain
  <2>2. DraftAlone'
    BY <1>1, <1>2, <1>4, <1>5 DEF OutboxInv, DraftAlone, Drafting
  <2>3. CommitsOfHead'
    <3> SUFFICES ASSUME NEW i \in Places(tail'), tail'[i].t = "commit"
                 PROVE  /\ tail'[i].op.id \in Stored
                        /\ queue # <<>> => tail'[i].op.id = Head(queue).id
                        /\ tail'[i].op.id # draft.id
                        /\ \A j \in Places(tail') : tail'[j].t = "enqueue" => i < j
      BY <1>1 DEF CommitsOfHead, Stored
    <3>1. i \in Places(tail) /\ tail'[i] = tail[i]
      BY <1>2, <1>4
    <3>2. \A j \in Places(tail') : tail'[j].t = "enqueue" => j = Len(tail) + 1
      BY <1>4, <1>5
    <3> QED
      BY <1>1, <1>5, <3>1, <3>2 DEF OutboxInv, CommitsOfHead, Drafting
  <2> QED
    BY <2>1, <2>2, <2>3 DEF TailInv
<1>7. RowInv'
  BY <1>1, <1>3 DEF OutboxInv, RowInv, OneRow, NotUpYet
<1>8. WireInv'
  BY <1>1, LiveKept, RowsAreOld, WireUnchanged, ThreeParts DEF Drafting
<1> QED
  BY <1>6, <1>7, <1>8 DEF OutboxInv, TailInv, RowInv, WireInv

\* The queue a session starts with holds exactly the rows at rest.
LEMMA QueueRead ==
    ASSUME TypeOK, OneRow, NEW q \in InOrder(rows)
    PROVE  q \in Seq(Op) /\ Len(q) <= 1 /\ rows = {q[i] : i \in Places(q)}
<1>1. CASE rows = {}
  <2>1. Cardinality(rows) = 0
    BY <1>1, FS_EmptySet
  <2>2. q \in [1..0 -> rows] /\ q = <<>>
    BY <2>1 DEF InOrder
  <2>3. q \in Seq(Op) /\ Len(q) = 0 /\ Places(q) = {}
    BY <2>2, EmptySeq DEF Places
  <2> QED
    BY <1>1, <2>3
<1>2. CASE rows # {}
  <2>1. PICK a : a \in rows
    BY <1>2
  <2>2. rows = {a} /\ a \in Op
    BY <2>1 DEF OneRow, TypeOK
  <2>3. Cardinality(rows) = 1
    BY <2>2, FS_Singleton
  <2>4. q \in [1..1 -> {a}]
    BY <2>2, <2>3 DEF InOrder
  <2>5. q \in Seq(Op)
    <3>1. q \in [1..1 -> Op]
      BY <2>2, <2>4
    <3> QED
      BY <3>1
  <2>6. q[1] = a /\ DOMAIN q = 1..1
    BY <2>4
  <2>7. Len(q) \in Nat /\ DOMAIN q = 1..Len(q)
    BY <2>5, LenProperties
  <2>8. Len(q) = 1
    BY <2>6, <2>7
  <2> QED
    BY <2>2, <2>5, <2>6, <2>8 DEF Places
<1> QED
  BY <1>1, <1>2

LEMMA ReadyKeeps == ASSUME TypeOK, OutboxInv, Ready PROVE OutboxInv'
<1>1. /\ UNCHANGED <<wire, relay, nextId, rows, draft, log>>
      /\ phase = "loading" /\ phase' = "up" /\ tail \in Seq(Task)
  BY DEF Ready, disk, relay, TypeOK
<1>2. queue' \in Seq(Op) /\ Len(queue') <= 1 /\ rows = {queue'[i] : i \in Places(queue')}
  <2>1. queue' \in InOrder(rows)
    BY DEF Ready
  <2> QED
    BY <2>1, QueueRead DEF OutboxInv
<1>3. /\ drain \in {"idle", "tail"} /\ ~Drafting
      /\ \A i \in Places(tail) : tail[i].t # "commit"
  BY <1>1 DEF OutboxInv, NotUpYet, Drafting
<1>4. TailInv' /\ drain' \in {"idle", "tail"}
  <2>1. CASE ResyncsDue = 0
    <3>1. tail' = tail /\ drain' = drain
      BY <2>1 DEF Ready
    <3>2. \A i \in Places(tail') : i + 0 \in Places(tail) /\ tail'[i] = tail[i + 0]
      BY <3>1 DEF Places
    <3> QED
      BY <1>1, <1>3, <3>1, <3>2, TailKept, ThreeParts
  <2>2. CASE ResyncsDue # 0 /\ queue' = <<>>
    <3>1. tail' = tail \o DrainTasks(drain) /\ drain' = Draining(drain)
      BY <2>2 DEF Ready, ResendDrain
    <3>2. Len(tail) = Len(tail) - 0
      BY <1>1, LenProperties
    <3>3. \A i \in Places(tail) : i + 0 \in Places(tail) /\ tail[i] = tail[i + 0]
      BY DEF Places
    <3>4. TailInv'
      BY <1>1, <1>3, <3>1, <3>2, <3>3, Asking, ThreeParts
    <3> QED
      BY <1>3, <3>1, <3>4 DEF Draining
  <2>3. CASE ResyncsDue # 0 /\ queue' # <<>>
    <3> DEFINE mark == MarkOf(Head(queue'), "resend")
    <3> DEFINE again == [i \in 1..ResyncsDue |-> mark]
    <3>1. tail' = tail \o again /\ drain' = drain
      BY <2>3 DEF Ready, ResendDrain
    <3>2. mark \in Task /\ mark.t = "mark" /\ Stage(mark) = "none"
      <4>1. Head(queue') \in Op
        BY <1>2, <2>3, HeadTailProperties
      <4> QED
        BY <4>1, MadeTasks DEF MarkOf, Stage
    <3> HIDE DEF mark
    <3>3. ResyncsDue \in Nat
      BY DEF ResyncsDue, TypeOK
    <3>4. again \in Seq(Task) /\ \A i \in Places(again) : again[i] = mark
      BY <3>2, <3>3 DEF Places
    <3> HIDE DEF again
    <3>5. \A i \in Places(tail') : \/ i \in Places(tail) /\ tail'[i] = tail[i]
                                   \/ i - Len(tail) \in Places(again) /\ tail'[i] = again[i - Len(tail)]
      BY <1>1, <3>1, <3>4, ConcatPlaces
    <3>6. \A i \in Places(tail') :
              \/ i + 0 \in Places(tail) /\ tail'[i] = tail[i + 0]
              \/ /\ i + 0 > Len(tail) /\ Stage(tail'[i]) = "none"
                 /\ tail'[i].t \notin {"enqueue", "commit"}
      <4> TAKE i \in Places(tail')
      <4>1. CASE i \in Places(tail) /\ tail'[i] = tail[i]
        BY <4>1 DEF Places
      <4>2. CASE i - Len(tail) \in Places(again) /\ tail'[i] = again[i - Len(tail)]
        <5>1. i \in Int /\ Len(tail) \in Nat /\ i - Len(tail) >= 1
          BY <1>1, <4>2, LenProperties DEF Places
        <5>2. i + 0 > Len(tail)
          BY <5>1
        <5> QED
          BY <3>2, <3>4, <4>2, <5>2
      <4> QED
        BY <3>5, <4>1, <4>2
    <3>7. TailInv'
      BY <1>1, <1>3, <3>1, <3>6, TailKept, ThreeParts
    <3> QED
      BY <1>3, <3>1, <3>7
  <2> QED
    BY <2>1, <2>2, <2>3
<1>5. RowInv'
  BY <1>1, <1>2 DEF OutboxInv, RowInv, OneRow, NotUpYet
<1>6. Live' \subseteq Live
  BY <1>1, <1>2, <1>4 DEF Live, Drafting
<1>7. WireInv'
  BY <1>1, <1>6, RowsAreOld, WireUnchanged, ThreeParts
<1> QED
  BY <1>4, <1>5, <1>7 DEF OutboxInv, TailInv, RowInv, WireInv

\* A task of no drain leaves the front of the cache queue.
LEMMA TaskDone ==
    ASSUME TypeOK, TailInv, tail # <<>>, tail' = Tail(tail),
           UNCHANGED <<drain, draft, nextId, log>>, queue' \in {queue, <<>>}
    PROVE  TailInv'
<1>1. tail \in Seq(Task)
  BY DEF TypeOK
<1>2. \A i \in Places(tail') : i + 1 \in Places(tail) /\ tail'[i] = tail[i + 1]
  BY <1>1, TailPlaces
<1> QED
  BY <1>1, <1>2, TailKept

LEMMA RunSaveKeeps == ASSUME TypeOK, OutboxInv, RunSave PROVE OutboxInv'
<1>1. /\ UNCHANGED <<wire, relay, nextId, rows, queue, draft, drain, phase, log>>
      /\ tail # <<>> /\ tail' = Tail(tail) /\ phase = "up"
  BY DEF RunSave, memory, relay
<1>2. TailInv'
  BY <1>1, TaskDone, ThreeParts
<1>3. RowInv'
  BY <1>1 DEF OutboxInv, RowInv, OneRow, NotUpYet
<1>4. WireInv'
  BY <1>1, LiveKept, RowsAreOld, WireUnchanged, ThreeParts DEF Drafting
<1> QED
  BY <1>2, <1>3, <1>4 DEF OutboxInv, TailInv, RowInv, WireInv

LEMMA RunEnqueueKeeps == ASSUME TypeOK, OutboxInv, RunEnqueue PROVE OutboxInv'
<1> DEFINE op == Head(tail).op
<1> DEFINE mark == MarkOf(op, "drain")
<1>1. /\ UNCHANGED <<wire, relay, nextId, draft, phase, log>>
      /\ tail # <<>> /\ Head(tail).t = "enqueue" /\ phase = "up" /\ drain' = "sending"
      /\ tail' = Append(Tail(tail), mark)
      /\ rows' = rows \cup {op} /\ queue' = Append(queue, op)
      /\ tail \in Seq(Task)
  BY DEF RunEnqueue, relay, TypeOK
<1>2. /\ op \in Op /\ mark \in Task /\ mark.t = "mark" /\ Stage(mark) = "sending"
      /\ Tail(tail) \in Seq(Task)
  <2>1. Head(tail) \in EnqueueTask /\ Tail(tail) \in Seq(Task)
    BY <1>1, HeadTask, TaskKinds
  <2>2. op \in Op
    BY <2>1 DEF EnqueueTask
  <2> QED
    BY <2>1, <2>2, MadeTasks DEF MarkOf, Stage
<1>3. 1 \in Places(tail) /\ tail[1] = Head(tail) /\ Stage(tail[1]) = "storing"
  BY <1>1, StageOfKinds, EmptySeq DEF Places
<1>4. drain = "storing" /\ op.id = draft.id /\ queue = <<>> /\ op.id \in 1..(nextId - 1)
  BY <1>1, <1>3 DEF OutboxInv, OneDrain, DraftAlone, Drafting
<1>5. rows = {} /\ rows' = {op} /\ queue' = <<op>>
  <2>1. Places(queue) = {}
    BY <1>4 DEF Places
  <2> QED
    BY <1>1, <1>4, <2>1 DEF OutboxInv, OneRow
<1> HIDE DEF mark
<1>6. /\ \A i \in Places(Tail(tail)) : i + 1 \in Places(tail) /\ Tail(tail)[i] = tail[i + 1]
      /\ \A i \in Places(tail') : \/ i \in Places(Tail(tail)) /\ tail'[i] = Tail(tail)[i]
                                  \/ i = Len(Tail(tail)) + 1 /\ tail'[i] = mark
  BY <1>1, <1>2, TailPlaces, AppendPlaces
<1>7. \A i \in Places(Tail(tail)) :
          Stage(Tail(tail)[i]) = "none" /\ Tail(tail)[i].t \notin {"commit", "enqueue"}
  <2> TAKE i \in Places(Tail(tail))
  <2>1. i + 1 \in Places(tail) /\ i + 1 # 1 /\ ~(i + 1 < 1) /\ Tail(tail)[i] = tail[i + 1]
    BY <1>6 DEF Places
  <2>2. Stage(Tail(tail)[i]) = "none"
    BY <1>3, <2>1 DEF OutboxInv, OneDrain
  <2>3. Tail(tail)[i].t # "commit"
    BY <1>1, <1>3, <2>1 DEF OutboxInv, CommitsOfHead
  <2> QED
    BY <2>2, <2>3, StageOfKinds
<1>8. TailInv'
  <2>1. OneDrain'
    BY <1>1, <1>2, <1>6, <1>7 DEF OneDrain
  <2>2. DraftAlone' /\ CommitsOfHead'
    <3>1. \A i \in Places(tail') : tail'[i].t \notin {"commit", "enqueue"}
      BY <1>2, <1>6, <1>7
    <3>2. ~Drafting'
      BY <1>1 DEF Drafting
    <3> QED
      BY <3>1, <3>2 DEF DraftAlone, CommitsOfHead
  <2> QED
    BY <2>1, <2>2 DEF TailInv
<1>9. RowInv'
  <2>1. Len(queue') = 1 /\ queue'[1] = op /\ Places(queue') = {1}
    BY <1>2, <1>5 DEF Places
  <2> QED
    BY <1>1, <1>5, <2>1 DEF RowInv, OneRow, NotUpYet
<1>10. Live' \subseteq Live /\ Ids(rows') \subseteq 1..(nextId - 1)
  <2>1. Ids(rows') = {op.id} /\ Ids({queue'[i] : i \in Places(queue')}) = {op.id}
    BY <1>2, <1>5 DEF Ids, Places
  <2>2. Live' = {op.id}
    BY <1>1, <2>1 DEF Live, Drafting
  <2> QED
    BY <1>4, <2>1, <2>2 DEF Live, Drafting
<1>11. WireInv'
  <2>1. /\ UNCHANGED <<c2r, r2c, log, receipts, nextId>>
    BY <1>1 DEF wire, relay
  <2> QED
    BY <1>1, <1>10, WireUnchanged, ThreeParts
<1> QED
  BY <1>8, <1>9, <1>11 DEF OutboxInv, TailInv, RowInv, WireInv

LEMMA RunMarkKeeps == ASSUME TypeOK, OutboxInv, RunMark PROVE OutboxInv'
<1> DEFINE op == Head(tail).op
<1>1. /\ UNCHANGED <<nextId, rows, queue, draft, phase, log, receipts, r2c>>
      /\ tail # <<>> /\ Head(tail).t = "mark" /\ phase = "up"
      /\ tail' = Tail(tail) /\ tail \in Seq(Task)
  BY DEF RunMark, disk, relay, TypeOK
<1>2. TailInv' /\ (Drafting' => Drafting)
  <2>1. CASE Head(tail).by # "drain"
    <3>1. drain' = drain
      BY <2>1 DEF RunMark
    <3> QED
      BY <1>1, <3>1, TaskDone, ThreeParts DEF Drafting
  <2>2. CASE Head(tail).by = "drain"
    <3>1. drain' = "idle"
      BY <2>2 DEF RunMark
    <3>2. 1 \in Places(tail) /\ Stage(tail[1]) = "sending"
      BY <1>1, <2>2, StageOfKinds, EmptySeq DEF Places
    <3>3. \A i \in Places(tail') : i + 1 \in Places(tail) /\ i + 1 # 1 /\ tail'[i] = tail[i + 1]
      BY <1>1, TailPlaces DEF Places
    <3>4. \A i \in Places(tail') : Stage(tail'[i]) = "none" /\ tail'[i].t # "enqueue"
      <4>1. \A i \in Places(tail') : Stage(tail'[i]) = "none"
        BY <3>2, <3>3 DEF OutboxInv, OneDrain
      <4> QED
        BY <4>1, StageOfKinds
    <3>5. OneDrain' /\ DraftAlone'
      BY <3>1, <3>4 DEF OneDrain, DraftAlone, Drafting
    <3>6. CommitsOfHead'
      <4>1. ~Drafting' /\ Stored' = Stored
        BY <1>1, <3>1 DEF Drafting, Stored
      <4>2. \A i \in Places(tail') : tail'[i].t = "commit" =>
                tail'[i].op.id \in Stored /\ (queue # <<>> => tail'[i].op.id = Head(queue).id)
        BY <3>3 DEF OutboxInv, CommitsOfHead
      <4> QED
        BY <1>1, <3>4, <4>1, <4>2 DEF CommitsOfHead
    <3> QED
      BY <3>1, <3>5, <3>6 DEF TailInv, Drafting
  <2> QED
    BY <2>1, <2>2
<1>3. RowInv'
  BY <1>1 DEF OutboxInv, RowInv, OneRow, NotUpYet
<1>4. Live' \subseteq Live /\ Ids(rows') \subseteq 1..(nextId - 1)
  BY <1>1, <1>2, LiveKept, RowsAreOld, ThreeParts
<1>5. CASE c2r' = c2r
  <2>1. UNCHANGED <<wire, relay>>
    BY <1>1, <1>5 DEF wire, relay
  <2>2. WireInv'
    BY <1>1, <1>4, <2>1, WireUnchanged, ThreeParts
  <2> QED
    BY <1>2, <1>3, <2>2 DEF OutboxInv, TailInv, RowInv, WireInv
<1>6. CASE StillHead(op) /\ c2r' = Append(c2r, Append1(op))
  <2>1. op.id \in Ids(rows) /\ op.id \in Live
    <3>1. queue # <<>> /\ Head(queue).id = op.id /\ 1 \in Places(queue) /\ Head(queue) = queue[1]
      BY <1>6, EmptySeq DEF StillHead, Places, TypeOK
    <3>2. Head(queue) \in rows
      BY <1>1, <3>1 DEF OutboxInv, OneRow
    <3> QED
      BY <3>1, <3>2 DEF Ids, Live
  <2>2. Append1(op) \in ClientMessage /\ Append1(op).t = "append" /\ Append1(op).op = op
    <3>1. op \in Op
      BY <1>1, HeadTask, TaskKinds DEF MarkTask
    <3> QED
      BY <3>1 DEF Append1, ClientMessage
  <2>3. c2r \in Seq(ClientMessage) /\ Len(c2r) \in Nat
    BY LenProperties DEF TypeOK
  <2>4. \A i \in Places(c2r') : \/ i \in Places(c2r) /\ c2r'[i] = c2r[i]
                                \/ i = Len(c2r) + 1 /\ c2r'[i] = Append1(op)
    BY <1>6, <2>2, <2>3, AppendPlaces
  <2>5. Stored' = Stored
    BY <1>1 DEF Stored
  <2>6. IdsAreOld'
    <3>1. op.id \in 1..(nextId - 1)
      BY <2>1 DEF OutboxInv, IdsAreOld
    <3> QED
      BY <1>1, <2>2, <2>4, <2>5, <3>1 DEF OutboxInv, IdsAreOld
  <2>7. FinishedForGood'
    <3>1. Live' \cap (Stored' \ receipts') = {}
      BY <1>1, <1>4, <2>5 DEF OutboxInv, FinishedForGood
    <3>2. \A i \in Places(c2r') : c2r'[i].t = "confirm" =>
              i \in Places(c2r) /\ c2r'[i] = c2r[i] /\ c2r'[i].id \notin Live
      BY <2>2, <2>4 DEF OutboxInv, FinishedForGood
    <3>3. ASSUME NEW i \in Places(c2r'), c2r'[i].t = "append"
          PROVE  /\ c2r'[i].op.id \notin Stored \ receipts
                 /\ \A j \in Places(c2r') :
                        c2r'[j].t = "confirm" /\ j < i => c2r'[j].id # c2r'[i].op.id
      <4>1. CASE i \in Places(c2r) /\ c2r'[i] = c2r[i]
        BY <2>4, <3>2, <3>3, <4>1 DEF OutboxInv, FinishedForGood
      <4>2. CASE c2r'[i] = Append1(op)
        <5>1. op.id \notin Stored \ receipts
          BY <2>1 DEF OutboxInv, FinishedForGood
        <5> QED
          BY <2>1, <2>2, <3>2, <4>2, <5>1
      <4> QED
        BY <2>4, <4>1, <4>2
    <3> QED
      BY <1>1, <1>4, <2>5, <3>1, <3>2, <3>3 DEF FinishedForGood
  <2>8. AcksAreStored' /\ AtMostOnce'
    BY <1>1, <2>5 DEF OutboxInv, AcksAreStored, AtMostOnce
  <2> QED
    BY <1>2, <1>3, <2>6, <2>7, <2>8 DEF OutboxInv, TailInv, RowInv
<1> QED
  BY <1>5, <1>6 DEF RunMark, Send

\* The operation a commit settles is nowhere else by then.
LEMMA CommitEnds ==
    ASSUME TypeOK, OutboxInv, RunCommit, Committed(Head(tail))
    PROVE  /\ queue' = <<>> /\ rows' = {} /\ Head(tail).op.id \in Stored
           /\ Drafting => Head(tail).op.id # draft.id
<1> DEFINE task == Head(tail)
<1>1. /\ tail # <<>> /\ task.t = "commit" /\ phase = "up" /\ tail \in Seq(Task)
      /\ queue \in Seq(Op)
      /\ rows' = {op \in rows : op.id # task.op.id}
      /\ queue' = IF queue = <<>> THEN <<>> ELSE Tail(queue)
  BY DEF RunCommit, CommitRows, TypeOK
<1>2. 1 \in Places(tail) /\ tail[1] = task
  BY <1>1, EmptySeq DEF Places
<1>3. /\ task.op.id \in Stored /\ (Drafting => task.op.id # draft.id)
      /\ queue # <<>> => task.op.id = Head(queue).id
  BY <1>1, <1>2 DEF OutboxInv, CommitsOfHead
<1>4. rows = {queue[i] : i \in Places(queue)}
  BY <1>1 DEF OutboxInv, OneRow
<1>7. Len(queue) <= 1
  BY DEF OutboxInv, OneRow
<1>5. CASE queue = <<>>
  <2>1. rows = {}
    BY <1>4, <1>5 DEF Places
  <2> QED
    BY <1>1, <1>3, <1>5, <2>1
<1>6. CASE queue # <<>>
  <2>1. Len(queue) = 1 /\ Places(queue) = {1} /\ Head(queue) = queue[1]
    <3>1. Len(queue) \in Nat /\ Len(queue) # 0
      BY <1>1, <1>6, EmptySeq
    <3>3. \A n \in Nat : n # 0 /\ n <= 1 => n = 1
      OBVIOUS
    <3>2. Len(queue) = 1
      BY <1>7, <3>1, <3>3
    <3> QED
      BY <3>2 DEF Places
  <2>2. Tail(queue) = <<>>
    <3>1. Len(Tail(queue)) = 0 /\ Tail(queue) \in Seq(Op)
      BY <1>1, <1>6, <2>1, HeadTailProperties
    <3> QED
      BY <3>1, EmptySeq
  <2>3. rows = {Head(queue)}
    BY <1>4, <2>1
  <2> QED
    BY <1>1, <1>3, <1>6, <2>2, <2>3
<1> QED
  BY <1>5, <1>6

LEMMA RunCommitKeeps == ASSUME TypeOK, OutboxInv, RunCommit PROVE OutboxInv'
<1> DEFINE task == Head(tail)
<1>1. /\ UNCHANGED <<nextId, draft, phase, log, receipts, r2c>>
      /\ tail # <<>> /\ task.t = "commit" /\ phase = "up" /\ tail \in Seq(Task)
      /\ Tail(tail) \in Seq(Task)
  BY HeadTask DEF RunCommit, relay, TypeOK
<1>2. Stored' = Stored
  BY <1>1 DEF Stored
<1>3. CASE ~Committed(task)
  <2>1. /\ UNCHANGED <<queue, c2r, drain>> /\ tail' = Tail(tail)
        /\ rows' = {op \in rows : op.id # task.op.id} /\ task.op.id \notin Ids(rows)
    BY <1>3 DEF RunCommit, Committed, CommitRows
  <2>2. rows' = rows
    BY <2>1 DEF Ids
  <2>3. TailInv'
    BY <1>1, <2>1, TaskDone, ThreeParts
  <2>4. RowInv'
    BY <1>1, <2>1, <2>2 DEF OutboxInv, RowInv, OneRow, NotUpYet
  <2>5. WireInv'
    <3>1. UNCHANGED <<wire, relay>>
      BY <1>1, <2>1 DEF wire, relay
    <3> QED
      BY <1>1, <2>1, <2>2, <3>1, LiveKept, RowsAreOld, WireUnchanged, ThreeParts DEF Drafting
  <2> QED
    BY <2>3, <2>4, <2>5 DEF OutboxInv, TailInv, RowInv, WireInv
<1>4. CASE Committed(task)
  <2> DEFINE confirm == Confirm(task.op.id)
  <2>1. /\ queue' = <<>> /\ rows' = {} /\ task.op.id \in Stored
        /\ Drafting => task.op.id # draft.id
    BY <1>4, CommitEnds
  <2>2. /\ tail' = Tail(tail) \o DrainTasks(drain) /\ drain' = Draining(drain)
        /\ c2r' = Append(c2r, confirm) \/ c2r' = c2r
    BY <1>4, <2>1 DEF RunCommit, ResendTasks, ResendDrain, Send
  <2>3. TailInv'
    <3>1. /\ Len(Tail(tail)) = Len(tail) - 1
          /\ \A i \in Places(Tail(tail)) : i + 1 \in Places(tail) /\ Tail(tail)[i] = tail[i + 1]
      BY <1>1, TailPlaces
    <3> QED
      BY <1>1, <2>1, <2>2, <3>1, Asking, ThreeParts
  <2>4. RowInv'
    <3>1. Places(queue') = {} /\ Len(queue') = 0
      BY <2>1 DEF Places
    <3> QED
      BY <1>1, <2>1, <3>1 DEF RowInv, OneRow, NotUpYet
  <2>5. Live' \subseteq Live /\ task.op.id \notin Live' /\ Ids(rows') = {}
    <3>1. Drafting' = Drafting
      BY <2>2 DEF Drafting, Draining
    <3>2. Live' = IF Drafting THEN {draft.id} ELSE {}
      BY <1>1, <2>1, <3>1 DEF Live, Ids, Places
    <3> QED
      BY <2>1, <3>2 DEF Live, Ids
  <2>6. CASE c2r' = c2r
    <3>1. UNCHANGED <<wire, relay>>
      BY <1>1, <2>6 DEF wire, relay
    <3>2. WireInv'
      BY <1>1, <2>5, <3>1, WireUnchanged, ThreeParts
    <3> QED
      BY <2>3, <2>4, <3>2 DEF OutboxInv, TailInv, RowInv, WireInv
  <2>7. CASE c2r' = Append(c2r, confirm)
    <3>1. confirm \in ClientMessage /\ confirm.t = "confirm" /\ confirm.id = task.op.id
      <4>1. task.op \in Op
        BY <1>1, HeadTask, TaskKinds DEF CommitTask
      <4> QED
        BY <4>1 DEF Confirm, ClientMessage, Op
    <3> HIDE DEF confirm
    <3>2. c2r \in Seq(ClientMessage) /\ Len(c2r) \in Nat
      BY LenProperties DEF TypeOK
    <3>3. \A i \in Places(c2r') : \/ i \in Places(c2r) /\ c2r'[i] = c2r[i] /\ i <= Len(c2r)
                                  \/ i = Len(c2r) + 1 /\ c2r'[i] = confirm
      BY <2>7, <3>1, <3>2, AppendPlaces DEF Places
    <3>4. IdsAreOld'
      BY <1>1, <1>2, <2>1, <2>5, <3>1, <3>3 DEF OutboxInv, IdsAreOld
    <3>5. FinishedForGood'
      <4>1. Live' \cap (Stored \ receipts) = {}
        BY <2>5 DEF OutboxInv, FinishedForGood
      <4>2. \A i \in Places(c2r') : c2r'[i].t = "confirm" => c2r'[i].id \notin Live'
        BY <2>5, <3>1, <3>3 DEF OutboxInv, FinishedForGood
      <4>3. ASSUME NEW i \in Places(c2r'), c2r'[i].t = "append"
            PROVE  /\ c2r'[i].op.id \notin Stored \ receipts
                   /\ \A j \in Places(c2r') :
                          c2r'[j].t = "confirm" /\ j < i => c2r'[j].id # c2r'[i].op.id
        <5>1. i \in Places(c2r) /\ c2r'[i] = c2r[i] /\ i <= Len(c2r)
          BY <3>1, <3>3, <4>3
        <5>2. \A j \in Places(c2r') : j < i => j \in Places(c2r) /\ c2r'[j] = c2r[j]
          BY <3>2, <3>3, <5>1 DEF Places
        <5> QED
          BY <4>3, <5>1, <5>2 DEF OutboxInv, FinishedForGood
      <4> QED
        BY <1>1, <1>2, <4>1, <4>2, <4>3 DEF FinishedForGood
    <3>6. AcksAreStored' /\ AtMostOnce'
      BY <1>1, <1>2 DEF OutboxInv, AcksAreStored, AtMostOnce
    <3> QED
      BY <2>3, <2>4, <3>4, <3>5, <3>6 DEF OutboxInv, TailInv, RowInv
  <2> QED
    BY <2>2, <2>6, <2>7
<1> QED
  BY <1>3, <1>4

\* The head operation is asked for again.
LEMMA MarkAdded ==
    ASSUME TypeOK, TailInv, queue # <<>>, tail' = Append(tail, MarkOf(Head(queue), "resend")),
           UNCHANGED <<drain, draft, nextId, log, queue>>
    PROVE  TailInv'
<1> DEFINE mark == MarkOf(Head(queue), "resend")
<1>1. tail \in Seq(Task) /\ queue \in Seq(Op) /\ Len(tail) \in Nat
  BY LenProperties DEF TypeOK
<1>2. mark \in Task /\ mark.t = "mark" /\ Stage(mark) = "none"
  <2>1. Head(queue) \in Op
    BY <1>1, HeadTailProperties
  <2> QED
    BY <2>1, MadeTasks DEF MarkOf, Stage
<1>3. tail' = Append(tail, mark)
  OBVIOUS
<1> HIDE DEF mark
<1>4. \A i \in Places(tail') : \/ i \in Places(tail) /\ tail'[i] = tail[i]
                               \/ i = Len(tail) + 1 /\ tail'[i] = mark
  <2>1. \A i \in Places(Append(tail, mark)) :
            \/ i \in Places(tail) /\ Append(tail, mark)[i] = tail[i]
            \/ i = Len(tail) + 1 /\ Append(tail, mark)[i] = mark
    BY <1>1, <1>2, AppendPlaces
  <2> QED
    BY <1>3, <2>1
<1>5. \A i \in Places(tail') :
          \/ i + 0 \in Places(tail) /\ tail'[i] = tail[i + 0]
          \/ /\ i + 0 > Len(tail) /\ Stage(tail'[i]) = "none"
             /\ tail'[i].t \notin {"enqueue", "commit"}
  BY <1>1, <1>2, <1>4 DEF Places
<1> QED
  BY <1>1, <1>5, TailKept

LEMMA OpenKeeps == ASSUME TypeOK, OutboxInv, Open PROVE OutboxInv'
<1>1. UNCHANGED <<wire, relay, nextId, rows, queue, draft, phase, log>> /\ tail \in Seq(Task)
  BY DEF Open, disk, relay, TypeOK
<1>2. /\ TailInv' /\ (Drafting' => Drafting)
      /\ phase # "up" => UNCHANGED <<tail, drain>>
  <2>1. CASE phase = "up" /\ queue # <<>>
    <3> DEFINE mark == MarkOf(Head(queue), "resend")
    <3>1. tail' = tail \o <<mark>> /\ drain' = drain
      BY <2>1 DEF Open, ResendTasks, ResendDrain
    <3>2. mark \in Task
      BY <2>1, MadeTasks, HeadTailProperties DEF TypeOK
    <3>3. tail' = Append(tail, mark)
      BY <1>1, <3>1, <3>2, AppendIsConcat
    <3> QED
      BY <1>1, <2>1, <3>1, <3>3, MarkAdded, ThreeParts DEF Drafting
  <2>2. CASE phase = "up" /\ queue = <<>>
    <3>1. tail' = tail \o DrainTasks(drain) /\ drain' = Draining(drain)
      BY <2>2 DEF Open, ResendTasks, ResendDrain
    <3>2. Len(tail) = Len(tail) - 0
      BY <1>1, LenProperties
    <3>3. \A i \in Places(tail) : i + 0 \in Places(tail) /\ tail[i] = tail[i + 0]
      BY DEF Places
    <3>4. TailInv'
      BY <1>1, <3>1, <3>2, <3>3, Asking, ThreeParts
    <3> QED
      BY <2>2, <3>1, <3>4 DEF Drafting, Draining
  <2>3. CASE phase # "up"
    <3>1. UNCHANGED <<tail, drain>>
      BY <2>3 DEF Open
    <3>2. \A i \in Places(tail') : i + 0 \in Places(tail) /\ tail'[i] = tail[i + 0]
      BY <3>1 DEF Places
    <3> QED
      BY <1>1, <3>1, <3>2, TailKept, ThreeParts DEF Drafting
  <2> QED
    BY <2>1, <2>2, <2>3
<1>3. RowInv'
  BY <1>1, <1>2 DEF OutboxInv, RowInv, OneRow, NotUpYet
<1>4. WireInv'
  BY <1>1, <1>2, LiveKept, RowsAreOld, WireUnchanged, ThreeParts
<1> QED
  BY <1>2, <1>3, <1>4 DEF OutboxInv, TailInv, RowInv, WireInv

\* The socket is lost: nothing in it is left to be wrong about.
LEMMA WireLost ==
    ASSUME WireInv, c2r' = <<>>, r2c' = <<>>, UNCHANGED <<log, receipts, nextId>>,
           Live' \subseteq Live, Ids(rows') \subseteq 1..(nextId - 1)
    PROVE  WireInv'
<1>1. Places(c2r') = {} /\ Places(r2c') = {}
  BY DEF Places
<1> QED
  BY <1>1, WireKept

LEMMA CloseKeeps == ASSUME TypeOK, OutboxInv, Close PROVE OutboxInv'
<1>1. /\ UNCHANGED <<log, receipts, nextId, rows, queue, draft, drain, tail, phase>>
      /\ c2r' = <<>> /\ r2c' = <<>>
  BY DEF Close, memory, disk, relay
<1>2. TailInv'
  <2>1. \A i \in Places(tail') : i + 0 \in Places(tail) /\ tail'[i] = tail[i + 0]
    BY <1>1 DEF Places
  <2> QED
    BY <1>1, <2>1, TailKept, ThreeParts DEF TypeOK
<1>3. RowInv'
  BY <1>1 DEF OutboxInv, RowInv, OneRow, NotUpYet
<1>4. WireInv'
  BY <1>1, LiveKept, RowsAreOld, WireLost, ThreeParts DEF Drafting
<1> QED
  BY <1>2, <1>3, <1>4 DEF OutboxInv, TailInv, RowInv, WireInv

LEMMA CrashKeeps == ASSUME TypeOK, OutboxInv, Crash PROVE OutboxInv'
<1>1. /\ UNCHANGED <<log, receipts, nextId>> /\ Forget
      /\ c2r' = <<>> /\ r2c' = <<>>
  BY DEF Crash, relay
<1>2. (\A a, b \in rows' : a = b) /\ Ids(rows') \subseteq Live /\ Ids(rows') \subseteq 1..(nextId - 1)
  <2>1. CASE rows' \subseteq rows
    BY <2>1 DEF OutboxInv, OneRow, Live, IdsAreOld, Ids
  <2>2. CASE phase = "up" /\ tail # <<>> /\ rows' = Landed(Head(tail))[2]
    <3> DEFINE task == Head(tail)
    <3>1. CASE task.t = "enqueue"
      <4>1. 1 \in Places(tail) /\ tail[1] = task
        BY <2>2, EmptySeq DEF Places, TypeOK
      <4>2. Drafting /\ task.op.id = draft.id /\ queue = <<>> /\ draft.id \in 1..(nextId - 1)
        BY <3>1, <4>1, StageOfKinds DEF OutboxInv, OneDrain, DraftAlone, Drafting
      <4>3. rows = {}
        BY <2>2, <4>2 DEF OutboxInv, OneRow, Places
      <4>4. rows' = {task.op}
        BY <2>2, <3>1, <4>3 DEF Landed
      <4> QED
        BY <4>2, <4>4 DEF Live, Ids
    <3>2. CASE task.t # "enqueue"
      <4>1. rows' \subseteq rows
        BY <2>2, <3>2 DEF Landed, CommitRows
      <4> QED
        BY <2>1, <4>1
    <3> QED
      BY <3>1, <3>2
  <2> QED
    BY <2>1, <2>2 DEF Crash, disk
<1>3. TailInv' /\ RowInv' /\ Live' = Ids(rows')
  BY <1>1, <1>2, ForgetKeeps
<1>4. WireInv'
  BY <1>1, <1>2, <1>3, WireLost, ThreeParts
<1> QED
  BY <1>3, <1>4 DEF OutboxInv, TailInv, RowInv, WireInv

\* A message leaves the front of the socket.
LEMMA MessageDone ==
    ASSUME TypeOK, c2r # <<>>, c2r' = Tail(c2r)
    PROVE  /\ \A i \in Places(c2r') : i + 1 \in Places(c2r) /\ c2r'[i] = c2r[i + 1]
           /\ 1 \in Places(c2r) /\ Head(c2r) = c2r[1] /\ Head(c2r) \in ClientMessage
<1>1. c2r \in Seq(ClientMessage)
  BY DEF TypeOK
<1>2. \A i \in Places(c2r') : i + 1 \in Places(c2r) /\ c2r'[i] = c2r[i + 1]
  BY <1>1, TailPlaces
<1>3. Len(c2r) \in Nat \ {0}
  BY <1>1, EmptySeq
<1> QED
  BY <1>1, <1>2, <1>3, HeadTailProperties DEF Places

\* An answer joins the ones on their way.
LEMMA Answered ==
    ASSUME TypeOK, NEW m \in ServerMessage, r2c' = Append(r2c, m), AcksAreStored,
           m.t = "ack" => m.id \in Stored', Stored \subseteq Stored'
    PROVE  \A i \in Places(r2c') : r2c'[i].t = "ack" => r2c'[i].id \in Stored'
<1>1. r2c \in Seq(ServerMessage)
  BY DEF TypeOK
<1>2. \A i \in Places(r2c') : \/ i \in Places(r2c) /\ r2c'[i] = r2c[i]
                              \/ r2c'[i] = m
  BY <1>1, AppendPlaces
<1> QED
  BY <1>2 DEF AcksAreStored

\* A step of the socket or the relay, seen from the engine.
LEMMA EngineUnchanged ==
    ASSUME TypeOK, OutboxInv, UNCHANGED <<phase, rows, queue, draft, drain, tail, nextId>>,
           Stored \subseteq Stored'
    PROVE  TailInv' /\ RowInv' /\ Live' = Live
<1>1. TailInv'
  BY DEF OutboxInv, TailInv, OneDrain, DraftAlone, CommitsOfHead, Drafting
<1>2. RowInv' /\ Live' = Live
  BY DEF OutboxInv, RowInv, OneRow, NotUpYet, Live, Drafting
<1> QED
  BY <1>1, <1>2

LEMMA RelayRefuseKeeps == ASSUME TypeOK, OutboxInv, RelayRefuse PROVE OutboxInv'
<1> DEFINE refused == Refused(Head(c2r).op.id)
<1>1. /\ UNCHANGED <<phase, rows, queue, draft, drain, tail, log, receipts, nextId>>
      /\ c2r # <<>> /\ c2r' = Tail(c2r) /\ r2c' = Append(r2c, refused)
      /\ Head(c2r).t = "append"
  BY DEF RelayRefuse, memory, disk, relay
<1>2. Stored' = Stored
  BY <1>1 DEF Stored
<1>3. refused \in ServerMessage /\ refused.t = "refused"
  <2>1. Head(c2r).op \in Op
    BY <1>1, MessageDone DEF ClientMessage
  <2> QED
    BY <2>1 DEF Refused, ServerMessage, Op
<1> HIDE DEF refused
<1>4. \A i \in Places(r2c') : r2c'[i].t = "ack" => r2c'[i].id \in Stored
  BY <1>1, <1>2, <1>3, Answered DEF OutboxInv
<1>5. TailInv' /\ RowInv' /\ Live' = Live
  BY <1>1, <1>2, EngineUnchanged
<1>6. WireInv'
  BY <1>1, <1>4, <1>5, MessageDone, RowsAreOld, WireKept, ThreeParts
<1> QED
  BY <1>5, <1>6 DEF OutboxInv, TailInv, RowInv, WireInv

LEMMA RelayConfirmKeeps == ASSUME TypeOK, OutboxInv, RelayConfirm PROVE OutboxInv'
<1> DEFINE id == Head(c2r).id
<1>1. /\ UNCHANGED <<phase, rows, queue, draft, drain, tail, log, r2c, nextId>>
      /\ c2r # <<>> /\ Head(c2r).t = "confirm" /\ c2r' = Tail(c2r) /\ receipts' = receipts \ {id}
  BY DEF RelayConfirm, memory, disk
<1>2. Stored' = Stored
  BY <1>1 DEF Stored
<1>3. /\ \A i \in Places(c2r') : i + 1 \in Places(c2r) /\ c2r'[i] = c2r[i + 1] /\ 1 < i + 1
      /\ 1 \in Places(c2r) /\ Head(c2r) = c2r[1]
  BY <1>1, MessageDone DEF Places
<1>4. TailInv' /\ RowInv' /\ Live' = Live
  BY <1>1, <1>2, EngineUnchanged
<1>5. IdsAreOld'
  BY <1>1, <1>2, <1>3 DEF OutboxInv, IdsAreOld
<1>6. FinishedForGood'
  <2>1. id \notin Live
    BY <1>1, <1>3 DEF OutboxInv, FinishedForGood
  <2>2. \A i \in Places(c2r') : c2r'[i].t = "append" => c2r'[i].op.id # id
    BY <1>1, <1>3 DEF OutboxInv, FinishedForGood
  <2>3. Live' \cap (Stored' \ receipts') = {}
    BY <1>1, <1>2, <1>4, <2>1 DEF OutboxInv, FinishedForGood
  <2>4. \A i \in Places(c2r') : c2r'[i].t = "confirm" => c2r'[i].id \notin Live'
    BY <1>3, <1>4 DEF OutboxInv, FinishedForGood
  <2>5. ASSUME NEW i \in Places(c2r'), c2r'[i].t = "append"
        PROVE  /\ c2r'[i].op.id \notin Stored' \ receipts'
               /\ \A j \in Places(c2r') :
                      c2r'[j].t = "confirm" /\ j < i => c2r'[j].id # c2r'[i].op.id
    <3>1. c2r'[i].op.id \notin Stored' \ receipts'
      BY <1>1, <1>2, <1>3, <2>2, <2>5 DEF OutboxInv, FinishedForGood
    <3>2. ASSUME NEW j \in Places(c2r'), c2r'[j].t = "confirm", j < i
          PROVE  c2r'[j].id # c2r'[i].op.id
      <4>1. j + 1 < i + 1
        BY <3>2 DEF Places
      <4> QED
        BY <1>3, <2>5, <3>2, <4>1 DEF OutboxInv, FinishedForGood
    <3> QED
      BY <3>1, <3>2
  <2> QED
    BY <2>3, <2>4, <2>5 DEF FinishedForGood
<1>7. AcksAreStored' /\ AtMostOnce'
  BY <1>1, <1>2 DEF OutboxInv, AcksAreStored, AtMostOnce
<1> QED
  BY <1>4, <1>5, <1>6, <1>7 DEF OutboxInv, TailInv, RowInv

LEMMA RelayAppendKeeps == ASSUME TypeOK, OutboxInv, RelayAppend PROVE OutboxInv'
<1> DEFINE op == Head(c2r).op
<1> DEFINE ack == Ack(op.id)
<1>1. /\ UNCHANGED <<phase, rows, queue, draft, drain, tail, nextId>>
      /\ c2r # <<>> /\ Head(c2r).t = "append" /\ c2r' = Tail(c2r)
      /\ r2c' = Append(r2c, ack)
  BY DEF RelayAppend, memory, disk
<1>2. /\ \A i \in Places(c2r') : i + 1 \in Places(c2r) /\ c2r'[i] = c2r[i + 1]
      /\ 1 \in Places(c2r) /\ Head(c2r) = c2r[1] /\ op \in Op
  BY <1>1, MessageDone DEF ClientMessage
<1>3. ack \in ServerMessage /\ ack.t = "ack" /\ ack.id = op.id
  BY <1>2 DEF Ack, ServerMessage, Op
<1> HIDE DEF ack
<1>4. op.id \notin Stored \ receipts /\ op.id \in 1..(nextId - 1)
  BY <1>1, <1>2 DEF OutboxInv, FinishedForGood, IdsAreOld
<1>5. CASE op.id \in receipts
  <2>1. UNCHANGED <<log, receipts>> /\ Stored' = Stored /\ op.id \in Stored
    BY <1>5 DEF RelayAppend, relay, Stored, OutboxInv, AcksAreStored
  <2>2. \A i \in Places(r2c') : r2c'[i].t = "ack" => r2c'[i].id \in Stored
    BY <1>1, <1>3, <2>1, Answered DEF OutboxInv
  <2>3. TailInv' /\ RowInv' /\ Live' = Live
    BY <1>1, <2>1, EngineUnchanged
  <2>4. WireInv'
    BY <1>1, <1>2, <2>1, <2>2, <2>3, RowsAreOld, WireKept, ThreeParts
  <2> QED
    BY <2>3, <2>4 DEF OutboxInv, TailInv, RowInv, WireInv
<1>6. CASE op.id \notin receipts
  <2>1. log' = Append(log, op) /\ receipts' = receipts \cup {op.id} /\ op.id \notin Stored
    BY <1>4, <1>6 DEF RelayAppend
  <2>2. /\ Len(log') = Len(log) + 1 /\ Len(log) \in Nat
        /\ \A i \in Places(log') : \/ i \in Places(log) /\ log'[i] = log[i]
                                   \/ i = Len(log) + 1 /\ log'[i] = op
    <3>1. log \in Seq(Op) /\ Len(log) \in Nat
      BY LenProperties DEF TypeOK
    <3> QED
      BY <1>2, <2>1, <3>1, AppendPlaces
  <2>3. Stored' = Stored \cup {op.id}
    <3>1. Stored' \subseteq Stored \cup {op.id}
      BY <2>2 DEF Stored, Places
    <3>2. \A i \in Places(log) : i \in Places(log') /\ log'[i] = log[i]
      BY <2>2 DEF Places
    <3>3. Len(log) + 1 \in Places(log') /\ log'[Len(log) + 1] = op
      BY <2>2 DEF Places
    <3> QED
      BY <3>1, <3>2, <3>3 DEF Stored, Places
  <2>4. AtMostOnce'
    BY <2>1, <2>2 DEF OutboxInv, AtMostOnce, Stored, Places
  <2>5. TailInv' /\ RowInv' /\ Live' = Live
    BY <1>1, <2>3, EngineUnchanged
  <2>6. IdsAreOld'
    <3>1. IdsAreOld
      BY <1>1 DEF OutboxInv
    <3> QED
      BY <1>1, <1>2, <1>4, <2>1, <2>3, <3>1 DEF IdsAreOld
  <2>7. Stored' \ receipts' \subseteq Stored \ receipts
    BY <2>1, <2>3
  <2>8. FinishedForGood'
    <3>1. Live' \cap (Stored' \ receipts') = {}
      BY <2>5, <2>7 DEF OutboxInv, FinishedForGood
    <3>2. \A i \in Places(c2r') : c2r'[i].t = "confirm" => c2r'[i].id \notin Live'
      BY <1>2, <2>5 DEF OutboxInv, FinishedForGood
    <3>3. ASSUME NEW i \in Places(c2r'), c2r'[i].t = "append"
          PROVE  /\ c2r'[i].op.id \notin Stored' \ receipts'
                 /\ \A j \in Places(c2r') :
                        c2r'[j].t = "confirm" /\ j < i => c2r'[j].id # c2r'[i].op.id
      <4>1. c2r'[i].op.id \notin Stored' \ receipts'
        BY <1>2, <2>7, <3>3 DEF OutboxInv, FinishedForGood
      <4>2. ASSUME NEW j \in Places(c2r'), c2r'[j].t = "confirm", j < i
            PROVE  c2r'[j].id # c2r'[i].op.id
        <5>1. j + 1 < i + 1
          BY <4>2 DEF Places
        <5> QED
          BY <1>2, <3>3, <4>2, <5>1 DEF OutboxInv, FinishedForGood
      <4> QED
        BY <4>1, <4>2
    <3> QED
      BY <3>1, <3>2, <3>3 DEF FinishedForGood
  <2>9. AcksAreStored'
    <3>1. receipts' \subseteq Stored'
      BY <2>1, <2>3 DEF OutboxInv, AcksAreStored
    <3>2. \A i \in Places(r2c') : r2c'[i].t = "ack" => r2c'[i].id \in Stored'
      BY <1>1, <1>3, <2>3, Answered DEF OutboxInv
    <3> QED
      BY <3>1, <3>2 DEF AcksAreStored
  <2> QED
    BY <2>4, <2>5, <2>6, <2>8, <2>9 DEF OutboxInv, TailInv, RowInv
<1> QED
  BY <1>5, <1>6

\* Reading an answer leaves fewer of them.
LEMMA AnswerRead ==
    ASSUME TypeOK, OutboxInv, r2c # <<>>, r2c' = Tail(r2c)
    PROVE  /\ \A i \in Places(r2c') : r2c'[i].t = "ack" => r2c'[i].id \in Stored
           /\ Head(r2c).t = "ack" => Head(r2c).id \in Stored
<1>1. r2c \in Seq(ServerMessage) /\ Len(r2c) \in Nat \ {0}
  BY EmptySeq DEF TypeOK
<1>2. \A i \in Places(r2c') : i + 1 \in Places(r2c) /\ r2c'[i] = r2c[i + 1]
  BY <1>1, TailPlaces
<1>3. 1 \in Places(r2c) /\ Head(r2c) = r2c[1]
  BY <1>1 DEF Places
<1> QED
  BY <1>2, <1>3 DEF OutboxInv, AcksAreStored

\* An answer read changes nothing the relay and the socket towards it hold.
LEMMA ReadKeepsWire ==
    ASSUME TypeOK, OutboxInv, r2c # <<>>, r2c' = Tail(r2c),
           UNCHANGED <<c2r, log, receipts, nextId, rows, queue, draft, drain>>
    PROVE  WireInv'
<1>1. \A i \in Places(c2r') : i + 0 \in Places(c2r) /\ c2r'[i] = c2r[i + 0]
  BY DEF Places
<1>2. Live' \subseteq Live /\ Ids(rows') \subseteq 1..(nextId - 1)
  BY LiveKept, RowsAreOld, ThreeParts DEF Drafting
<1> QED
  BY <1>1, <1>2, AnswerRead, WireKept, ThreeParts

LEMMA ReceiveRefusalKeeps == ASSUME TypeOK, OutboxInv, ReceiveRefusal PROVE OutboxInv'
<1>1. /\ UNCHANGED <<c2r, log, receipts, nextId, rows, queue, draft, drain, tail, phase>>
      /\ r2c # <<>> /\ r2c' = Tail(r2c)
  BY DEF ReceiveRefusal, memory, disk, relay
<1>2. TailInv' /\ RowInv'
  BY <1>1, EngineUnchanged DEF Stored
<1>3. WireInv'
  BY <1>1, ReadKeepsWire
<1> QED
  BY <1>2, <1>3 DEF OutboxInv, TailInv, RowInv, WireInv

LEMMA ReceiveAckKeeps == ASSUME TypeOK, OutboxInv, ReceiveAck PROVE OutboxInv'
<1>1. /\ UNCHANGED <<c2r, log, receipts, nextId, rows, queue, draft, drain, phase>>
      /\ r2c # <<>> /\ r2c' = Tail(r2c) /\ Head(r2c).t = "ack"
      /\ tail \in Seq(Task) /\ Len(tail) \in Nat
  BY LenProperties DEF ReceiveAck, memory, disk, relay, TypeOK
<1>2. WireInv'
  BY <1>1, ReadKeepsWire
<1>3. CASE ~AcksHead(Head(r2c).id)
  <2>1. tail' = tail
    BY <1>3 DEF ReceiveAck
  <2>2. TailInv' /\ RowInv'
    BY <1>1, <2>1, EngineUnchanged DEF Stored
  <2> QED
    BY <1>2, <2>2 DEF OutboxInv, TailInv, RowInv, WireInv
<1>4. CASE AcksHead(Head(r2c).id)
  <2> DEFINE commit == [t |-> "commit", op |-> Head(queue), upd |-> doc, syn |-> AckedVector]
  <2>1. tail' = Append(tail, commit)
    BY <1>4 DEF ReceiveAck
  <2>2. queue # <<>> /\ Head(queue).id \in Stored /\ Head(queue) \in Op
    BY <1>1, <1>4, AnswerRead, HeadTailProperties DEF AcksHead, TypeOK
  <2>3. commit \in Task /\ commit.t = "commit" /\ commit.op = Head(queue)
    <3>1. AckedVector \in SUBSET Inserts
      BY <2>2 DEF AckedVector, TypeOK, Op
    <3> QED
      BY <2>2, <3>1 DEF Task, CommitTask, TypeOK
  <2> HIDE DEF commit
  <2>4. \A i \in Places(tail') : \/ i \in Places(tail) /\ tail'[i] = tail[i]
                                 \/ i = Len(tail) + 1 /\ tail'[i] = commit
    <3>1. \A i \in Places(Append(tail, commit)) :
              \/ i \in Places(tail) /\ Append(tail, commit)[i] = tail[i]
              \/ i = Len(tail) + 1 /\ Append(tail, commit)[i] = commit
      BY <1>1, <2>3, AppendPlaces
    <3> QED
      BY <2>1, <3>1
  <2>5. ~Drafting /\ phase = "up"
    BY <2>2 DEF OutboxInv, DraftAlone, NotUpYet
  <2>6. \A i \in Places(tail') : tail'[i].t # "enqueue"
    <3>1. \A i \in Places(tail) : tail[i].t # "enqueue"
      BY <2>5, StageOfKinds DEF OutboxInv, OneDrain, Drafting
    <3> QED
      BY <2>3, <2>4, <3>1
  <2>7. Stage(commit) = "none"
    BY <2>3 DEF Stage
  <2>8. TailInv'
    <3>1. OneDrain'
      BY <1>1, <2>4, <2>7 DEF OutboxInv, OneDrain
    <3>2. DraftAlone'
      BY <1>1, <2>5, <2>6 DEF DraftAlone, Drafting
    <3>3. CommitsOfHead'
      <4>1. \A i \in Places(tail') : tail'[i].t = "commit" =>
                tail'[i].op.id \in Stored /\ tail'[i].op.id = Head(queue).id
        BY <2>2, <2>3, <2>4 DEF OutboxInv, CommitsOfHead
      <4>2. Stored' = Stored /\ ~Drafting'
        BY <1>1, <2>5 DEF Stored, Drafting
      <4> QED
        BY <1>1, <2>6, <4>1, <4>2 DEF CommitsOfHead
    <3> QED
      BY <3>1, <3>2, <3>3 DEF TailInv
  <2>9. RowInv'
    BY <1>1, <2>5 DEF OutboxInv, RowInv, OneRow, NotUpYet
  <2> QED
    BY <1>2, <2>8, <2>9 DEF OutboxInv, TailInv, RowInv, WireInv
<1> QED
  BY <1>3, <1>4

LEMMA RetryRefusedKeeps == ASSUME TypeOK, OutboxInv, RetryRefused PROVE OutboxInv'
<1>1. UNCHANGED <<wire, relay, nextId, rows, queue, draft, drain, phase, log>>
  BY DEF RetryRefused, memory, disk, relay
<1>2. TailInv' /\ RowInv'
  <2>1. CASE open /\ phase = "up" /\ queue # <<>>
    <3>1. tail' = Append(tail, MarkOf(Head(queue), "resend"))
      BY <2>1 DEF RetryRefused
    <3>2. TailInv'
      BY <1>1, <2>1, <3>1, MarkAdded, ThreeParts
    <3> QED
      BY <1>1, <2>1, <3>2 DEF OutboxInv, RowInv, OneRow, NotUpYet
  <2>2. CASE ~(open /\ phase = "up" /\ queue # <<>>)
    <3>1. tail' = tail
      BY <2>2 DEF RetryRefused
    <3> QED
      BY <1>1, <3>1, EngineUnchanged DEF Stored
  <2> QED
    BY <2>1, <2>2
<1>3. WireInv'
  BY <1>1, LiveKept, RowsAreOld, WireUnchanged, ThreeParts DEF Drafting
<1> QED
  BY <1>2, <1>3 DEF OutboxInv, TailInv, RowInv, WireInv

-----------------------------------------------------------------------------
LEMMA InitHolds == Init => OutboxInv
<1> SUFFICES ASSUME Init PROVE OutboxInv
  OBVIOUS
<1>1. /\ phase = "down" /\ tail = <<>> /\ queue = <<>> /\ drain = "idle" /\ rows = {}
      /\ c2r = <<>> /\ r2c = <<>> /\ log = <<>> /\ receipts = {} /\ nextId = 1
  BY DEF Init
<1>2. /\ Places(tail) = {} /\ Places(queue) = {} /\ Places(c2r) = {} /\ Places(r2c) = {}
      /\ 1..Len(log) = {} /\ Len(queue) = 0
  BY <1>1 DEF Places
<1>3. Stored = {} /\ Ids(rows) = {} /\ Live = {} /\ ~Drafting
  BY <1>1, <1>2 DEF Stored, Ids, Live, Drafting
<1> QED
  BY <1>1, <1>2, <1>3 DEF OutboxInv, OneDrain, DraftAlone, CommitsOfHead, OneRow, NotUpYet,
     IdsAreOld, FinishedForGood, AcksAreStored, AtMostOnce

LEMMA InvStep == TypeOK /\ OutboxInv /\ [Next]_vars => OutboxInv'
<1> SUFFICES ASSUME TypeOK, OutboxInv, [Next]_vars PROVE OutboxInv'
  OBVIOUS
<1>1. CASE Start
  BY <1>1, StartKeeps
<1>2. CASE Ready
  BY <1>2, ReadyKeeps
<1>3. CASE Retire
  BY <1>3, RetireKeeps
<1>4. ASSUME NEW e \in Edits, Edit(e) PROVE OutboxInv'
  BY <1>4, EditKeeps
<1>5. CASE FireTimer
  BY <1>5, FireTimerKeeps
<1>6. CASE Sealed
  BY <1>6, SealedKeeps
<1>7. CASE RunTask
  BY <1>7, RunSaveKeeps, RunResumeKeeps, RunEnqueueKeeps, RunMarkKeeps, RunCommitKeeps DEF RunTask
<1>8. CASE Open
  BY <1>8, OpenKeeps
<1>9. CASE Close
  BY <1>9, CloseKeeps
<1>10. CASE Crash
  BY <1>10, CrashKeeps
<1>11. CASE Relay \/ RelayRefuse
  BY <1>11, RelayAppendKeeps, RelayConfirmKeeps, RelayRefuseKeeps DEF Relay
<1>12. CASE Receive
  BY <1>12, ReceiveAckKeeps, ReceiveRefusalKeeps DEF Receive
<1>13. CASE RetryRefused
  BY <1>13, RetryRefusedKeeps
<1>14. CASE UNCHANGED vars
  <2>1. UNCHANGED <<wire, relay, nextId, rows, queue, draft, drain, tail, phase, log>>
    BY <1>14 DEF vars, memory, disk, relay
  <2>2. TailInv' /\ RowInv'
    BY <2>1, EngineUnchanged DEF Stored
  <2>3. WireInv'
    BY <2>1, LiveKept, RowsAreOld, WireUnchanged, ThreeParts DEF Drafting
  <2> QED
    BY <2>2, <2>3 DEF OutboxInv, TailInv, RowInv, WireInv
<1> QED
  BY <1>1, <1>2, <1>3, <1>4, <1>5, <1>6, <1>7, <1>8, <1>9, <1>10, <1>11, <1>12, <1>13, <1>14
     DEF Next

\* The strengthened invariant of the outbox: one durable append at a time, and an operation
\* whose receipt the relay dropped or is about to drop is nowhere left to be sent.
THEOREM OutboxInvariant == Spec => []OutboxInv
BY InitHolds, InvStep, TypeCorrect, PTL DEF Spec

\* `The relay applies an outbox id once` (doc-sync.ts:219): whatever is resent on a reconnect or
\* after a refusal, replayed after a crash or acknowledged twice, no operation is stored twice.
THEOREM StoredAtMostOnce == Spec => []AtMostOnce
<1>1. OutboxInv => AtMostOnce
  BY DEF OutboxInv
<1> QED
  BY <1>1, OutboxInvariant, PTL

-----------------------------------------------------------------------------
(***************************************************************************)
(* Nothing is sent, queued or stored by the relay before the edits it      *)
(* holds are at rest in the document's row.  Rows only grow, so it is      *)
(* enough that an operation's edits are at rest when it is queued, and     *)
(* that an enqueue writes the edits together with the operation.           *)
(***************************************************************************)

Rests(op, upd) == op.content \subseteq upd

\* A mark sends what is at rest; an enqueue brings its edits with it.
TaskRests(task, upd) ==
    /\ task.t = "mark" => Rests(task.op, upd)
    /\ task.t = "enqueue" => Rests(task.op, task.upd)

Kept ==
    /\ \A op \in rows : Rests(op, row.upd)
    /\ \A i \in Places(queue) : Rests(queue[i], row.upd)
    /\ \A i \in Places(log) : Rests(log[i], row.upd)

Sent     == \A i \in Places(c2r) : c2r[i].t = "append" => Rests(c2r[i].op, row.upd)
Awaiting == \A i \in Places(tail) : TaskRests(tail[i], row.upd)
Sealing  == drain = "sealing" => Rests(draft, doc)

RestInv == Kept /\ Sent /\ Awaiting /\ Sealing

-----------------------------------------------------------------------------
(* What each part needs of a step.                                         *)

LEMMA KeptAgain ==
    ASSUME Kept, row.upd \subseteq row'.upd,
           \A op \in rows' : op \in rows \/ Rests(op, row'.upd),
           \A i \in Places(queue') : \/ \E j \in Places(queue) : queue'[i] = queue[j]
                                     \/ Rests(queue'[i], row'.upd),
           \A i \in Places(log') : \/ \E j \in Places(log) : log'[i] = log[j]
                                   \/ Rests(log'[i], row'.upd)
    PROVE  Kept'
BY DEF Kept, Rests

LEMMA SentAgain ==
    ASSUME Sent, row.upd \subseteq row'.upd,
           \A i \in Places(c2r') : \/ \E j \in Places(c2r) : c2r'[i] = c2r[j]
                                   \/ c2r'[i].t = "append" => Rests(c2r'[i].op, row'.upd)
    PROVE  Sent'
BY DEF Sent, Rests

LEMMA AwaitingAgain ==
    ASSUME Awaiting, row.upd \subseteq row'.upd,
           \A i \in Places(tail') : \/ \E j \in Places(tail) : tail'[i] = tail[j]
                                    \/ TaskRests(tail'[i], row'.upd)
    PROVE  Awaiting'
BY DEF Awaiting, TaskRests, Rests

LEMMA KeptUnchanged ==
    ASSUME Kept, row.upd \subseteq row'.upd, rows' \subseteq rows, UNCHANGED <<queue, log>>
    PROVE  Kept'
BY KeptAgain

LEMMA SentUnchanged ==
    ASSUME Sent, row.upd \subseteq row'.upd, UNCHANGED c2r
    PROVE  Sent'
BY SentAgain

LEMMA AwaitingUnchanged ==
    ASSUME Awaiting, row.upd \subseteq row'.upd, UNCHANGED tail
    PROVE  Awaiting'
BY AwaitingAgain

LEMMA NothingInPlace == ASSUME NEW s, s = <<>> PROVE Places(s) = {}
BY DEF Places

LEMMA HeadInPlace ==
    ASSUME NEW S, NEW s \in Seq(S), s # <<>>
    PROVE  1 \in Places(s) /\ Head(s) = s[1] /\ Head(s) \in S
BY HeadTailProperties, EmptySeq DEF Places

LEMMA TailLeft ==
    ASSUME TypeOK, tail # <<>>
    PROVE  \A i \in Places(Tail(tail)) : \E j \in Places(tail) : Tail(tail)[i] = tail[j]
BY TailPlaces DEF TypeOK

\* A save only adds to the row, and so do an enqueue and a commit.
LEMMA RowGrows ==
    ASSUME TypeOK, NEW task \in Task
    PROVE  /\ row.upd \subseteq SaveRow(task).upd
           /\ row.upd \subseteq EnqueueRow(task).upd
           /\ task.upd \subseteq EnqueueRow(task).upd
           /\ row.upd \subseteq CommitRow(task).upd
<1>1. row \in [upd: SUBSET Edits, syn: SUBSET Inserts, tok: SUBSET Edits]
  BY DEF TypeOK
<1>2. MergeRow(task.upd, task.syn).upd = row.upd \cup task.upd
  BY <1>1 DEF MergeRow
<1>3. MergeRow(task.upd, task.syn) \in [upd: {MergeRow(task.upd, task.syn).upd},
        syn: {MergeRow(task.upd, task.syn).syn}, tok: {MergeRow(task.upd, task.syn).tok}]
  BY <1>1 DEF MergeRow
<1>4. /\ SaveRow(task).upd = row.upd \cup task.upd
      /\ EnqueueRow(task).upd = row.upd \cup task.upd
  BY <1>2, <1>3 DEF SaveRow, EnqueueRow
<1>5. CommitRow(task).upd = row.upd \/ CommitRow(task).upd = row.upd \cup task.upd
  BY <1>2 DEF CommitRow
<1> QED
  BY <1>4, <1>5

LEMMA ResumeRests == ASSUME NEW d, NEW upd
    PROVE  \A i \in Places(DrainTasks(d)) : TaskRests(DrainTasks(d)[i], upd)
<1>1. CASE d = "idle"
  <2>1. DrainTasks(d) = <<[t |-> "resume"]>>
    BY <1>1 DEF DrainTasks
  <2> QED
    BY <2>1 DEF Places, TaskRests
<1>2. CASE d # "idle"
  BY <1>2, NothingInPlace DEF DrainTasks
<1> QED
  BY <1>1, <1>2

LEMMA ResendRests ==
    ASSUME NEW q \in Seq(Op), NEW d, NEW upd, \A i \in Places(q) : Rests(q[i], upd)
    PROVE  \A i \in Places(ResendTasks(q, d)) : TaskRests(ResendTasks(q, d)[i], upd)
<1>1. CASE q = <<>>
  BY <1>1, ResumeRests DEF ResendTasks
<1>2. CASE q # <<>>
  <2>1. Rests(Head(q), upd)
    BY <1>2, HeadInPlace
  <2>2. ResendTasks(q, d) = <<MarkOf(Head(q), "resend")>>
    BY <1>2 DEF ResendTasks
  <2>3. TaskRests(MarkOf(Head(q), "resend"), upd)
    BY <2>1 DEF MarkOf, TaskRests
  <2> QED
    BY <2>2, <2>3 DEF Places
<1> QED
  BY <1>1, <1>2

\* New tasks at the end of what is left of the cache queue.
LEMMA AwaitingMore ==
    ASSUME TypeOK, Awaiting, row.upd \subseteq row'.upd, NEW base \in Seq(Task),
           \A i \in Places(base) : \E j \in Places(tail) : base[i] = tail[j],
           NEW new \in Seq(Task), \A i \in Places(new) : TaskRests(new[i], row'.upd),
           tail' = base \o new
    PROVE  Awaiting'
<1>1. \A i \in Places(tail') :
        \/ i \in Places(base) /\ tail'[i] = base[i]
        \/ \E j \in Places(new) : tail'[i] = new[j]
  BY ConcatProperties DEF Places
<1> QED
  BY <1>1, AwaitingAgain

LEMMA AwaitingOne ==
    ASSUME TypeOK, Awaiting, row.upd \subseteq row'.upd, NEW base \in Seq(Task),
           \A i \in Places(base) : \E j \in Places(tail) : base[i] = tail[j],
           NEW new \in Task, TaskRests(new, row'.upd), tail' = Append(base, new)
    PROVE  Awaiting'
<1>1. \A i \in Places(tail') :
        \/ i \in Places(base) /\ tail'[i] = base[i]
        \/ tail'[i] = new
  BY AppendPlaces
<1> QED
  BY <1>1, AwaitingAgain

-----------------------------------------------------------------------------
(* Every step keeps it.                                                    *)

LEMMA ForgetRests ==
    ASSUME RestInv, Forget, row.upd \subseteq row'.upd,
           \A op \in rows' : op \in rows \/ Rests(op, row'.upd), UNCHANGED log
    PROVE  Kept' /\ Awaiting' /\ Sealing'
<1>1. queue' = <<>> /\ tail' = <<>> /\ drain' = "idle"
  BY DEF Forget
<1>2. Kept'
  BY <1>1, NothingInPlace, KeptAgain DEF RestInv
<1> QED
  BY <1>1, <1>2, NothingInPlace DEF Awaiting, Sealing

LEMMA StartRests == ASSUME RestInv, Start PROVE RestInv'
BY KeptUnchanged, SentUnchanged, AwaitingUnchanged
   DEF RestInv, Sealing, Start, memory, disk, wire, relay

LEMMA RetireRests == ASSUME RestInv, Retire PROVE RestInv'
<1>1. UNCHANGED <<row, rows, log, c2r>> /\ Forget
  BY DEF Retire, disk, relay, wire
<1> QED
  BY <1>1, ForgetRests, SentUnchanged DEF RestInv

LEMMA ReadyRests == ASSUME TypeOK, OutboxInv, RestInv, Ready PROVE RestInv'
<1>1. UNCHANGED <<row, rows, log, c2r, draft>> /\ doc \subseteq doc'
  BY DEF Ready, disk, relay, wire
<1>2. queue' \in Seq(Op) /\ rows = {queue'[i] : i \in Places(queue')}
  BY QueueRead DEF Ready, OutboxInv
<1>3. \A i \in Places(queue') : Rests(queue'[i], row.upd)
  BY <1>2 DEF RestInv, Kept
<1>4. Kept' /\ Sent'
  BY <1>1, <1>3, KeptAgain, SentUnchanged DEF RestInv
<1>5. CASE ResyncsDue = 0
  BY <1>1, <1>4, <1>5, AwaitingUnchanged DEF RestInv, Sealing, Ready, Rests
<1>6. CASE ResyncsDue # 0
  <2>1. tail' = tail \o IF queue' = <<>> THEN DrainTasks(drain)
                        ELSE [i \in 1..ResyncsDue |-> MarkOf(Head(queue'), "resend")]
    BY <1>6 DEF Ready
  <2>2. ResyncsDue \in Nat /\ tail \in Seq(Task)
    BY DEF ResyncsDue, TypeOK
  <2>3. ASSUME queue' = <<>> PROVE Awaiting'
    <3>1. DrainTasks(drain) \in Seq(Task)
      BY MadeTasks
    <3>2. \A i \in Places(DrainTasks(drain)) : TaskRests(DrainTasks(drain)[i], row'.upd)
      BY ResumeRests
    <3> QED
      BY <1>1, <2>1, <2>2, <2>3, <3>1, <3>2, AwaitingMore DEF RestInv
  <2>4. ASSUME queue' # <<>> PROVE Awaiting'
    <3> DEFINE mark == MarkOf(Head(queue'), "resend")
    <3> DEFINE marks == [i \in 1..ResyncsDue |-> mark]
    <3>1. Head(queue') \in Op /\ Rests(Head(queue'), row'.upd)
      BY <1>1, <1>2, <1>3, <2>4, HeadInPlace
    <3>2. mark \in Task /\ TaskRests(mark, row'.upd)
      BY <3>1, MadeTasks DEF MarkOf, TaskRests
    <3>3. marks \in Seq(Task) /\ \A i \in Places(marks) : marks[i] = mark
      <4> HIDE DEF mark
      <4> QED
        BY <2>2, <3>2, Repeated DEF Places
    <3>4. tail' = tail \o marks
      BY <2>1, <2>4
    <3> HIDE DEF marks, mark
    <3> QED
      BY <1>1, <2>2, <3>2, <3>3, <3>4, AwaitingMore DEF RestInv
  <2>5. Awaiting'
    BY <2>3, <2>4
  <2>6. Sealing'
    <3>1. drain' = ResendDrain(queue', drain)
      BY <1>6 DEF Ready
    <3>2. drain' = "sealing" => drain = "sealing"
      BY <3>1 DEF ResendDrain, Draining
    <3> QED
      BY <1>1, <3>2 DEF Sealing, RestInv, Rests
  <2> QED
    BY <1>4, <2>5, <2>6 DEF RestInv
<1> QED
  BY <1>5, <1>6

LEMMA EditRests == ASSUME TypeOK, RestInv, NEW e \in Edits, Edit(e) PROVE RestInv'
<1> DEFINE save == [t |-> "save", upd |-> doc', syn |-> synced, token |-> {e},
                    superseded |-> active]
<1>1. /\ UNCHANGED <<row, rows, queue, log, c2r, drain, draft>> /\ doc' = doc \cup {e}
      /\ tail' = Append(tail, save)
  BY DEF Edit, disk, relay, wire
<1>2. save \in Task /\ TaskRests(save, row'.upd)
  BY <1>1 DEF TypeOK, Task, SaveTask, TaskRests
<1> HIDE DEF save
<1>3. Awaiting'
  BY <1>1, <1>2, AwaitingOne DEF RestInv, TypeOK
<1> QED
  BY <1>1, <1>3, KeptUnchanged, SentUnchanged DEF RestInv, Sealing, Rests

LEMMA FireTimerRests == ASSUME TypeOK, RestInv, FireTimer PROVE RestInv'
<1>1. /\ UNCHANGED <<row, rows, queue, log, c2r, draft, doc>>
      /\ tail' = tail \o DrainTasks(drain) /\ drain' = Draining(drain)
  BY DEF FireTimer, disk, relay, wire
<1>2. DrainTasks(drain) \in Seq(Task)
  BY MadeTasks
<1>3. Awaiting'
  BY <1>1, <1>2, ResumeRests, AwaitingMore DEF RestInv, TypeOK
<1>4. drain' = "sealing" => drain = "sealing"
  BY <1>1 DEF Draining
<1> QED
  BY <1>1, <1>3, <1>4, KeptUnchanged, SentUnchanged DEF RestInv, Sealing

LEMMA TaskLeft ==
    ASSUME TypeOK, Awaiting, row.upd \subseteq row'.upd, tail # <<>>, tail' = Tail(tail)
    PROVE  Awaiting'
BY TailLeft, AwaitingAgain

LEMMA RunResumeRests == ASSUME TypeOK, RestInv, RunResume PROVE RestInv'
<1>1. /\ UNCHANGED <<row, rows, queue, log, c2r, doc>> /\ tail # <<>> /\ tail' = Tail(tail)
  BY DEF RunResume, disk, relay, wire
<1>2. drain' = "idle" \/ draft'.content = Diff
  BY DEF RunResume
<1>3. Diff \subseteq doc
  BY DEF Diff
<1> QED
  BY <1>1, <1>2, <1>3, TaskLeft, KeptUnchanged, SentUnchanged DEF RestInv, Sealing, Rests

LEMMA SealedRests == ASSUME TypeOK, RestInv, Sealed PROVE RestInv'
<1> DEFINE op == [draft EXCEPT !.sv = SealedVector]
<1> DEFINE enqueue == [t |-> "enqueue", op |-> op, upd |-> doc, syn |-> synced]
<1>1. /\ UNCHANGED <<row, rows, queue, log, c2r, doc>> /\ drain = "sealing" /\ drain' = "storing"
      /\ tail' = Append(tail, enqueue)
  BY DEF Sealed, disk, relay, wire
<1>2. op \in Op /\ op.content = draft.content
  BY DEF TypeOK, Op, SealedVector
<1>3. enqueue \in Task /\ TaskRests(enqueue, row'.upd)
  <2> HIDE DEF op
  <2> QED
    BY <1>1, <1>2 DEF TypeOK, Task, EnqueueTask, TaskRests, RestInv, Sealing, Rests
<1> HIDE DEF enqueue
<1>4. Awaiting'
  BY <1>1, <1>3, AwaitingOne DEF RestInv, TypeOK
<1> QED
  BY <1>1, <1>4, KeptUnchanged, SentUnchanged DEF RestInv, Sealing

LEMMA RunSaveRests == ASSUME TypeOK, RestInv, RunSave PROVE RestInv'
<1>1. /\ UNCHANGED <<rows, queue, log, c2r, drain, draft, doc>>
      /\ tail # <<>> /\ tail' = Tail(tail) /\ row' = SaveRow(Head(tail))
  BY DEF RunSave, memory, relay, wire
<1>2. row.upd \subseteq row'.upd
  BY <1>1, HeadTask, RowGrows
<1> QED
  BY <1>1, <1>2, TaskLeft, KeptUnchanged, SentUnchanged DEF RestInv, Sealing

LEMMA RunEnqueueRests == ASSUME TypeOK, RestInv, RunEnqueue PROVE RestInv'
<1> DEFINE op == Head(tail).op
<1>1. /\ UNCHANGED <<log, c2r>> /\ tail # <<>> /\ Head(tail).t = "enqueue"
      /\ row' = EnqueueRow(Head(tail)) /\ rows' = rows \cup {op}
      /\ queue' = Append(queue, op) /\ tail' = Append(Tail(tail), MarkOf(op, "drain"))
      /\ drain' = "sending"
  BY DEF RunEnqueue, relay, wire
<1>2. Head(tail) \in EnqueueTask /\ Head(tail) \in Task /\ Tail(tail) \in Seq(Task) /\ op \in Op
  BY <1>1, HeadTask, TaskKinds DEF EnqueueTask
<1>3. row.upd \subseteq row'.upd /\ Head(tail).upd \subseteq row'.upd
  BY <1>1, <1>2, RowGrows
<1>4. TaskRests(Head(tail), row.upd)
  BY <1>1, HeadInPlace DEF RestInv, Awaiting, TypeOK
<1>5. Rests(op, row'.upd)
  BY <1>1, <1>3, <1>4 DEF TaskRests, Rests
<1>6. \A i \in Places(queue') : (\E j \in Places(queue) : queue'[i] = queue[j]) \/ queue'[i] = op
  <2>1. queue \in Seq(Op)
    BY DEF TypeOK
  <2> HIDE DEF op
  <2>2. \A i \in Places(Append(queue, op)) :
          (i \in Places(queue) /\ Append(queue, op)[i] = queue[i]) \/ Append(queue, op)[i] = op
    BY <1>2, <2>1, AppendPlaces
  <2> QED
    BY <1>1, <2>2
<1>7. Kept'
  BY <1>1, <1>3, <1>5, <1>6, KeptAgain DEF RestInv
<1>8. MarkOf(op, "drain") \in Task /\ TaskRests(MarkOf(op, "drain"), row'.upd)
  BY <1>2, <1>5, MadeTasks DEF MarkOf, TaskRests
<1>9. Awaiting'
  BY <1>1, <1>2, <1>3, <1>8, TailLeft, AwaitingOne DEF RestInv
<1> QED
  BY <1>1, <1>3, <1>7, <1>9, SentUnchanged DEF RestInv, Sealing

\* A send adds one message at most to the socket.
LEMMA SendRests ==
    ASSUME TypeOK, Sent, row.upd \subseteq row'.upd, NEW m \in ClientMessage, Send(m),
           m.t = "append" => Rests(m.op, row'.upd)
    PROVE  Sent'
<1>1. c2r \in Seq(ClientMessage)
  BY DEF TypeOK
<1>2. c2r' = c2r \/ c2r' = Append(c2r, m)
  BY DEF Send
<1>3. \A i \in Places(c2r') : (\E j \in Places(c2r) : c2r'[i] = c2r[j]) \/ c2r'[i] = m
  BY <1>1, <1>2, AppendPlaces
<1> QED
  BY <1>3, SentAgain

LEMMA RunMarkRests == ASSUME TypeOK, RestInv, RunMark PROVE RestInv'
<1> DEFINE op == Head(tail).op
<1>1. /\ UNCHANGED <<row, rows, queue, log, draft, doc>> /\ tail # <<>> /\ Head(tail).t = "mark"
      /\ tail' = Tail(tail) /\ (drain' = "sealing" => drain = "sealing")
      /\ Send(Append1(op)) \/ UNCHANGED c2r
  BY DEF RunMark, disk, relay
<1>2. op \in Op
  BY <1>1, HeadTask, TaskKinds DEF MarkTask
<1>3. Rests(op, row.upd)
  BY <1>1, HeadInPlace DEF RestInv, Awaiting, TypeOK, TaskRests
<1>4. /\ Append1(op) \in ClientMessage
      /\ Append1(op).t = "append" => Rests(Append1(op).op, row'.upd)
  BY <1>1, <1>2, <1>3 DEF Append1, ClientMessage
<1>5. Sent'
  BY <1>1, <1>4, SendRests, SentUnchanged DEF RestInv
<1> QED
  BY <1>1, <1>5, TaskLeft, KeptUnchanged DEF RestInv, Sealing

LEMMA RunCommitRests == ASSUME TypeOK, RestInv, RunCommit PROVE RestInv'
<1> DEFINE task == Head(tail)
<1>1. /\ UNCHANGED <<log, draft, doc>> /\ tail # <<>> /\ task.t = "commit"
      /\ row' = CommitRow(task) /\ rows' \subseteq rows
  BY DEF RunCommit, relay, CommitRows
<1>2. task \in Task /\ task \in CommitTask /\ Tail(tail) \in Seq(Task) /\ task.op.id \in Nat
  BY <1>1, HeadTask, TaskKinds DEF CommitTask, Op
<1>3. row.upd \subseteq row'.upd
  BY <1>1, <1>2, RowGrows
<1>4. CASE Committed(task)
  <2>1. /\ queue' = IF queue = <<>> THEN <<>> ELSE Tail(queue)
        /\ Send(Confirm(task.op.id))
        /\ tail' = Tail(tail) \o ResendTasks(queue', drain)
        /\ drain' = ResendDrain(queue', drain)
    BY <1>4 DEF RunCommit
  <2>2. queue' \in Seq(Op) /\ \A i \in Places(queue') : \E j \in Places(queue) : queue'[i] = queue[j]
    <3>1. queue \in Seq(Op)
      BY DEF TypeOK
    <3>2. CASE queue = <<>>
      BY <2>1, <3>2, NothingInPlace, Empties
    <3>3. CASE queue # <<>>
      BY <2>1, <3>1, <3>3, TailPlaces, HeadTailProperties
    <3> QED
      BY <3>2, <3>3
  <2>3. Kept'
    BY <1>1, <1>3, <2>2, KeptAgain DEF RestInv
  <2>4. Sent'
    <3>1. Confirm(task.op.id) \in ClientMessage /\ Confirm(task.op.id).t # "append"
      BY <1>2 DEF Confirm, ClientMessage
    <3> QED
      BY <1>3, <2>1, <3>1, SendRests DEF RestInv
  <2>5. Awaiting'
    <3>1. \A i \in Places(queue') : Rests(queue'[i], row'.upd)
      BY <2>3 DEF Kept
    <3>2. ResendTasks(queue', drain) \in Seq(Task)
      BY <2>2, MadeTasks
    <3>3. \A i \in Places(ResendTasks(queue', drain)) :
            TaskRests(ResendTasks(queue', drain)[i], row'.upd)
      BY <2>2, <3>1, ResendRests
    <3> QED
      BY <1>1, <1>2, <1>3, <2>1, <3>2, <3>3, TailLeft, AwaitingMore DEF RestInv
  <2>6. drain' = "sealing" => drain = "sealing"
    BY <2>1 DEF ResendDrain, Draining
  <2> QED
    BY <1>1, <2>3, <2>4, <2>5, <2>6 DEF RestInv, Sealing
<1>5. CASE ~Committed(task)
  <2>1. UNCHANGED <<queue, c2r, drain>> /\ tail' = Tail(tail)
    BY <1>5 DEF RunCommit
  <2> QED
    BY <1>1, <1>3, <2>1, TaskLeft, KeptUnchanged, SentUnchanged DEF RestInv, Sealing
<1> QED
  BY <1>4, <1>5

LEMMA OpenRests == ASSUME TypeOK, RestInv, Open PROVE RestInv'
<1>1. UNCHANGED <<row, rows, queue, log, c2r, draft, doc>>
  BY DEF Open, disk, relay, wire
<1>2. CASE phase = "up"
  <2>1. tail' = tail \o ResendTasks(queue, drain) /\ drain' = ResendDrain(queue, drain)
    BY <1>2 DEF Open
  <2>2. queue \in Seq(Op) /\ tail \in Seq(Task) /\ ResendTasks(queue, drain) \in Seq(Task)
    BY MadeTasks DEF TypeOK
  <2>3. \A i \in Places(ResendTasks(queue, drain)) : TaskRests(ResendTasks(queue, drain)[i], row'.upd)
    BY <1>1, <2>2, ResendRests DEF RestInv, Kept
  <2>4. Awaiting'
    BY <1>1, <2>1, <2>2, <2>3, AwaitingMore DEF RestInv
  <2>5. drain' = "sealing" => drain = "sealing"
    BY <2>1 DEF ResendDrain, Draining
  <2> QED
    BY <1>1, <2>4, <2>5, KeptUnchanged, SentUnchanged DEF RestInv, Sealing
<1>3. CASE phase # "up"
  <2>1. UNCHANGED <<tail, drain>>
    BY <1>3 DEF Open
  <2> QED
    BY <1>1, <2>1, AwaitingUnchanged, KeptUnchanged, SentUnchanged DEF RestInv, Sealing
<1> QED
  BY <1>2, <1>3

LEMMA CloseRests == ASSUME RestInv, Close PROVE RestInv'
<1>1. UNCHANGED <<row, rows, queue, log, draft, doc, tail, drain>> /\ c2r' = <<>>
  BY DEF Close, memory, disk, relay
<1>2. Sent'
  BY <1>1, NothingInPlace DEF Sent
<1> QED
  BY <1>1, <1>2, AwaitingUnchanged, KeptUnchanged DEF RestInv, Sealing

LEMMA CrashRests == ASSUME TypeOK, RestInv, Crash PROVE RestInv'
<1>1. UNCHANGED log /\ Forget /\ c2r' = <<>>
  BY DEF Crash, relay
<1>2. row.upd \subseteq row'.upd /\ \A op \in rows' : op \in rows \/ Rests(op, row'.upd)
  <2>1. CASE UNCHANGED disk
    BY <2>1 DEF disk
  <2>2. CASE tail # <<>> /\ row' = Landed(Head(tail))[1] /\ rows' = Landed(Head(tail))[2]
    <3> DEFINE task == Head(tail)
    <3>1. task \in Task /\ TaskRests(task, row.upd)
      BY <2>2, HeadTask, HeadInPlace DEF RestInv, Awaiting, TypeOK
    <3>2. /\ row.upd \subseteq SaveRow(task).upd /\ row.upd \subseteq EnqueueRow(task).upd
          /\ task.upd \subseteq EnqueueRow(task).upd /\ row.upd \subseteq CommitRow(task).upd
      BY <3>1, RowGrows
    <3> HIDE DEF task
    <3>3. CASE task.t = "save"
      BY <2>2, <3>2, <3>3 DEF Landed, task
    <3>4. CASE task.t = "enqueue"
      <4>1. row' = EnqueueRow(task) /\ rows' = rows \cup {task.op}
        BY <2>2, <3>4 DEF Landed, task
      <4> QED
        BY <3>1, <3>2, <3>4, <4>1 DEF TaskRests, Rests
    <3>5. CASE task.t = "commit"
      BY <2>2, <3>2, <3>5 DEF Landed, CommitRows, task
    <3>6. CASE task.t \notin {"save", "enqueue", "commit"}
      BY <2>2, <3>6 DEF Landed, task
    <3> QED
      BY <3>3, <3>4, <3>5, <3>6
  <2> QED
    BY <2>1, <2>2 DEF Crash
<1>3. Sent'
  BY <1>1, NothingInPlace DEF Sent
<1> QED
  BY <1>1, <1>2, <1>3, ForgetRests DEF RestInv

LEMMA MessageLeft ==
    ASSUME TypeOK, Sent, row.upd \subseteq row'.upd, c2r # <<>>, c2r' = Tail(c2r)
    PROVE  Sent'
<1>1. c2r \in Seq(ClientMessage)
  BY DEF TypeOK
<1>2. \A i \in Places(c2r') : \E j \in Places(c2r) : c2r'[i] = c2r[j]
  BY <1>1, TailPlaces
<1> QED
  BY <1>2, SentAgain

LEMMA RelayRests == ASSUME TypeOK, RestInv, Relay \/ RelayRefuse PROVE RestInv'
<1>1. /\ UNCHANGED <<row, rows, queue, tail, drain, draft, doc>>
      /\ c2r # <<>> /\ c2r' = Tail(c2r)
  BY DEF Relay, RelayRefuse, RelayAppend, RelayConfirm, memory, disk
<1>2. Sent'
  BY <1>1, MessageLeft DEF RestInv
<1>3. CASE UNCHANGED log
  BY <1>1, <1>2, <1>3, KeptUnchanged, AwaitingUnchanged DEF RestInv, Sealing
<1>4. CASE Head(c2r).t = "append" /\ log' = Append(log, Head(c2r).op)
  <2>1. Head(c2r) \in ClientMessage /\ Rests(Head(c2r).op, row.upd)
    BY <1>1, <1>4, HeadInPlace DEF RestInv, Sent, TypeOK
  <2>2. Head(c2r).op \in Op
    BY <1>4, <2>1 DEF ClientMessage
  <2>3. \A i \in Places(log') : (\E j \in Places(log) : log'[i] = log[j]) \/ log'[i] = Head(c2r).op
    <3> DEFINE op == Head(c2r).op
    <3>1. log \in Seq(Op) /\ op \in Op /\ log' = Append(log, op)
      BY <1>4, <2>2 DEF TypeOK
    <3> HIDE DEF op
    <3>2. \A i \in Places(Append(log, op)) :
            (i \in Places(log) /\ Append(log, op)[i] = log[i]) \/ Append(log, op)[i] = op
      BY <3>1, AppendPlaces
    <3> QED
      BY <3>1, <3>2 DEF op
  <2>4. Kept'
    BY <1>1, <2>1, <2>3, KeptAgain DEF RestInv
  <2> QED
    BY <1>1, <1>2, <2>4, AwaitingUnchanged DEF RestInv, Sealing
<1> QED
  BY <1>3, <1>4 DEF Relay, RelayRefuse, RelayAppend, RelayConfirm, relay

LEMMA ReceiveRests == ASSUME TypeOK, RestInv, Receive PROVE RestInv'
<1>1. UNCHANGED <<row, rows, queue, drain, draft, doc, log, c2r>>
  BY DEF Receive, ReceiveAck, ReceiveRefusal, memory, disk, relay, wire
<1> DEFINE commit == [t |-> "commit", op |-> Head(queue), upd |-> doc, syn |-> AckedVector]
<1>2. UNCHANGED tail \/ (queue # <<>> /\ tail' = Append(tail, commit))
  BY DEF Receive, ReceiveAck, ReceiveRefusal, AcksHead
<1>3. CASE UNCHANGED tail
  BY <1>1, <1>3, KeptUnchanged, SentUnchanged, AwaitingUnchanged DEF RestInv, Sealing
<1>4. CASE queue # <<>> /\ tail' = Append(tail, commit)
  <2>1. Head(queue) \in Op
    BY <1>4, HeadInPlace DEF TypeOK
  <2>2. commit \in Task /\ TaskRests(commit, row'.upd)
    BY <2>1 DEF TypeOK, Task, CommitTask, TaskRests, AckedVector, Op
  <2> HIDE DEF commit
  <2>3. Awaiting'
    BY <1>1, <1>4, <2>2, AwaitingOne DEF RestInv, TypeOK
  <2> QED
    BY <1>1, <2>3, KeptUnchanged, SentUnchanged DEF RestInv, Sealing
<1> QED
  BY <1>2, <1>3, <1>4

LEMMA RetryRests == ASSUME TypeOK, RestInv, RetryRefused PROVE RestInv'
<1>1. UNCHANGED <<row, rows, queue, drain, draft, doc, log, c2r>>
  BY DEF RetryRefused, memory, disk, relay, wire
<1>2. CASE UNCHANGED tail
  BY <1>1, <1>2, KeptUnchanged, SentUnchanged, AwaitingUnchanged DEF RestInv, Sealing
<1>3. CASE queue # <<>> /\ tail' = Append(tail, MarkOf(Head(queue), "resend"))
  <2>1. Head(queue) \in Op /\ Rests(Head(queue), row.upd)
    BY <1>3, HeadInPlace DEF TypeOK, RestInv, Kept
  <2>2. /\ MarkOf(Head(queue), "resend") \in Task
        /\ TaskRests(MarkOf(Head(queue), "resend"), row'.upd)
    BY <1>1, <2>1, MadeTasks DEF MarkOf, TaskRests
  <2>3. Awaiting'
    BY <1>1, <1>3, <2>2, AwaitingOne DEF RestInv, TypeOK
  <2> QED
    BY <1>1, <2>3, KeptUnchanged, SentUnchanged DEF RestInv, Sealing
<1> QED
  BY <1>2, <1>3 DEF RetryRefused

-----------------------------------------------------------------------------
LEMMA RestStep == TypeOK /\ OutboxInv /\ RestInv /\ [Next]_vars => RestInv'
<1> SUFFICES ASSUME TypeOK, OutboxInv, RestInv, [Next]_vars PROVE RestInv'
  OBVIOUS
<1>1. CASE Start \/ Ready \/ Retire
  BY <1>1, StartRests, ReadyRests, RetireRests
<1>2. ASSUME NEW e \in Edits, Edit(e) PROVE RestInv'
  BY <1>2, EditRests
<1>3. CASE FireTimer \/ Sealed
  BY <1>3, FireTimerRests, SealedRests
<1>4. CASE RunTask
  BY <1>4, RunSaveRests, RunResumeRests, RunEnqueueRests, RunMarkRests, RunCommitRests DEF RunTask
<1>5. CASE Open \/ Close \/ Crash
  BY <1>5, OpenRests, CloseRests, CrashRests
<1>6. CASE Relay \/ RelayRefuse \/ Receive \/ RetryRefused
  BY <1>6, RelayRests, ReceiveRests, RetryRests
<1>7. CASE UNCHANGED vars
  BY <1>7, KeptUnchanged, SentUnchanged, AwaitingUnchanged
     DEF RestInv, Sealing, vars, memory, disk, wire, relay
<1> QED
  BY <1>1, <1>2, <1>3, <1>4, <1>5, <1>6, <1>7 DEF Next

LEMMA RestEverywhere == Spec => []RestInv
<1>1. Init => RestInv
  BY NothingInPlace DEF Init, RestInv, Kept, Sent, Awaiting, Sealing
<1> QED
  BY <1>1, RestStep, TypeCorrect, OutboxInvariant, PTL DEF Spec

\* `Local state is written to IndexedDB before transmission` (doc-sync.ts:2): what the socket
\* carries and what the relay holds is at rest in the document's row.
THEOREM WrittenBeforeSent == Spec => []DurableBeforeSent
<1>1. RestInv => DurableBeforeSent
  BY DEF RestInv, Kept, Sent, Rests, DurableBeforeSent, Held, InTransit, Places
<1> QED
  BY <1>1, RestEverywhere, PTL

\* The engine's queue and the durable outbox never disagree: no row waits for a restart to be
\* sent, and nothing is sent that a restart would forget.
THEOREM QueueIsTheOutbox == Spec => []QueueMirrorsOutbox
<1>1. OutboxInv => QueueMirrorsOutbox
  BY DEF OutboxInv, OneRow, QueueMirrorsOutbox, Ids, Places
<1> QED
  BY <1>1, OutboxInvariant, PTL

-----------------------------------------------------------------------------
(* What the socket carries is in the outbox or was already stored.         *)

Accounted == Ids(rows) \cup Stored
InHand == \A i \in Places(c2r) : c2r[i].t = "append" => c2r[i].op.id \in Accounted

LEMMA StoredGrows ==
    ASSUME TypeOK, UNCHANGED log \/ \E op \in Op : log' = Append(log, op)
    PROVE  Stored \subseteq Stored'
<1>1. CASE UNCHANGED log
  BY <1>1 DEF Stored
<1>2. ASSUME NEW op \in Op, log' = Append(log, op) PROVE Stored \subseteq Stored'
  <2>1. log \in Seq(Op)
    BY DEF TypeOK
  <2>2. Len(log') = Len(log) + 1 /\ \A i \in 1..Len(log) : log'[i] = log[i]
    BY <1>2, <2>1, AppendProperties
  <2> QED
    BY <2>1, <2>2, LenProperties DEF Stored
<1> QED
  BY <1>1, <1>2

LEMMA InHandAgain ==
    ASSUME InHand, Accounted \subseteq Accounted',
           \A i \in Places(c2r') : \/ \E j \in Places(c2r) : c2r'[i] = c2r[j]
                                   \/ c2r'[i].t = "append" => c2r'[i].op.id \in Accounted'
    PROVE  InHand'
BY DEF InHand

LEMMA InHandStep == TypeOK /\ OutboxInv /\ InHand /\ [Next]_vars => InHand'
<1> SUFFICES ASSUME TypeOK, OutboxInv, InHand, [Next]_vars PROVE InHand'
  OBVIOUS
<1>0. c2r \in Seq(ClientMessage)
  BY DEF TypeOK
<1>1. ASSUME UNCHANGED <<c2r, rows, log>> PROVE InHand'
  BY <1>1 DEF InHand, Accounted, Stored
<1>2. CASE RunEnqueue
  <2>1. UNCHANGED <<c2r, log>> /\ rows \subseteq rows'
    BY <1>2 DEF RunEnqueue, wire, relay
  <2> QED
    BY <2>1, InHandAgain DEF Accounted, Stored, Ids
<1>3. CASE RunMark
  <2> DEFINE op == Head(tail).op
  <2>1. /\ UNCHANGED <<rows, log>> /\ phase = "up" /\ tail # <<>> /\ Head(tail).t = "mark"
        /\ UNCHANGED c2r \/ (StillHead(op) /\ Send(Append1(op)))
    BY <1>3 DEF RunMark, disk, relay
  <2>2. CASE UNCHANGED c2r
    BY <1>1, <2>1, <2>2
  <2>3. CASE StillHead(op) /\ Send(Append1(op))
    <3>1. 1 \in Places(queue) /\ op.id = queue[1].id
      BY <2>3, HeadInPlace DEF StillHead, TypeOK
    <3>2. op.id \in Accounted
      BY <2>1, <3>1 DEF OutboxInv, OneRow, Ids, Accounted
    <3>3. op \in Op
      BY <2>1, HeadTask, TaskKinds DEF MarkTask
    <3>4. Append1(op) \in ClientMessage /\ Append1(op).op.id = op.id
      BY <3>3 DEF Append1, ClientMessage
    <3>5. \A i \in Places(c2r') : (\E j \in Places(c2r) : c2r'[i] = c2r[j]) \/ c2r'[i] = Append1(op)
      BY <1>0, <2>3, <3>4, AppendPlaces DEF Send
    <3>6. Accounted' = Accounted
      BY <2>1 DEF Accounted, Stored
    <3> QED
      BY <3>2, <3>4, <3>5, <3>6, InHandAgain
  <2> QED
    BY <2>1, <2>2, <2>3
<1>4. CASE RunCommit
  <2> DEFINE task == Head(tail)
  <2>1. /\ UNCHANGED log /\ tail # <<>> /\ task.t = "commit" /\ rows' = CommitRows(task)
        /\ UNCHANGED c2r \/ Send(Confirm(task.op.id))
    BY <1>4 DEF RunCommit, relay
  <2>2. task.op.id \in Stored /\ task.op.id \in Nat
    BY <2>1, HeadInPlace, HeadTask, TaskKinds DEF TypeOK, OutboxInv, CommitsOfHead, CommitTask, Op
  <2>3. Accounted \subseteq Accounted'
    BY <2>1, <2>2 DEF CommitRows, Accounted, Stored, Ids
  <2>4. Confirm(task.op.id) \in ClientMessage /\ Confirm(task.op.id).t # "append"
    BY <2>2 DEF Confirm, ClientMessage
  <2>5. c2r' = c2r \/ c2r' = Append(c2r, Confirm(task.op.id))
    BY <2>1 DEF Send
  <2>6. \A i \in Places(c2r') :
          (\E j \in Places(c2r) : c2r'[i] = c2r[j]) \/ c2r'[i] = Confirm(task.op.id)
    BY <1>0, <2>4, <2>5, AppendPlaces
  <2> QED
    BY <2>3, <2>4, <2>6, InHandAgain
<1>5. CASE Close \/ Crash
  <2>1. c2r' = <<>>
    BY <1>5 DEF Close, Crash
  <2> QED
    BY <2>1, NothingInPlace DEF InHand
<1>6. CASE Relay \/ RelayRefuse
  <2>1. UNCHANGED rows /\ c2r # <<>> /\ c2r' = Tail(c2r)
    BY <1>6 DEF Relay, RelayRefuse, RelayAppend, RelayConfirm, disk
  <2>2. Head(c2r) \in ClientMessage /\ (Head(c2r).t = "append" => Head(c2r).op \in Op)
    BY <1>0, <2>1, HeadInPlace DEF ClientMessage
  <2>3. UNCHANGED log \/ \E op \in Op : log' = Append(log, op)
    BY <1>6, <2>2 DEF Relay, RelayRefuse, RelayAppend, RelayConfirm, relay
  <2>4. Accounted \subseteq Accounted'
    BY <2>1, <2>3, StoredGrows DEF Accounted
  <2>5. \A i \in Places(c2r') : \E j \in Places(c2r) : c2r'[i] = c2r[j]
    BY <1>0, <2>1, TailPlaces
  <2> QED
    BY <2>4, <2>5, InHandAgain
<1>7. CASE Start \/ Ready \/ Retire \/ \E e \in Edits : Edit(e)
  BY <1>1, <1>7 DEF Start, Ready, Retire, Edit, disk, wire, relay
<1>8. CASE FireTimer \/ Sealed \/ RunSave \/ RunResume \/ Open \/ Receive \/ RetryRefused
  BY <1>1, <1>8 DEF FireTimer, Sealed, RunSave, RunResume, Open, Receive, ReceiveAck,
     ReceiveRefusal, RetryRefused, disk, wire, relay
<1>9. CASE UNCHANGED vars
  BY <1>1, <1>9 DEF vars, disk, wire, relay
<1> QED
  BY <1>2, <1>3, <1>4, <1>5, <1>6, <1>7, <1>8, <1>9 DEF Next, RunTask

\* `at most one durable append per document is in flight` (doc-sync.ts:3).
THEOREM AtMostOneInFlight == Spec => []OneInFlight
<1>1. Init => InHand
  BY NothingInPlace DEF Init, InHand
<1>2. OutboxInv /\ InHand => OneInFlight
  <2> SUFFICES ASSUME OutboxInv, InHand PROVE OneInFlight
    OBVIOUS
  <2>1. \A a, b \in rows : a = b
    BY DEF OutboxInv, OneRow
  <2>2. ASSUME rows = {} PROVE Cardinality(Ids(rows)) <= 1
    <3>1. Ids(rows) = {}
      BY <2>2 DEF Ids
    <3>2. Cardinality(Ids(rows)) = 0
      BY <3>1, FS_EmptySet
    <3> QED
      BY <3>2
  <2>3. ASSUME NEW op \in rows PROVE Cardinality(Ids(rows)) <= 1
    <3>1. Ids(rows) = {op.id}
      BY <2>1, <2>3 DEF Ids
    <3>2. Cardinality(Ids(rows)) = 1
      BY <3>1, FS_Singleton
    <3> QED
      BY <3>2
  <2>4. Cardinality(Ids(rows)) <= 1
    BY <2>2, <2>3
  <2>5. Ids(InTransit) \subseteq Ids(rows) \cup Stored
    BY DEF InHand, Accounted, InTransit, Ids, Places
  <2> QED
    BY <2>4, <2>5 DEF OneInFlight
<1> QED
  BY <1>1, <1>2, InHandStep, TypeCorrect, OutboxInvariant, PTL DEF Spec

-----------------------------------------------------------------------------
(* OutboxDelivery implements the safety part of ReliableOutbox: its rows   *)
(* are the outbox, the ids in the relay's log what is stored.  Beside the  *)
(* invariants proved before, a step needs that the operation being made is *)
(* one nobody has seen.                                                    *)


StoredLog == [i \in 1..Len(log) |-> log[i].id]

DraftIsNew == Drafting => draft.id \in 1..MaxOps /\ draft.id \notin Accounted

-----------------------------------------------------------------------------
(* The operation being made.                                               *)

LEMMA DraftStaysNew ==
    ASSUME DraftIsNew, Drafting' => Drafting /\ draft' = draft, Accounted' \subseteq Accounted
    PROVE  DraftIsNew'
BY DEF DraftIsNew

\* Asking for a drain starts none.
LEMMA DrainOnlyAsked ==
    \A q, d : /\ Draining(d) \in {d, "tail"}
              /\ ResendDrain(q, d) \in {d, "tail"}
BY DEF Draining, ResendDrain

\* What the relay stores, the outbox or the log had.
LEMMA StoresAccounted ==
    ASSUME TypeOK, InHand, RelayAppend
    PROVE  Accounted' \subseteq Accounted
<1>1. /\ c2r \in Seq(ClientMessage) /\ c2r # <<>> /\ Head(c2r).t = "append"
      /\ UNCHANGED rows /\ log \in Seq(Op)
      /\ UNCHANGED log \/ log' = Append(log, Head(c2r).op)
  BY DEF RelayAppend, TypeOK, disk, relay
<1>2. 1 \in Places(c2r) /\ c2r[1] = Head(c2r) /\ Head(c2r).op \in Op
  BY <1>1, HeadInPlace DEF ClientMessage
<1>3. Head(c2r).op.id \in Accounted
  BY <1>1, <1>2 DEF InHand
<1>4. Stored' \subseteq Stored \cup {Head(c2r).op.id}
  <2>1. CASE UNCHANGED log
    BY <2>1 DEF Stored
  <2>2. CASE log' = Append(log, Head(c2r).op)
    BY <1>1, <1>2, <2>2, AppendPlaces DEF Stored, Places
  <2> QED
    BY <1>1, <2>1, <2>2
<1> QED
  BY <1>1, <1>3, <1>4 DEF Accounted

LEMMA DraftIsNewStep == TypeOK /\ OutboxInv /\ InHand /\ DraftIsNew /\ [Next]_vars => DraftIsNew'
<1> SUFFICES ASSUME TypeOK, OutboxInv, InHand, DraftIsNew, [Next]_vars PROVE DraftIsNew'
  OBVIOUS
<1>1. ASSUME UNCHANGED <<draft, rows, log>>, Drafting' => Drafting PROVE DraftIsNew'
  BY <1>1, DraftStaysNew DEF Accounted, Stored
<1>2. ASSUME drain' \in {"idle", "tail", "sending"} PROVE DraftIsNew'
  BY <1>2 DEF DraftIsNew, Drafting
<1>3. CASE Retire \/ RunEnqueue \/ Crash
  BY <1>2, <1>3 DEF Retire, RunEnqueue, Crash, Forget
<1>4. CASE Ready \/ FireTimer \/ Open
  <2>1. UNCHANGED <<draft, rows, log>>
    BY <1>4 DEF Ready, FireTimer, Open, disk, relay
  <2>2. drain' \in {drain, "tail"}
    BY <1>4, DrainOnlyAsked DEF Ready, FireTimer, Open
  <2> QED
    BY <1>1, <2>1, <2>2 DEF Drafting
<1>5. CASE RunResume
  <2>1. CASE drain' = "idle"
    BY <1>2, <2>1
  <2>2. CASE drain' = "sealing"
    <3>1. /\ phase = "up" /\ queue = <<>> /\ UNCHANGED <<rows, log>>
          /\ draft'.id = nextId /\ nextId <= MaxOps
      BY <1>5, <2>2 DEF RunResume, MayDrain, disk, relay
    <3>2. rows = {}
      BY <3>1 DEF OutboxInv, OneRow, Places
    <3>3. nextId \in 1..MaxOps /\ nextId \notin Stored
      BY <3>1, BoundsAssumption DEF OutboxInv, IdsAreOld
    <3>4. Accounted' = Stored
      BY <3>1, <3>2 DEF Accounted, Stored, Ids
    <3> QED
      BY <3>1, <3>3, <3>4 DEF DraftIsNew
  <2> QED
    BY <1>5, <2>1, <2>2 DEF RunResume
<1>6. CASE Sealed \/ RunSave
  BY <1>1, <1>6 DEF Sealed, RunSave, Drafting, disk, relay, memory
<1>7. CASE RunMark
  <2>1. UNCHANGED <<draft, rows, log>> /\ drain' \in {drain, "idle"}
    BY <1>7 DEF RunMark, disk, relay
  <2> QED
    BY <1>1, <2>1 DEF Drafting
<1>8. CASE RunCommit
  <2>1. UNCHANGED <<draft, log>> /\ rows' \subseteq rows /\ drain' \in {drain, "tail"}
    BY <1>8, DrainOnlyAsked DEF RunCommit, CommitRows, relay
  <2>2. Accounted' \subseteq Accounted
    BY <2>1 DEF Accounted, Stored, Ids
  <2> QED
    BY <2>1, <2>2, DraftStaysNew DEF Drafting
<1>9. CASE RelayAppend
  <2>1. UNCHANGED <<drain, draft>>
    BY <1>9 DEF RelayAppend, memory
  <2> QED
    BY <1>9, <2>1, StoresAccounted, DraftStaysNew DEF Drafting
<1>10. CASE Start \/ Close \/ RelayRefuse \/ RelayConfirm \/ Receive \/ RetryRefused
  <2>1. UNCHANGED <<drain, draft, rows, log>>
    BY <1>10 DEF Start, Close, RelayRefuse, RelayConfirm, Receive, ReceiveAck, ReceiveRefusal,
       RetryRefused, memory, disk, relay
  <2> QED
    BY <1>1, <2>1 DEF Drafting
<1>11. CASE \E e \in Edits : Edit(e)
  <2>1. UNCHANGED <<drain, draft, rows, log>>
    BY <1>11 DEF Edit, disk, relay
  <2> QED
    BY <1>1, <2>1 DEF Drafting
<1>12. CASE UNCHANGED vars
  BY <1>1, <1>12 DEF vars, memory, disk, relay, Drafting
<1> QED
  BY <1>3, <1>4, <1>5, <1>6, <1>7, <1>8, <1>9, <1>10, <1>11, <1>12 DEF Next, RunTask, Relay

-----------------------------------------------------------------------------
(* The steps of the abstract outbox.                                       *)

LEMMA StoredLogIs ==
    ASSUME TypeOK
    PROVE  /\ StoredLog \in Seq(Nat) /\ Len(StoredLog) = Len(log)
           /\ {StoredLog[i] : i \in 1..Len(StoredLog)} = Stored
<1>1. Len(log) \in Nat /\ \A i \in 1..Len(log) : log[i].id \in Nat
  <2>1. log \in Seq(Op)
    BY DEF TypeOK
  <2>2. Len(log) \in Nat /\ \A i \in 1..Len(log) : log[i] \in Op
    BY <2>1, LenProperties, ElementOfSeq
  <2> QED
    BY <2>2 DEF Op
<1>2. StoredLog \in Seq(Nat) /\ Len(StoredLog) = Len(log)
  BY <1>1 DEF StoredLog
<1> QED
  BY <1>2 DEF StoredLog, Stored

\* An operation enters the outbox when its transaction lands, told or not.
LEMMA Accepts ==
    ASSUME TypeOK, OutboxInv, DraftIsNew, UNCHANGED log,
           phase = "up", tail # <<>>, Head(tail).t = "enqueue", rows' = rows \cup {Head(tail).op}
    PROVE  Promise!Next
<1> DEFINE op == Head(tail).op
<1>1. 1 \in Places(tail) /\ tail[1] = Head(tail)
  BY HeadInPlace DEF TypeOK
<1>2. drain = "storing" /\ op.id = draft.id /\ queue = <<>>
  BY <1>1, StageOfKinds DEF OutboxInv, OneDrain, DraftAlone, Drafting
<1>3. rows = {} /\ rows' = {op}
  BY <1>2 DEF OutboxInv, OneRow, Places
<1>4. Ids(rows) = {} /\ Ids(rows') = {op.id}
  BY <1>3 DEF Ids
<1>5. op.id \in 1..MaxOps /\ op.id \notin Stored
  BY <1>2 DEF DraftIsNew, Drafting, Accounted
<1>6. Promise!Accept(op.id)
  BY <1>4, <1>5, StoredLogIs DEF Promise!Accept, Promise!StoredIds, StoredLog
<1> QED
  BY <1>5, <1>6 DEF Promise!Next

\* An operation leaves the outbox when its acknowledgement lands, told or not.
LEMMA Settles ==
    ASSUME TypeOK, OutboxInv, UNCHANGED log,
           tail # <<>>, Head(tail).t = "commit", rows' = CommitRows(Head(tail))
    PROVE  [Promise!Next]_(Promise!vars)
<1> DEFINE op == Head(tail).op
<1>1. 1 \in Places(tail) /\ tail[1] = Head(tail)
  BY HeadInPlace DEF TypeOK
<1>2. op.id \in Stored
  BY <1>1 DEF OutboxInv, CommitsOfHead
<1>3. Ids(rows') = Ids(rows) \ {op.id}
  BY DEF CommitRows, Ids
<1>4. CASE op.id \in Ids(rows)
  <2>1. Promise!Settle(op.id)
    BY <1>2, <1>3, <1>4, StoredLogIs DEF Promise!Settle, Promise!StoredIds, StoredLog
  <2> QED
    BY <1>4, <2>1 DEF Promise!Next, Promise!Deliver
<1>5. CASE op.id \notin Ids(rows)
  BY <1>3, <1>5 DEF Promise!vars
<1> QED
  BY <1>4, <1>5

\* The relay stores an operation of the outbox, or answers from a receipt.
LEMMA Stores ==
    ASSUME TypeOK, OutboxInv, InHand, RelayAppend
    PROVE  [Promise!Next]_(Promise!vars)
<1> DEFINE op == Head(c2r).op
<1>1. /\ c2r \in Seq(ClientMessage) /\ c2r # <<>> /\ Head(c2r).t = "append"
      /\ UNCHANGED rows /\ log \in Seq(Op)
      /\ UNCHANGED log \/ (op.id \notin receipts /\ log' = Append(log, op))
  BY DEF RelayAppend, TypeOK, disk, relay
<1>2. 1 \in Places(c2r) /\ c2r[1] = Head(c2r) /\ op \in Op
  BY <1>1, HeadInPlace DEF ClientMessage
<1>3. CASE UNCHANGED log
  BY <1>1, <1>3 DEF Promise!vars
<1>4. CASE op.id \notin receipts /\ log' = Append(log, op)
  <2>1. op.id \notin Stored
    BY <1>1, <1>2, <1>4 DEF OutboxInv, FinishedForGood
  <2>2. op.id \in Ids(rows)
    BY <1>1, <1>2, <2>1 DEF InHand, Accounted
  <2>3. StoredLog' = Append(StoredLog, op.id)
    <3>1. op.id \in Nat
      BY <1>2 DEF Op
    <3>2. Len(log') = Len(log) + 1 /\ Len(log) \in Nat
      BY <1>1, <1>2, <1>4, AppendProperties, LenProperties
    <3>3. \A i \in 1..Len(log) : log'[i] = log[i]
      BY <1>1, <1>2, <1>4, AppendProperties
    <3>4. log'[Len(log) + 1] = op
      BY <1>1, <1>2, <1>4, AppendProperties
    <3>5. StoredLog \in Seq(Nat) /\ Len(StoredLog) = Len(log)
      BY StoredLogIs
    <3>6. /\ StoredLog' = [i \in 1..(Len(log) + 1) |-> log'[i].id]
          /\ StoredLog' \in Seq(Nat) /\ Len(StoredLog') = Len(log) + 1
      <4>1. StoredLog' = [i \in 1..(Len(log) + 1) |-> log'[i].id]
        BY <3>2 DEF StoredLog
      <4>2. \A i \in 1..Len(log) : log'[i].id \in Nat
        <5>1. \A i \in 1..Len(log) : log[i] \in Op
          BY <1>1, ElementOfSeq
        <5> QED
          BY <3>3, <5>1 DEF Op
      <4>3. \A i \in 1..(Len(log) + 1) : i \in 1..Len(log) \/ i = Len(log) + 1
        BY <3>2
      <4>4. \A i \in 1..(Len(log) + 1) : log'[i].id \in Nat
        BY <3>1, <3>4, <4>2, <4>3
      <4> QED
        BY <3>2, <4>1, <4>4
    <3>7. /\ Append(StoredLog, op.id) \in Seq(Nat)
          /\ Len(Append(StoredLog, op.id)) = Len(log) + 1
          /\ \A i \in 1..Len(log) : Append(StoredLog, op.id)[i] = StoredLog[i]
          /\ Append(StoredLog, op.id)[Len(log) + 1] = op.id
      BY <3>1, <3>5, AppendProperties
    <3>8. \A i \in 1..(Len(log) + 1) : StoredLog'[i] = Append(StoredLog, op.id)[i]
      BY <3>2, <3>3, <3>4, <3>6, <3>7 DEF StoredLog
    <3> QED
      BY <3>6, <3>7, <3>8, SeqEqual
  <2>4. PICK id \in Ids(rows) : id = op.id
    BY <2>2
  <2>5. Promise!Store(id)
    BY <1>1, <2>1, <2>3, <2>4, StoredLogIs DEF Promise!Store, Promise!StoredIds, StoredLog
  <2>6. Promise!Deliver
    BY <2>5 DEF Promise!Deliver
  <2> QED
    BY <2>6 DEF Promise!Next
<1> QED
  BY <1>1, <1>3, <1>4

LEMMA StepRefines ==
    TypeOK /\ OutboxInv /\ InHand /\ DraftIsNew /\ [Next]_vars => [Promise!Next]_(Promise!vars)
<1> SUFFICES ASSUME TypeOK, OutboxInv, InHand, DraftIsNew, [Next]_vars
             PROVE  [Promise!Next]_(Promise!vars)
  OBVIOUS
<1>1. ASSUME UNCHANGED <<rows, log>> PROVE [Promise!Next]_(Promise!vars)
  BY <1>1 DEF Promise!vars
<1>2. CASE RunEnqueue
  BY <1>2, Accepts DEF RunEnqueue, relay
<1>3. CASE RunCommit
  BY <1>3, Settles DEF RunCommit, relay
<1>4. CASE Crash
  <2>1. UNCHANGED log
    BY <1>4 DEF Crash, relay
  <2>2. CASE UNCHANGED rows
    BY <1>1, <2>1, <2>2
  <2>3. CASE phase = "up" /\ tail # <<>> /\ rows' = Landed(Head(tail))[2]
    <3>1. CASE Head(tail).t = "enqueue"
      BY <2>1, <2>3, <3>1, Accepts DEF Landed
    <3>2. CASE Head(tail).t = "commit"
      BY <2>1, <2>3, <3>2, Settles DEF Landed
    <3>3. CASE Head(tail).t \notin {"enqueue", "commit"}
      BY <1>1, <2>1, <2>3, <3>3 DEF Landed
    <3> QED
      BY <3>1, <3>2, <3>3
  <2> QED
    BY <1>4, <2>2, <2>3 DEF Crash, disk
<1>5. CASE RelayAppend
  BY <1>5, Stores
<1>6. CASE Start \/ Ready \/ Retire \/ \E e \in Edits : Edit(e)
  BY <1>1, <1>6 DEF Start, Ready, Retire, Edit, disk, relay
<1>7. CASE FireTimer \/ RunResume \/ Sealed \/ RunSave \/ RunMark
  BY <1>1, <1>7 DEF FireTimer, RunResume, Sealed, RunSave, RunMark, disk, relay
<1>8. CASE Open \/ Close \/ RelayConfirm \/ RelayRefuse \/ Receive \/ RetryRefused
  BY <1>1, <1>8 DEF Open, Close, RelayConfirm, RelayRefuse, Receive, ReceiveAck,
     ReceiveRefusal, RetryRefused, disk, relay
<1>9. CASE UNCHANGED vars
  BY <1>1, <1>9 DEF vars, disk, relay
<1> QED
  BY <1>2, <1>3, <1>4, <1>5, <1>6, <1>7, <1>8, <1>9 DEF Next, RunTask, Relay

-----------------------------------------------------------------------------
\* The engine, its cache, the socket and the relay together do nothing an exactly-once queue
\* would not: an operation is accepted under a fresh id into an empty outbox, stored once while
\* it is there, and leaves only when stored.
THEOREM ImplementsReliableOutboxSafely == Spec => Promise!Safely
<1>1. Init => InHand /\ DraftIsNew
  BY NothingInPlace DEF Init, InHand, DraftIsNew, Drafting
<1>2. Init => Promise!Init
  <2> SUFFICES ASSUME Init PROVE Promise!Init
    OBVIOUS
  <2>1. Ids(rows) = {}
    BY DEF Init, Ids
  <2>2. StoredLog = <<>>
    BY DEF Init, StoredLog
  <2> QED
    BY <2>1, <2>2 DEF Promise!Init, StoredLog
<1> QED
  BY <1>1, <1>2, InHandStep, DraftIsNewStep, StepRefines, TypeCorrect, OutboxInvariant, PTL
  DEF Spec, Promise!Safely

-----------------------------------------------------------------------------
(***************************************************************************)
(* Nothing an engine of OutboxDelivery holds is ever stranded: the vector  *)
(* its differences are taken from names nothing the relay lacks, an edit   *)
(* at rest that no operation carries keeps a token, an idle engine may be  *)
(* destroyed, and an append that brings nothing new is made only while the *)
(* baseline is unknown.                                                    *)
(***************************************************************************)


Carries(task) == task.t \in {"enqueue", "mark", "commit"}
Writes(task)  == task.t \in {"save", "enqueue", "commit"}
IsSave(task)  == task.t = "save"
IsMark(task)  == task.t = "mark"

\* Every operation there is, wherever it is.
AllOps ==
    {NoOp, draft} \cup rows \cup {queue[i] : i \in Places(queue)} \cup {log[i] : i \in Places(log)}
      \cup {c2r[i].op : i \in {k \in Places(c2r) : c2r[k].t = "append"}}
      \cup {tail[i].op : i \in {k \in Places(tail) : Carries(tail[k])}}

\* An id is the name of one operation.
Named ==
    /\ \A a \in AllOps : a.id < nextId
    /\ \A a, b \in AllOps : a.id = b.id => a = b

\* The document an operation was made from held nothing but what it carries and the relay held.
WellMade(op) ==
    /\ op.sv \subseteq op.snap /\ op.settles \subseteq op.snap /\ op.content \subseteq op.snap
    /\ op.snap \subseteq Held \cup op.content
Made == \A a \in AllOps : WellMade(a)

\* A vector, in memory, at rest or on its way there, names only what the relay holds.
Vectors ==
    /\ synced \subseteq Held /\ row.syn \subseteq Held
    /\ \A i \in Places(tail) : Writes(tail[i]) => tail[i].syn \subseteq Held

\* One of the first n tasks saves the edit.
Saving(e, n) == \E j \in Places(tail) : j <= n /\ IsSave(tail[j]) /\ e \in tail[j].upd

\* An edit is saved before anything else that holds it is written.
Copies ==
    /\ \A e \in doc : e \in row.upd \/ Saving(e, Len(tail))
    /\ phase = "up" => row.upd \subseteq doc
    /\ Drafting => draft.snap \subseteq doc
    /\ \A i \in Places(tail) : Writes(tail[i]) =>
          tail[i].upd \subseteq doc /\ \A e \in tail[i].upd : e \in row.upd \/ Saving(e, i)
    /\ \A i \in Places(tail) : tail[i].t = "enqueue" => tail[i].op.snap \subseteq tail[i].upd

\* A token names an edit the row holds.
Tokens ==
    /\ row.tok \subseteq row.upd /\ recovered \cup active \subseteq doc
    /\ \A i \in Places(tail) : IsSave(tail[i]) =>
          tail[i].token \subseteq tail[i].upd /\ tail[i].token # {}

\* What the operation being made does not hold was saved after what it holds, under a token the
\* operation does not settle.
Late(task) == ~(task.upd \subseteq draft.snap)
LateSaves  == \A i \in Places(tail) : IsSave(tail[i]) /\ Late(tail[i]) =>
                 /\ tail[i].token \cap draft.settles = {}
                 /\ \A j \in Places(tail) : i < j /\ IsSave(tail[j]) => Late(tail[j])
LateRow    == ~(row.upd \subseteq draft.snap) =>
                 /\ row.tok \ draft.settles # {}
                 /\ \A i \in Places(tail) : IsSave(tail[i]) => Late(tail[i])
Behind     == Drafting => LateSaves /\ LateRow

\* What is taken as the relay's state holds what the relay holds, but for the queued operation.
Baseline ==
    /\ \A id \in captured : queue # <<>> /\ id = queue[1].id
    /\ known => /\ phase = "up" /\ snap \subseteq row.upd
                /\ Held \subseteq snap \cup UNION {queue[i].content : i \in Places(queue)}
                /\ queue # <<>> => queue[1].id \in captured
    /\ queue # <<>> /\ queue[1].id \in captured =>
          Held \subseteq queue[1].snap /\ queue[1].snap \subseteq row.upd
    /\ Drafting => Held \subseteq draft.snap

\* A drain sends its operation itself before anything else does.
DrainMark(task) == IsMark(task) /\ task.by = "drain"
Outgoing ==
    /\ drain = "sending" =>
          /\ queue # <<>> /\ queue[1].id = draft.id
          /\ \E i \in Places(tail) : DrainMark(tail[i])
    /\ Drafting \/ drain = "sending" =>
          /\ draft.id \notin Stored \cup Ids(InTransit)
          /\ \A i \in Places(tail) : IsMark(tail[i]) /\ tail[i].op.id = draft.id =>
               \E j \in Places(tail) : j <= i /\ DrainMark(tail[j])

\* While an edit is not at rest the engine has something to do.
Wakes == ~(doc \subseteq row.upd) => timer \/ drain \in {"tail", "sealing", "storing"} \/ queue # <<>>

BaselineInv ==
    /\ Named /\ Made /\ Vectors /\ Copies /\ Tokens /\ Behind /\ Baseline /\ Outgoing /\ Wakes
    /\ UnsentIsTokened

\* What was proved before, as one assumption.
Before == TypeOK /\ OutboxInv /\ RestInv /\ InHand

-----------------------------------------------------------------------------
(* The shape of the cache queue after a step: its first k tasks are gone,  *)
(* and what is new at its end is one of a set.                             *)

Shape(k, new) ==
    /\ k \in {0, 1} /\ k <= Len(tail) /\ Len(tail) - k <= Len(tail')
    /\ \A i \in Places(tail') : IF i + k <= Len(tail) THEN tail'[i] = tail[i + k] ELSE tail'[i] \in new

LEMMA SameShape ==
    ASSUME TypeOK, UNCHANGED tail
    PROVE  Shape(0, {})
BY LenProperties DEF Shape, Places, TypeOK

LEMMA TailShape ==
    ASSUME TypeOK, tail # <<>>, tail' = Tail(tail)
    PROVE  Shape(1, {})
<1>1. tail \in Seq(Task) /\ Len(tail) \in Nat /\ Len(tail) >= 1
  BY EmptySeq, LenProperties DEF TypeOK
<1>2. Len(tail') = Len(tail) - 1 /\ \A i \in Places(tail') : i + 1 \in Places(tail) /\ tail'[i] = tail[i + 1]
  BY <1>1, TailPlaces
<1> QED
  BY <1>1, <1>2 DEF Shape, Places

\* What is left of the queue.
Left(k, base) ==
    \/ k = 0 /\ base = tail
    \/ k = 1 /\ tail # <<>> /\ base = Tail(tail)

LEMMA LeftPlaces ==
    ASSUME TypeOK, NEW k, NEW base, Left(k, base)
    PROVE  /\ base \in Seq(Task) /\ k \in {0, 1} /\ k <= Len(tail) /\ Len(base) = Len(tail) - k
           /\ Len(tail) \in Nat /\ \A i \in Places(base) : base[i] = tail[i + k]
<1>1. tail \in Seq(Task) /\ Len(tail) \in Nat
  BY LenProperties DEF TypeOK
<1>2. CASE k = 0 /\ base = tail
  BY <1>1, <1>2 DEF Places
<1>3. CASE k = 1 /\ tail # <<>> /\ base = Tail(tail)
  <2>1. Len(tail) # 0 /\ base \in Seq(Task)
    BY <1>1, <1>3, EmptySeq, HeadTailProperties
  <2>2. Len(base) = Len(tail) - 1 /\ \A i \in Places(base) : base[i] = tail[i + 1]
    BY <1>1, <1>3, TailPlaces
  <2>3. k \in {0, 1} /\ k <= Len(tail) /\ Len(base) = Len(tail) - k
    BY <1>1, <1>3, <2>1, <2>2
  <2>4. \A i \in Places(base) : base[i] = tail[i + k]
    BY <1>3, <2>2
  <2> QED
    BY <1>1, <2>1, <2>3, <2>4
<1> QED
  BY <1>2, <1>3 DEF Left

\* What is left of the queue, and more.
LEMMA ConcatShape ==
    ASSUME TypeOK, NEW k, NEW base, Left(k, base), NEW more \in Seq(Task), NEW new,
           \A i \in Places(more) : more[i] \in new, tail' = base \o more
    PROVE  Shape(k, new)
<1>1. /\ base \in Seq(Task) /\ k \in {0, 1} /\ k <= Len(tail) /\ Len(base) = Len(tail) - k
      /\ Len(tail) \in Nat /\ \A i \in Places(base) : base[i] = tail[i + k]
  BY LeftPlaces
<1>2. Len(more) \in Nat /\ Len(tail') = Len(base) + Len(more)
  BY <1>1, ConcatPlaces, LenProperties
<1>3. \A i \in Places(tail') : \/ i \in Places(base) /\ tail'[i] = base[i]
                               \/ i - Len(base) \in Places(more) /\ tail'[i] = more[i - Len(base)]
  BY <1>1, ConcatPlaces
<1>4. ASSUME NEW i \in Places(tail')
      PROVE  IF i + k <= Len(tail) THEN tail'[i] = tail[i + k] ELSE tail'[i] \in new
  <2>1. i \in Int /\ i >= 1
    BY DEF Places
  <2>2. CASE i \in Places(base) /\ tail'[i] = base[i]
    BY <1>1, <2>1, <2>2 DEF Places
  <2>3. CASE i - Len(base) \in Places(more) /\ tail'[i] = more[i - Len(base)]
    <3>1. i - Len(base) >= 1
      BY <2>3 DEF Places
    <3>2. i + k > Len(tail)
      BY <1>1, <2>1, <3>1
    <3> QED
      BY <1>1, <2>1, <2>3, <3>2
  <2> QED
    BY <1>3, <2>2, <2>3
<1>5. Len(tail) - k <= Len(tail')
  BY <1>1, <1>2
<1> QED
  BY <1>1, <1>5, <1>4 DEF Shape

LEMMA AppendShape ==
    ASSUME TypeOK, NEW k, NEW base, Left(k, base), NEW task \in Task, tail' = Append(base, task)
    PROVE  Shape(k, {task})
<1>1. /\ base \in Seq(Task) /\ k \in {0, 1} /\ k <= Len(tail) /\ Len(base) = Len(tail) - k
      /\ Len(tail) \in Nat /\ \A i \in Places(base) : base[i] = tail[i + k]
  BY LeftPlaces
<1>2. /\ Len(tail') = Len(base) + 1
      /\ \A i \in Places(tail') : \/ i \in Places(base) /\ tail'[i] = base[i]
                                  \/ i = Len(base) + 1 /\ tail'[i] = task
  BY <1>1, AppendPlaces
<1>3. ASSUME NEW i \in Places(tail')
      PROVE  IF i + k <= Len(tail) THEN tail'[i] = tail[i + k] ELSE tail'[i] \in {task}
  <2>1. i \in Int /\ i >= 1
    BY DEF Places
  <2>2. CASE i \in Places(base) /\ tail'[i] = base[i]
    BY <1>1, <2>1, <2>2 DEF Places
  <2>3. CASE i = Len(base) + 1 /\ tail'[i] = task
    BY <1>1, <2>1, <2>3
  <2> QED
    BY <1>2, <2>2, <2>3
<1>4. Len(tail) - k <= Len(tail')
  BY <1>1, <1>2
<1> QED
  BY <1>1, <1>4, <1>3 DEF Shape

\* A task of the new queue was in the old one, or is new.
LEMMA ShapeCases ==
    ASSUME TypeOK, NEW k, NEW new, Shape(k, new), NEW i \in Places(tail')
    PROVE  /\ i \in Nat \ {0} /\ k \in {0, 1} /\ Len(tail) \in Nat /\ Len(tail') \in Nat
           /\ \/ i + k \in Places(tail) /\ tail'[i] = tail[i + k]
              \/ i + k > Len(tail) /\ tail'[i] \in new
<1>1. tail \in Seq(Task) /\ Len(tail) \in Nat /\ k \in {0, 1}
  BY LenProperties DEF TypeOK, Shape
<1>2. i \in 1..Len(tail')
  BY DEF Places
<1> QED
  BY <1>1, <1>2 DEF Shape, Places

-----------------------------------------------------------------------------
(* What each part needs of a step.                                         *)

\* The log only grows, and what the relay holds with it.
LEMMA HeldGrows ==
    ASSUME TypeOK
    PROVE  /\ UNCHANGED log => Held' = Held
           /\ \A op \in Op : log' = Append(log, op) =>
                /\ Held' = Held \cup op.content
                /\ \A i \in Places(log') : (i \in Places(log) /\ log'[i] = log[i]) \/ log'[i] = op
<1>1. UNCHANGED log => Held' = Held
  BY DEF Held
<1>2. ASSUME NEW op \in Op, log' = Append(log, op)
      PROVE  /\ Held' = Held \cup op.content
             /\ \A i \in Places(log') : (i \in Places(log) /\ log'[i] = log[i]) \/ log'[i] = op
  <2>1. log \in Seq(Op) /\ Len(log) \in Nat
    BY LenProperties DEF TypeOK
  <2>2. /\ Len(log') = Len(log) + 1 /\ log'[Len(log) + 1] = op
        /\ \A i \in 1..Len(log) : log'[i] = log[i]
    BY <1>2, <2>1, AppendProperties
  <2>3. \A i \in Places(log') : (i \in Places(log) /\ log'[i] = log[i]) \/ log'[i] = op
    BY <2>1, <2>2 DEF Places
  <2>4. Held' \subseteq Held \cup op.content
    BY <2>3 DEF Held, Places
  <2>5. Held \cup op.content \subseteq Held'
    BY <2>1, <2>2 DEF Held
  <2> QED
    BY <2>3, <2>4, <2>5
<1> QED
  BY <1>1, <1>2

LEMMA OpsAre ==
    /\ NoOp \in AllOps /\ draft \in AllOps /\ rows \subseteq AllOps
    /\ \A i \in Places(queue) : queue[i] \in AllOps
    /\ \A i \in Places(log) : log[i] \in AllOps
    /\ \A i \in Places(c2r) : c2r[i].t = "append" => c2r[i].op \in AllOps
    /\ \A i \in Places(tail) : Carries(tail[i]) => tail[i].op \in AllOps
BY DEF AllOps

LEMMA OpsTyped == ASSUME TypeOK PROVE AllOps \subseteq Op
<1>1. /\ NoOp \in Op /\ draft \in Op /\ rows \subseteq Op
      /\ \A i \in Places(queue) : queue[i] \in Op
      /\ \A i \in Places(log) : log[i] \in Op
  BY Empties, ElementOfSeq DEF TypeOK, Places
<1>2. \A i \in Places(c2r) : c2r[i] \in ClientMessage
  BY ElementOfSeq DEF TypeOK, Places
<1>3. \A m \in ClientMessage : m.t = "append" => m.op \in Op
  BY DEF ClientMessage
<1>4. \A i \in Places(tail) : tail[i] \in Task
  BY ElementOfSeq DEF TypeOK, Places
<1>5. \A task \in Task : Carries(task) => task.op \in Op
  BY TaskKinds DEF Carries, EnqueueTask, MarkTask, CommitTask
<1> QED
  BY <1>1, <1>2, <1>3, <1>4, <1>5 DEF AllOps

\* No step names an operation there was not, but for the one being made.
LEMMA OpsAndDraft ==
    ASSUME TypeOK, NEW k, NEW new, Shape(k, new), \A task \in new : Carries(task) => task.op \in AllOps,
           rows' \subseteq AllOps,
           \A i \in Places(queue') : queue'[i] \in AllOps,
           \A i \in Places(log') : log'[i] \in AllOps,
           \A i \in Places(c2r') : c2r'[i].t = "append" => c2r'[i].op \in AllOps
    PROVE  AllOps' \subseteq AllOps \cup {draft'}
<1>1. \A i \in Places(tail') : Carries(tail'[i]) => tail'[i].op \in AllOps
  BY ShapeCases, OpsAre
<1>2. AllOps' = {NoOp, draft'} \cup rows' \cup {queue'[i] : i \in Places(queue')}
        \cup {log'[i] : i \in Places(log')}
        \cup {c2r'[i].op : i \in {j \in Places(c2r') : c2r'[j].t = "append"}}
        \cup {tail'[i].op : i \in {j \in Places(tail') : Carries(tail'[j])}}
  BY DEF AllOps, Places, Carries, NoOp
<1> QED
  BY <1>1, <1>2, OpsAre

LEMMA OpsKept ==
    ASSUME TypeOK, NEW k, NEW new, Shape(k, new), \A task \in new : Carries(task) => task.op \in AllOps,
           draft' \in AllOps, rows' \subseteq AllOps,
           \A i \in Places(queue') : queue'[i] \in AllOps,
           \A i \in Places(log') : log'[i] \in AllOps,
           \A i \in Places(c2r') : c2r'[i].t = "append" => c2r'[i].op \in AllOps
    PROVE  AllOps' \subseteq AllOps
BY OpsAndDraft

LEMMA NamesKept ==
    ASSUME Named, Made, AllOps' \subseteq AllOps, UNCHANGED nextId, Held \subseteq Held'
    PROVE  Named' /\ Made'
<1>1. Named'
  BY DEF Named
<1>2. \A op : WellMade(op) => WellMade(op)'
  BY DEF WellMade
<1> QED
  BY <1>1, <1>2 DEF Made, WellMade

LEMMA VectorsKept ==
    ASSUME TypeOK, Vectors, NEW k, NEW new, Shape(k, new), Held \subseteq Held',
           synced' \subseteq Held', row'.syn \subseteq Held',
           \A task \in new : Writes(task) => task.syn \subseteq Held'
    PROVE  Vectors'
<1>1. \A i \in Places(tail') : Writes(tail'[i]) => tail'[i].syn \subseteq Held'
  BY ShapeCases DEF Vectors
<1> QED
  BY <1>1 DEF Vectors, Places, Writes

\* An edit at rest or on its way there is no further from it.
LEMMA SavingKept ==
    ASSUME TypeOK, NEW k, NEW new, Shape(k, new), row.upd \subseteq row'.upd,
           k = 1 /\ IsSave(tail[1]) => tail[1].upd \subseteq row'.upd,
           NEW e, NEW n \in 0..Len(tail), e \in row.upd \/ Saving(e, n)
    PROVE  e \in row'.upd \/ \E j \in Places(tail') : j + k <= n /\ IsSave(tail'[j]) /\ e \in tail'[j].upd
<1>0. Len(tail) \in Nat /\ k \in {0, 1} /\ Len(tail) - k <= Len(tail') /\ Len(tail') \in Nat
  BY LenProperties, ShapeCases DEF TypeOK, Shape
<1>1. CASE e \in row.upd
  BY <1>1
<1>2. ASSUME NEW j \in Places(tail), j <= n, IsSave(tail[j]), e \in tail[j].upd
      PROVE  e \in row'.upd \/ \E i \in Places(tail') : i + k <= n /\ IsSave(tail'[i]) /\ e \in tail'[i].upd
  <2>1. j \in 1..Len(tail)
    BY <1>2 DEF Places
  <2>2. CASE j <= k
    <3>1. j = 1 /\ k = 1
      BY <1>0, <2>1, <2>2
    <3> QED
      BY <1>2, <3>1
  <2>3. CASE j > k
    <3>1. j - k \in Places(tail') /\ (j - k) + k = j
      BY <1>0, <2>1, <2>3 DEF Places
    <3>2. tail'[j - k] = tail[j]
      BY <1>0, <2>1, <3>1 DEF Shape
    <3> QED
      BY <1>2, <3>1, <3>2
  <2>4. j <= k \/ j > k
    BY <1>0, <2>1
  <2> QED
    BY <2>2, <2>3, <2>4
<1> QED
  BY <1>1, <1>2 DEF Saving

LEMMA CopiesKept ==
    ASSUME TypeOK, Copies, NEW k, NEW new, Shape(k, new), row.upd \subseteq row'.upd,
           k = 1 /\ IsSave(tail[1]) => tail[1].upd \subseteq row'.upd,
           doc \subseteq doc',
           \A e \in doc' : e \in doc \cup row'.upd \/ \E i \in Places(tail') : IsSave(tail'[i]) /\ e \in tail'[i].upd,
           phase' = "up" => row'.upd \subseteq doc',
           Drafting' => draft'.snap \subseteq doc',
           \A task \in new : /\ Writes(task) => task.upd \subseteq doc' /\ (IsSave(task) \/ task.upd \subseteq doc)
                             /\ task.t = "enqueue" => task.op.snap \subseteq task.upd
    PROVE  Copies'
<1>0. Len(tail) \in Nat /\ k \in {0, 1} /\ Len(tail) - k <= Len(tail') /\ Len(tail') \in Nat /\ k <= Len(tail)
  BY LenProperties, ShapeCases DEF TypeOK, Shape
<1> DEFINE Saved(e, n) == e \in row'.upd \/ \E j \in Places(tail') : j <= n /\ IsSave(tail'[j]) /\ e \in tail'[j].upd
<1>1. ASSUME NEW e, NEW n \in 0..Len(tail), e \in row.upd \/ Saving(e, n) PROVE Saved(e, n - k)
  <2>1. e \in row'.upd \/ \E j \in Places(tail') : j + k <= n /\ IsSave(tail'[j]) /\ e \in tail'[j].upd
    BY <1>1, SavingKept
  <2>2. \A j \in Places(tail') : j + k <= n => j <= n - k
    BY <1>0 DEF Places
  <2> QED
    BY <2>1, <2>2
<1>2. \A e \in doc : Saved(e, Len(tail) - k)
  BY <1>0, <1>1 DEF Copies
<1>3. \A i \in Places(tail') : i <= Len(tail')
  BY <1>0 DEF Places
<1>4. \A e \in doc' : Saved(e, Len(tail'))
  <2> TAKE e \in doc'
  <2>1. CASE e \in doc
    <3>1. Saved(e, Len(tail) - k)
      BY <1>2, <2>1
    <3> QED
      BY <1>3, <3>1
  <2>2. CASE e \notin doc
    BY <1>3, <2>2
  <2> QED
    BY <2>1, <2>2
<1>5. ASSUME NEW i \in Places(tail'), Writes(tail'[i])
      PROVE  tail'[i].upd \subseteq doc' /\ \A e \in tail'[i].upd : Saved(e, i)
  <2>1. i \in Nat
    BY <1>0 DEF Places
  <2>2. CASE i + k \in Places(tail) /\ tail'[i] = tail[i + k]
    <3>1. tail'[i].upd \subseteq doc /\ \A e \in tail'[i].upd : e \in row.upd \/ Saving(e, i + k)
      BY <1>5, <2>2 DEF Copies
    <3>2. i + k \in 0..Len(tail) /\ (i + k) - k = i
      BY <1>0, <2>1, <2>2 DEF Places
    <3>3. \A e \in tail'[i].upd : Saved(e, (i + k) - k)
      <4> HIDE DEF Saved
      <4> QED
        BY <1>1, <3>1, <3>2
    <3> QED
      BY <3>1, <3>2, <3>3
  <2>3. CASE i + k > Len(tail) /\ tail'[i] \in new
    <3>1. tail'[i].upd \subseteq doc' /\ (IsSave(tail'[i]) \/ tail'[i].upd \subseteq doc)
      BY <1>5, <2>3
    <3>2. CASE IsSave(tail'[i])
      BY <2>1, <3>1, <3>2
    <3>3. CASE tail'[i].upd \subseteq doc
      <4>1. \A j \in Places(tail') : j <= Len(tail) - k => j <= i
        BY <1>0, <2>1, <2>3 DEF Places
      <4>2. \A e \in tail'[i].upd : Saved(e, Len(tail) - k)
        BY <1>2, <3>3
      <4> QED
        BY <3>1, <4>1, <4>2
    <3> QED
      BY <3>1, <3>2, <3>3
  <2> QED
    BY ShapeCases, <2>2, <2>3
<1>6. \A i \in Places(tail') : tail'[i].t = "enqueue" => tail'[i].op.snap \subseteq tail'[i].upd
  BY ShapeCases DEF Copies
<1>7. \A e, n : Saving(e, n)' <=> \E j \in Places(tail') : j <= n /\ IsSave(tail'[j]) /\ e \in tail'[j].upd
  BY DEF Saving, IsSave, Places
<1>8. \A e \in doc' : e \in row'.upd \/ Saving(e, Len(tail))'
  BY <1>4 DEF Saving, IsSave, Places
<1>9. \A i \in Places(tail') : Writes(tail'[i]) =>
          tail'[i].upd \subseteq doc' /\ \A e \in tail'[i].upd : e \in row'.upd \/ Saving(e, i)'
  BY <1>5, <1>7
<1> QED
  BY <1>6, <1>8, <1>9 DEF Copies, Places, Writes, Drafting

LEMMA TokensKept ==
    ASSUME TypeOK, Tokens, NEW k, NEW new, Shape(k, new), row'.tok \subseteq row'.upd,
           recovered' \cup active' \subseteq doc',
           \A task \in new : IsSave(task) => task.token \subseteq task.upd /\ task.token # {}
    PROVE  Tokens'
<1>1. \A i \in Places(tail') : IsSave(tail'[i]) => tail'[i].token \subseteq tail'[i].upd /\ tail'[i].token # {}
  BY ShapeCases DEF Tokens
<1> QED
  BY <1>1 DEF Tokens, Places, IsSave

LEMMA BehindKept ==
    ASSUME TypeOK, Behind, NEW k, NEW new, Shape(k, new), \A task \in new : ~IsSave(task),
           Drafting' => Drafting /\ draft' = draft /\ row'.upd = row.upd /\ row'.tok = row.tok
    PROVE  Behind'
<1> SUFFICES ASSUME Drafting' PROVE LateSaves' /\ LateRow'
  BY DEF Behind
<1>0. LateSaves /\ LateRow /\ draft' = draft /\ row'.upd = row.upd /\ row'.tok = row.tok
  BY DEF Behind
<1>1. \A i \in Places(tail') : IsSave(tail'[i]) => i \in Nat /\ k \in {0, 1} /\ i + k \in Places(tail) /\ tail'[i] = tail[i + k]
  BY ShapeCases
<1>2. \A task : Late(task)' <=> Late(task)
  BY <1>0 DEF Late
<1>3. \A i \in Places(tail') : IsSave(tail'[i]) /\ Late(tail'[i]) =>
         /\ tail'[i].token \cap draft.settles = {}
         /\ \A j \in Places(tail') : i < j /\ IsSave(tail'[j]) => Late(tail'[j])
  BY <1>0, <1>1 DEF LateSaves
<1>4. ~(row.upd \subseteq draft.snap) =>
         /\ row.tok \ draft.settles # {}
         /\ \A i \in Places(tail') : IsSave(tail'[i]) => Late(tail'[i])
  BY <1>0, <1>1 DEF LateRow
<1> QED
  BY <1>0, <1>2, <1>3, <1>4 DEF LateSaves, LateRow, IsSave, Late, Places

LEMMA BaselineKept ==
    ASSUME Baseline, UNCHANGED <<captured, queue, snap, log>>, known' => known /\ phase' = phase,
           row.upd \subseteq row'.upd, Drafting' => Drafting /\ draft' = draft
    PROVE  Baseline'
BY DEF Baseline, Held, Places

\* A mark of the drain is at its last stage.
LEMMA DrainMarkSends ==
    ASSUME OneDrain, NEW i \in Places(tail), DrainMark(tail[i])
    PROVE  drain = "sending"
BY StageOfKinds DEF OneDrain, DrainMark, IsMark

LEMMA OutgoingKept ==
    ASSUME TypeOK, OneDrain, Outgoing, NEW k, NEW new, Shape(k, new),
           drain' = "sending" => /\ drain = "sending" /\ UNCHANGED <<draft, queue>>
                                 /\ k = 1 => ~DrainMark(tail[1]),
           Drafting' => Drafting /\ draft' = draft /\ \A task \in new : ~IsMark(task),
           Drafting' \/ drain' = "sending" => draft'.id \notin (Stored \cup Ids(InTransit))'
    PROVE  Outgoing'
<1>0. Len(tail) \in Nat /\ k \in {0, 1} /\ Len(tail) - k <= Len(tail') /\ Len(tail') \in Nat
  BY LenProperties, ShapeCases DEF TypeOK, Shape
<1>1. ASSUME NEW j \in Places(tail), DrainMark(tail[j]), drain' = "sending" \/ Drafting'
      PROVE  j - k \in Places(tail') /\ DrainMark(tail'[j - k]) /\ j - k \in Int
  <2>1. drain = "sending"
    BY <1>1, DrainMarkSends
  <2>2. k = 1 => j # 1
    BY <1>1, <2>1 DEF Drafting
  <2>3. j \in 1..Len(tail) /\ j - k \in Places(tail') /\ (j - k) + k = j
    BY <1>0, <2>2 DEF Places
  <2>4. tail'[j - k] = tail[j]
    BY <1>0, <2>3 DEF Shape
  <2> QED
    BY <1>0, <1>1, <2>3, <2>4
<1>2. ASSUME drain' = "sending"
      PROVE  queue' # <<>> /\ queue'[1].id = draft'.id /\ \E i \in Places(tail') : DrainMark(tail'[i])
  BY <1>1, <1>2 DEF Outgoing
<1>3. ASSUME Drafting' \/ drain' = "sending" PROVE draft'.id \notin (Stored \cup Ids(InTransit))'
  BY <1>3 DEF Outgoing
<1>4. ASSUME Drafting' \/ drain' = "sending",
             NEW i \in Places(tail'), IsMark(tail'[i]), tail'[i].op.id = draft'.id
      PROVE  \E j \in Places(tail') : j <= i /\ DrainMark(tail'[j])
  <2>1. i \in Nat
    BY <1>0 DEF Places
  <2>2. CASE i + k \in Places(tail) /\ tail'[i] = tail[i + k]
    <3>1. PICK j \in Places(tail) : j <= i + k /\ DrainMark(tail[j])
      BY <1>4, <2>2 DEF Outgoing
    <3>2. j - k \in Places(tail') /\ DrainMark(tail'[j - k])
      BY <1>1, <1>4, <3>1
    <3>3. j - k <= i
      BY <1>0, <2>1, <3>1 DEF Places
    <3> QED
      BY <3>2, <3>3
  <2>3. CASE i + k > Len(tail) /\ tail'[i] \in new
    <3>1. drain' = "sending" /\ drain = "sending"
      BY <1>4, <2>3
    <3>2. PICK j \in Places(tail) : DrainMark(tail[j])
      BY <3>1 DEF Outgoing
    <3>3. j - k \in Places(tail') /\ DrainMark(tail'[j - k])
      BY <1>1, <1>4, <3>2
    <3>4. j - k <= i
      BY <1>0, <2>1, <2>3, <3>2 DEF Places
    <3> QED
      BY <3>3, <3>4
  <2> QED
    BY ShapeCases, <2>2, <2>3
<1> QED
  BY <1>2, <1>3, <1>4 DEF Outgoing, Places, Drafting, IsMark, DrainMark

\* A step that writes nothing, queues nothing and is told nothing: its tasks and messages are of
\* operations there were, and no save is done.
LEMMA QuietStep ==
    ASSUME Before, BaselineInv, NEW k, NEW new, Shape(k, new),
           UNCHANGED <<doc, synced, snap, known, queue, captured, recovered, active, draft,
                       row, rows, log, nextId>>,
           phase' = "up" => phase = "up", known => phase' = phase,
           drain' = "sending" => drain = "sending" /\ (k = 1 => ~DrainMark(tail[1])),
           Drafting' => Drafting /\ \A task \in new : ~IsMark(task),
           Drafting' \/ drain' = "sending" => draft.id \notin (Stored \cup Ids(InTransit))',
           k = 1 => ~IsSave(tail[1]),
           \A task \in new : /\ ~IsSave(task)
                             /\ Carries(task) => task.op \in AllOps
                             /\ Writes(task) => task.upd \subseteq doc /\ task.syn \subseteq Held
                             /\ task.t = "enqueue" => task.op.snap \subseteq task.upd,
           \A i \in Places(c2r') : c2r'[i].t = "append" => c2r'[i].op \in AllOps,
           Wakes'
    PROVE  BaselineInv'
<1>1. /\ TypeOK /\ OneDrain /\ Named /\ Made /\ Vectors /\ Copies /\ Tokens /\ Behind /\ Baseline /\ Outgoing
      /\ UnsentIsTokened
  BY DEF Before, BaselineInv, OutboxInv
<1>2. Held' = Held
  BY <1>1, HeldGrows
<1>3. Named' /\ Made'
  <2>1. AllOps' \subseteq AllOps
    BY <1>1, OpsAre, OpsKept DEF Places
  <2> QED
    BY <1>1, <1>2, <2>1, NamesKept
<1>4. Vectors'
  BY <1>1, <1>2, VectorsKept DEF Vectors
<1>5. Copies'
  BY <1>1, CopiesKept DEF Copies
<1>6. Tokens'
  BY <1>1, TokensKept DEF Tokens
<1>7. Behind'
  BY <1>1, BehindKept
<1>8. Baseline'
  BY <1>1, BaselineKept
<1>9. Outgoing'
  BY <1>1, OutgoingKept
<1>10. UnsentIsTokened'
  BY <1>1, <1>2 DEF UnsentIsTokened
<1> QED
  BY <1>3, <1>4, <1>5, <1>6, <1>7, <1>8, <1>9, <1>10 DEF BaselineInv

-----------------------------------------------------------------------------
(* The quiet steps.                                                        *)

\* What is asked for when the engine may go on: a drain, or the head operation once more.
Asks(q) == {[t |-> "resume"]} \cup {MarkOf(q[i], "resend") : i \in Places(q)}

LEMMA AsksAre ==
    ASSUME NEW q \in Seq(Op), NEW d
    PROVE  /\ \A i \in Places(DrainTasks(d)) : DrainTasks(d)[i] \in Asks(q)
           /\ \A i \in Places(ResendTasks(q, d)) : ResendTasks(q, d)[i] \in Asks(q)
<1>1. \A i \in Places(DrainTasks(d)) : DrainTasks(d)[i] \in Asks(q)
  <2>1. CASE d = "idle"
    BY <2>1 DEF DrainTasks, Asks, Places
  <2>2. CASE d # "idle"
    BY <2>2, NothingInPlace DEF DrainTasks
  <2> QED
    BY <2>1, <2>2
<1>2. CASE q = <<>>
  BY <1>1, <1>2 DEF ResendTasks
<1>3. CASE q # <<>>
  <2>1. 1 \in Places(q) /\ Head(q) = q[1]
    BY <1>3, HeadInPlace
  <2>2. ResendTasks(q, d) = <<MarkOf(q[1], "resend")>>
    BY <1>3, <2>1 DEF ResendTasks
  <2>3. \A i \in Places(ResendTasks(q, d)) : ResendTasks(q, d)[i] = MarkOf(q[1], "resend")
    BY <2>2 DEF Places
  <2> QED
    BY <1>1, <2>1, <2>3 DEF Asks
<1> QED
  BY <1>2, <1>3

LEMMA AskKinds ==
    ASSUME NEW q, NEW task \in Asks(q)
    PROVE  /\ ~IsSave(task) /\ ~Writes(task) /\ ~DrainMark(task) /\ task.t # "enqueue"
           /\ Carries(task) => IsMark(task) /\ \E i \in Places(q) : task.op = q[i]
           /\ IsMark(task) => Places(q) # {} /\ \E i \in Places(q) : task.op = q[i]
BY DEF Asks, MarkOf, IsSave, Writes, IsMark, DrainMark, Carries

\* No operation enters the socket.
LEMMA TransitLess ==
    ASSUME \A i \in Places(c2r') : c2r'[i].t = "append" => \E j \in Places(c2r) : c2r'[i] = c2r[j],
           UNCHANGED log
    PROVE  /\ (Stored \cup Ids(InTransit))' \subseteq Stored \cup Ids(InTransit)
           /\ \A i \in Places(c2r') : c2r'[i].t = "append" => c2r'[i].op \in AllOps
<1>1. InTransit' \subseteq InTransit
  BY DEF InTransit, Places
<1> QED
  BY <1>1, OpsAre DEF Stored, Ids

LEMMA TransitKept ==
    ASSUME UNCHANGED <<c2r, log>>
    PROVE  /\ (Stored \cup Ids(InTransit))' \subseteq Stored \cup Ids(InTransit)
           /\ \A i \in Places(c2r') : c2r'[i].t = "append" => c2r'[i].op \in AllOps
BY TransitLess

\* While an operation is being made, or sent for the first time, nobody else has it.
LEMMA DraftUnseen ==
    ASSUME Outgoing, Drafting' \/ drain' = "sending" => Drafting \/ drain = "sending",
           (Stored \cup Ids(InTransit))' \subseteq Stored \cup Ids(InTransit)
    PROVE  Drafting' \/ drain' = "sending" => draft.id \notin (Stored \cup Ids(InTransit))'
BY DEF Outgoing

\* The engine asks to go on, and nothing else happens to it.
LEMMA AskingStep ==
    ASSUME Before, BaselineInv, NEW more \in Seq(Task), \A i \in Places(more) : more[i] \in Asks(queue),
           tail' = tail \o more,
           UNCHANGED <<phase, doc, synced, snap, known, queue, captured, recovered, active, draft,
                       row, rows, log, nextId, c2r>>,
           drain' \in {drain, "tail"}, Wakes'
    PROVE  BaselineInv'
<1>1. TypeOK /\ OutboxInv /\ Outgoing /\ Left(0, tail)
  BY DEF Before, BaselineInv, Left
<1>2. Shape(0, Asks(queue))
  BY <1>1, ConcatShape
<1>3. Drafting => Places(queue) = {}
  BY <1>1, NothingInPlace DEF OutboxInv, DraftAlone
<1>4. /\ (Stored \cup Ids(InTransit))' \subseteq Stored \cup Ids(InTransit)
      /\ \A i \in Places(c2r') : c2r'[i].t = "append" => c2r'[i].op \in AllOps
  BY TransitKept
<1>5. (drain' = "sending" => drain = "sending") /\ (Drafting' => Drafting)
  BY DEF Drafting
<1>6. Drafting' \/ drain' = "sending" => draft.id \notin (Stored \cup Ids(InTransit))'
  BY <1>1, <1>4, <1>5, DraftUnseen
<1>7. \A task \in Asks(queue) : /\ ~IsSave(task) /\ ~Writes(task) /\ task.t # "enqueue"
                                /\ Carries(task) => task.op \in AllOps
                                /\ Drafting => ~IsMark(task)
  BY <1>3, AskKinds, OpsAre
<1> QED
  BY <1>2, <1>4, <1>5, <1>6, <1>7, QuietStep

LEMMA FireTimerBaseline == ASSUME Before, BaselineInv, FireTimer PROVE BaselineInv'
<1>1. /\ UNCHANGED <<phase, doc, synced, snap, known, queue, captured, recovered, active, draft,
                     row, rows, log, nextId, c2r>>
      /\ tail' = tail \o DrainTasks(drain) /\ drain' = Draining(drain)
  BY DEF FireTimer, disk, wire, relay
<1>2. DrainTasks(drain) \in Seq(Task) /\ \A i \in Places(DrainTasks(drain)) : DrainTasks(drain)[i] \in Asks(queue)
  BY MadeTasks, AsksAre DEF Before, TypeOK
<1>3. drain' \in {drain, "tail"}
  BY <1>1, DrainOnlyAsked
<1>4. Wakes'
  <2>1. CASE drain = "idle"
    BY <1>1, <2>1 DEF Draining, Wakes
  <2>2. CASE drain \in {"tail", "sealing", "storing"}
    BY <1>1, <1>3, <2>2 DEF Wakes
  <2>3. CASE drain = "sending"
    BY <1>1, <1>3, <2>3 DEF Wakes, BaselineInv, Outgoing
  <2> QED
    BY <2>1, <2>2, <2>3 DEF Before, TypeOK
<1> QED
  BY <1>1, <1>2, <1>3, <1>4, AskingStep

LEMMA OpenBaseline == ASSUME Before, BaselineInv, Open PROVE BaselineInv'
<1>1. /\ UNCHANGED <<phase, doc, synced, snap, known, queue, captured, recovered, active, draft,
                     row, rows, log, nextId, c2r, timer>>
  BY DEF Open, disk, wire, relay
<1>2. queue \in Seq(Op)
  BY DEF Before, TypeOK
<1>3. \E more \in Seq(Task) : (\A i \in Places(more) : more[i] \in Asks(queue)) /\ tail' = tail \o more
  <2>1. CASE phase = "up"
    <3>1. tail' = tail \o ResendTasks(queue, drain)
      BY <2>1 DEF Open
    <3> QED
      BY <1>2, <3>1, MadeTasks, AsksAre
  <2>2. CASE phase # "up"
    <3>1. tail' = tail /\ tail \in Seq(Task)
      BY <2>2 DEF Open, Before, TypeOK
    <3>2. tail' = tail \o <<>>
      BY <3>1, ConcatProperties, EmptySeq
    <3> QED
      BY <3>2, Empties, NothingInPlace
  <2> QED
    BY <2>1, <2>2
<1>4. drain' \in {drain, "tail"} /\ (drain' # drain => drain' = "tail")
  BY DrainOnlyAsked DEF Open
<1>5. Wakes'
  BY <1>1, <1>4 DEF Wakes, BaselineInv
<1> QED
  BY <1>1, <1>3, <1>4, <1>5, AskingStep

LEMMA RetryBaseline == ASSUME Before, BaselineInv, RetryRefused PROVE BaselineInv'
<1>1. /\ UNCHANGED <<phase, doc, synced, snap, known, queue, captured, recovered, active, draft,
                     row, rows, log, nextId, c2r, timer, drain>>
  BY DEF RetryRefused, memory, disk, wire, relay
<1>2. queue \in Seq(Op) /\ tail \in Seq(Task)
  BY DEF Before, TypeOK
<1>3. \E more \in Seq(Task) : (\A i \in Places(more) : more[i] \in Asks(queue)) /\ tail' = tail \o more
  <2>1. CASE queue # <<>> /\ tail' = Append(tail, MarkOf(Head(queue), "resend"))
    <3> DEFINE mark == MarkOf(Head(queue), "resend")
    <3>1. 1 \in Places(queue) /\ Head(queue) = queue[1] /\ Head(queue) \in Op
      BY <1>2, <2>1, HeadInPlace
    <3>2. mark \in Task /\ mark \in Asks(queue)
      BY <3>1, MadeTasks DEF Asks
    <3> HIDE DEF mark
    <3>3. <<mark>> \in Seq(Task) /\ \A i \in Places(<<mark>>) : <<mark>>[i] \in Asks(queue)
      BY <3>2 DEF Places
    <3>4. tail' = tail \o <<mark>>
      BY <1>2, <2>1, <3>2, AppendIsConcat DEF mark
    <3> QED
      BY <3>3, <3>4
  <2>2. CASE UNCHANGED tail
    <3>1. tail' = tail \o <<>>
      BY <1>2, <2>2, ConcatProperties, EmptySeq
    <3> QED
      BY <3>1, Empties, NothingInPlace
  <2> QED
    BY <2>1, <2>2 DEF RetryRefused
<1>4. Wakes'
  BY <1>1 DEF Wakes, BaselineInv
<1> QED
  BY <1>1, <1>3, <1>4, AskingStep

\* A step of the socket or the relay that the engine and the log do not see.
LEMMA WireStep ==
    ASSUME Before, BaselineInv,
           UNCHANGED <<doc, synced, snap, known, queue, captured, recovered, active, draft, row, rows,
                       log, nextId, timer, drain, tail>>,
           phase' = "up" => phase = "up", known => phase' = phase,
           \A i \in Places(c2r') : c2r'[i].t = "append" => \E j \in Places(c2r) : c2r'[i] = c2r[j]
    PROVE  BaselineInv'
<1>1. TypeOK /\ Outgoing
  BY DEF Before, BaselineInv
<1>2. Shape(0, {})
  BY <1>1, SameShape
<1>3. /\ (Stored \cup Ids(InTransit))' \subseteq Stored \cup Ids(InTransit)
      /\ \A i \in Places(c2r') : c2r'[i].t = "append" => c2r'[i].op \in AllOps
  BY TransitLess
<1>4. Drafting' \/ drain' = "sending" => draft.id \notin (Stored \cup Ids(InTransit))'
  BY <1>1, <1>3, DraftUnseen DEF Drafting
<1>5. Wakes'
  BY DEF Wakes, BaselineInv
<1> QED
  BY <1>2, <1>3, <1>4, <1>5, QuietStep DEF Drafting

LEMMA StartBaseline == ASSUME Before, BaselineInv, Start PROVE BaselineInv'
<1>1. phase = "down" /\ phase' = "loading" /\ ~known
  BY DEF Start, BaselineInv, Baseline
<1> QED
  BY <1>1, WireStep DEF Start, memory, disk, wire, relay

LEMMA CloseBaseline == ASSUME Before, BaselineInv, Close PROVE BaselineInv'
<1>1. Places(c2r') = {}
  BY NothingInPlace DEF Close
<1> QED
  BY <1>1, WireStep DEF Close, memory, disk, relay

LEMMA MessageTaken ==
    ASSUME TypeOK, c2r # <<>>, c2r' = Tail(c2r)
    PROVE  \A i \in Places(c2r') : \E j \in Places(c2r) : c2r'[i] = c2r[j]
BY TailPlaces DEF TypeOK

LEMMA AnswerBaseline ==
    ASSUME Before, BaselineInv, RelayRefuse \/ RelayConfirm \/ ReceiveRefusal PROVE BaselineInv'
<1>1. \A i \in Places(c2r') : \E j \in Places(c2r) : c2r'[i] = c2r[j]
  BY MessageTaken DEF RelayRefuse, RelayConfirm, ReceiveRefusal, Before
<1> QED
  BY <1>1, WireStep DEF RelayRefuse, RelayConfirm, ReceiveRefusal, memory, disk, relay

LEMMA SealedBaseline == ASSUME Before, BaselineInv, Sealed PROVE BaselineInv'
<1> DEFINE enqueue == [t |-> "enqueue", op |-> draft, upd |-> doc, syn |-> synced]
<1>0. TypeOK /\ Outgoing /\ Vectors /\ Copies /\ draft \in Op
  BY DEF Before, BaselineInv, TypeOK
<1>1. /\ UNCHANGED <<phase, doc, synced, snap, known, queue, captured, recovered, active, draft,
                     row, rows, log, nextId, c2r>>
      /\ drain = "sealing" /\ drain' = "storing"
      /\ tail' = Append(tail, [t |-> "enqueue", op |-> [draft EXCEPT !.sv = SealedVector],
                               upd |-> doc, syn |-> synced])
  BY DEF Sealed, disk, wire, relay
<1>2. [draft EXCEPT !.sv = SealedVector] = draft
  BY <1>0 DEF SealedVector, Op
<1>3. tail' = Append(tail, enqueue)
  BY <1>1, <1>2
<1>4. /\ enqueue \in Task /\ ~IsSave(enqueue) /\ ~IsMark(enqueue) /\ enqueue.op = draft
      /\ enqueue.upd = doc /\ enqueue.syn = synced
  BY <1>0 DEF TypeOK, Task, EnqueueTask, IsSave, IsMark
<1>5. draft.snap \subseteq doc /\ synced \subseteq Held
  BY <1>0, <1>1 DEF Copies, Vectors, Drafting
<1>6. /\ (Stored \cup Ids(InTransit))' \subseteq Stored \cup Ids(InTransit)
      /\ \A i \in Places(c2r') : c2r'[i].t = "append" => c2r'[i].op \in AllOps
  BY <1>1, TransitKept
<1>7. Drafting' \/ drain' = "sending" => draft.id \notin (Stored \cup Ids(InTransit))'
  BY <1>0, <1>1, <1>6, DraftUnseen DEF Drafting
<1>8. Wakes'
  BY <1>1 DEF Wakes
<1> HIDE DEF enqueue
<1>9. Shape(0, {enqueue})
  BY <1>0, <1>3, <1>4, AppendShape DEF Left
<1> QED
  BY <1>1, <1>4, <1>5, <1>6, <1>7, <1>8, <1>9, OpsAre, QuietStep DEF Drafting

\* What the relay stored under an operation's id is that operation.
LEMMA StoredIsHeld ==
    ASSUME Named, Made, NEW op \in AllOps, op.id \in Stored
    PROVE  op.content \subseteq Held /\ op.snap \subseteq Held /\ op.sv \subseteq Held
<1>1. PICK i \in Places(log) : log[i].id = op.id
  BY DEF Stored, Places
<1>2. log[i] = op
  BY <1>1, OpsAre DEF Named
<1>3. op.content \subseteq Held
  BY <1>1, <1>2 DEF Held, Places
<1> QED
  BY <1>3 DEF Made, WellMade

LEMMA ReceiveAckBaseline == ASSUME Before, BaselineInv, ReceiveAck PROVE BaselineInv'
<1>1. /\ UNCHANGED <<phase, doc, synced, snap, known, queue, captured, recovered, active, draft,
                     row, rows, log, nextId, c2r, timer, drain>>
      /\ r2c # <<>> /\ Head(r2c).t = "ack"
  BY DEF ReceiveAck, memory, disk, relay
<1>2. CASE UNCHANGED tail
  BY <1>1, <1>2, WireStep
<1>3. CASE AcksHead(Head(r2c).id) /\ tail' = Append(tail, [t |-> "commit", op |-> Head(queue),
                                                           upd |-> doc, syn |-> AckedVector])
  <2> DEFINE commit == [t |-> "commit", op |-> queue[1], upd |-> doc, syn |-> synced \cup queue[1].sv]
  <2>0. TypeOK /\ Outgoing /\ Vectors /\ Copies /\ queue \in Seq(Op) /\ Named /\ Made /\ AcksAreStored
    BY DEF Before, BaselineInv, TypeOK, OutboxInv
  <2>1. /\ 1 \in Places(queue) /\ Head(queue) = queue[1] /\ queue[1] \in Op /\ queue[1] \in AllOps
        /\ queue[1].id = Head(r2c).id
    BY <1>3, <2>0, HeadInPlace, OpsAre DEF AcksHead
  <2>2. Head(r2c).id \in Stored
    BY <1>1, <2>0, HeadInPlace DEF TypeOK, AcksAreStored
  <2>3. synced \cup queue[1].sv \subseteq Held
    BY <2>0, <2>1, <2>2, StoredIsHeld DEF Vectors
  <2>4. tail' = Append(tail, commit)
    BY <1>3, <2>1 DEF AckedVector
  <2>5. /\ commit \in Task /\ ~IsSave(commit) /\ ~IsMark(commit) /\ commit.op = queue[1]
        /\ commit.upd = doc /\ commit.syn = synced \cup queue[1].sv /\ commit.t = "commit"
    BY <2>0, <2>1 DEF TypeOK, Task, CommitTask, IsSave, IsMark, Op
  <2> HIDE DEF commit
  <2>6. Shape(0, {commit})
    BY <2>0, <2>4, <2>5, AppendShape DEF Left
  <2>7. /\ (Stored \cup Ids(InTransit))' \subseteq Stored \cup Ids(InTransit)
        /\ \A i \in Places(c2r') : c2r'[i].t = "append" => c2r'[i].op \in AllOps
    BY <1>1, TransitKept
  <2>8. Drafting' \/ drain' = "sending" => draft.id \notin (Stored \cup Ids(InTransit))'
    BY <1>1, <2>0, <2>7, DraftUnseen DEF Drafting
  <2>9. Wakes'
    BY <1>1 DEF Wakes, BaselineInv
  <2> QED
    BY <1>1, <2>1, <2>3, <2>5, <2>6, <2>7, <2>8, <2>9, QuietStep DEF Drafting
<1> QED
  BY <1>2, <1>3 DEF ReceiveAck

\* A mark lets its operation be sent only while it is the head of the queue.
LEMMA RunMarkBaseline == ASSUME Before, BaselineInv, RunMark PROVE BaselineInv'
<1> DEFINE op == tail[1].op
<1>1. /\ UNCHANGED <<phase, doc, synced, snap, known, queue, captured, recovered, active, draft,
                     row, rows, log, nextId, timer>>
      /\ phase = "up" /\ tail # <<>> /\ Head(tail).t = "mark" /\ tail' = Tail(tail)
      /\ IF StillHead(Head(tail).op) THEN Send(Append1(Head(tail).op)) ELSE UNCHANGED c2r
      /\ drain' = IF Head(tail).by = "drain" THEN "idle" ELSE drain
  BY DEF RunMark, disk, relay
<1>2. TypeOK /\ OutboxInv /\ Outgoing /\ Wakes /\ tail \in Seq(Task) /\ queue \in Seq(Op)
      /\ c2r \in Seq(ClientMessage)
  BY DEF Before, BaselineInv, TypeOK
<1>3. 1 \in Places(tail) /\ Head(tail) = tail[1] /\ tail[1] \in Task
  BY <1>1, <1>2, HeadInPlace
<1>4. tail[1].t = "mark" /\ op \in Op /\ IsMark(tail[1]) /\ ~IsSave(tail[1]) /\ op \in AllOps
  BY <1>1, <1>3, TaskKinds, OpsAre DEF MarkTask, IsMark, IsSave, Carries
<1>5. Shape(1, {})
  BY <1>1, <1>2, TailShape
<1> HIDE DEF op
<1>6. c2r' = c2r \/ (StillHead(op) /\ c2r' = Append(c2r, Append1(op)))
  BY <1>1, <1>3 DEF op, Send
<1>7. Append1(op) \in ClientMessage /\ Append1(op).op = op /\ Append1(op).t = "append"
  BY <1>4 DEF Append1, ClientMessage
<1>8. \A i \in Places(c2r') : (\E j \in Places(c2r) : c2r'[i] = c2r[j]) \/ (StillHead(op) /\ c2r'[i] = Append1(op))
  BY <1>2, <1>6, <1>7, AppendPlaces
<1>9. \A i \in Places(c2r') : c2r'[i].t = "append" => c2r'[i].op \in AllOps
  BY <1>4, <1>7, <1>8, OpsAre
<1>10. drain' = "sending" => drain = "sending" /\ ~DrainMark(tail[1])
  <2>1. CASE DrainMark(tail[1])
    BY <1>1, <1>3, <2>1 DEF DrainMark
  <2>2. CASE ~DrainMark(tail[1])
    BY <1>1, <1>3, <1>4, <2>2 DEF DrainMark
  <2> QED
    BY <2>1, <2>2
<1>11. Drafting' => Drafting
  BY <1>1 DEF Drafting
<1>12. ASSUME Drafting' \/ drain' = "sending" PROVE draft.id \notin (Stored \cup Ids(InTransit))'
  <2>1. draft.id \notin Stored \cup Ids(InTransit)
    BY <1>10, <1>11, <1>12, <1>2 DEF Outgoing
  <2>2. StillHead(op) => op.id # draft.id
    <3>1. CASE Drafting'
      BY <1>2, <1>11, <3>1 DEF OutboxInv, DraftAlone, StillHead
    <3>2. CASE drain' = "sending"
      <4> SUFFICES ASSUME op.id = draft.id PROVE FALSE
        OBVIOUS
      <4>1. PICK j \in Places(tail) : j <= 1 /\ DrainMark(tail[j])
        BY <1>2, <1>3, <1>4, <1>10, <3>2 DEF Outgoing, op
      <4>2. j = 1
        BY <1>2, <4>1, LenProperties DEF Places
      <4> QED
        BY <1>10, <3>2, <4>1, <4>2
    <3> QED
      BY <1>12, <3>1, <3>2
  <2>3. InTransit' \subseteq InTransit \cup {c2r'[i].op : i \in {j \in Places(c2r') : StillHead(op) /\ c2r'[j] = Append1(op)}}
    BY <1>8 DEF InTransit, Places
  <2>4. \A a \in InTransit' : a \in InTransit \/ (a = op /\ StillHead(op))
    BY <1>7, <2>3
  <2> QED
    BY <1>1, <2>1, <2>2, <2>4 DEF Ids, Stored
<1>13. Wakes'
  <2>1. drain = "sending" => queue # <<>>
    BY <1>2 DEF Outgoing
  <2>2. drain' # drain => drain = "sending"
    <3>1. drain' # drain => DrainMark(tail[1])
      BY <1>1, <1>3, <1>4 DEF DrainMark
    <3> QED
      BY <1>2, <1>3, <3>1, DrainMarkSends DEF OutboxInv
  <2> QED
    BY <1>1, <1>2, <2>1, <2>2 DEF Wakes
<1> QED
  BY <1>1, <1>4, <1>5, <1>9, <1>10, <1>11, <1>12, <1>13, QuietStep

-----------------------------------------------------------------------------
(* What a transaction leaves in the row, told to the engine or not.        *)

LEMMA RowIs ==
    ASSUME TypeOK, NEW task
    PROVE  /\ SaveRow(task).upd = row.upd \cup task.upd /\ SaveRow(task).syn = row.syn \cup task.syn
           /\ SaveRow(task).tok = (row.tok \ task.superseded) \cup task.token
           /\ EnqueueRow(task).upd = row.upd \cup task.upd /\ EnqueueRow(task).syn = row.syn \cup task.syn
           /\ EnqueueRow(task).tok = row.tok \ task.op.settles
           /\ \/ CommitRow(task) = row
              \/ /\ CommitRow(task).upd = row.upd \cup task.upd
                 /\ CommitRow(task).syn = row.syn \cup task.syn /\ CommitRow(task).tok = row.tok
<1>1. row \in [upd: SUBSET Edits, syn: SUBSET Inserts, tok: SUBSET Edits]
  BY DEF TypeOK
<1> DEFINE merged == MergeRow(task.upd, task.syn)
<1>2. /\ merged.upd = row.upd \cup task.upd /\ merged.syn = row.syn \cup task.syn
      /\ merged.tok = row.tok
  BY <1>1 DEF MergeRow
<1>3. merged \in [upd: {merged.upd}, syn: {merged.syn}, tok: {merged.tok}]
  BY <1>1 DEF MergeRow
<1> HIDE DEF merged
<1>4. \A tok : /\ [merged EXCEPT !.tok = tok].upd = merged.upd /\ [merged EXCEPT !.tok = tok].syn = merged.syn
               /\ [merged EXCEPT !.tok = tok].tok = tok
  BY <1>3
<1>5. SaveRow(task) = [merged EXCEPT !.tok = (merged.tok \ task.superseded) \cup task.token]
  BY DEF SaveRow, merged
<1>6. EnqueueRow(task) = [merged EXCEPT !.tok = merged.tok \ task.op.settles]
  BY DEF EnqueueRow, merged
<1>7. CommitRow(task) = row \/ CommitRow(task) = merged
  BY DEF CommitRow, merged
<1> QED
  BY <1>2, <1>4, <1>5, <1>6, <1>7

\* Whatever lands, the row keeps what it held, its vector names what the relay holds, its tokens
\* name what it holds, and what no operation carries keeps one.
LandsWell ==
    /\ row.upd \subseteq row'.upd /\ row'.upd \subseteq doc /\ row'.syn \subseteq Held
    /\ row'.tok \subseteq row'.upd /\ rows' \subseteq AllOps
    /\ row'.upd \subseteq Held \cup UNION {op.content : op \in rows'} \/ row'.tok # {}

LEMMA SaveLands ==
    ASSUME Before, BaselineInv, phase = "up", tail # <<>>, Head(tail).t = "save",
           row' = SaveRow(Head(tail)), UNCHANGED rows
    PROVE  LandsWell /\ row'.upd = row.upd \cup tail[1].upd
<1> DEFINE task == tail[1]
<1>1. TypeOK /\ Vectors /\ Copies /\ Tokens /\ tail \in Seq(Task)
  BY DEF Before, BaselineInv, TypeOK
<1>2. 1 \in Places(tail) /\ Head(tail) = task /\ IsSave(task) /\ Writes(task)
  BY <1>1, HeadInPlace DEF IsSave, Writes
<1>3. /\ row'.upd = row.upd \cup task.upd /\ row'.syn = row.syn \cup task.syn
      /\ row'.tok = (row.tok \ task.superseded) \cup task.token
  BY <1>1, <1>2, RowIs
<1>4. task.upd \subseteq doc /\ row.upd \subseteq doc
  BY <1>1, <1>2 DEF Copies
<1>5. task.syn \subseteq Held /\ row.syn \subseteq Held
  BY <1>1, <1>2 DEF Vectors
<1>6. task.token \subseteq task.upd /\ task.token # {} /\ row.tok \subseteq row.upd
  BY <1>1, <1>2 DEF Tokens
<1> QED
  BY <1>3, <1>4, <1>5, <1>6, OpsAre DEF LandsWell

LEMMA EnqueueLands ==
    ASSUME Before, BaselineInv, phase = "up", tail # <<>>, Head(tail).t = "enqueue",
           row' = EnqueueRow(Head(tail)), rows' = rows \cup {Head(tail).op}
    PROVE  LandsWell /\ tail[1].op = draft /\ drain = "storing" /\ row'.upd = row.upd \cup tail[1].upd
           /\ tail[1].upd \subseteq row.upd
<1> DEFINE task == tail[1]
<1>1. TypeOK /\ OutboxInv /\ Named /\ Made /\ Vectors /\ Copies /\ Tokens /\ Behind /\ tail \in Seq(Task)
  BY DEF Before, BaselineInv, TypeOK
<1>2. 1 \in Places(tail) /\ Head(tail) = task /\ Carries(task) /\ Writes(task) /\ ~IsSave(task) /\ task.t = "enqueue"
  BY <1>1, HeadInPlace DEF Carries, IsSave, Writes
<1>3. /\ row'.upd = row.upd \cup task.upd /\ row'.syn = row.syn \cup task.syn
      /\ row'.tok = row.tok \ task.op.settles
  BY <1>1, <1>2, RowIs
<1>4. drain = "storing" /\ task.op = draft
  BY <1>1, <1>2, OpsAre, StageOfKinds DEF OutboxInv, OneDrain, DraftAlone, Named
<1>5. task.upd \subseteq row.upd
  <2> SUFFICES ASSUME NEW e \in task.upd, Saving(e, 1) PROVE FALSE
    BY <1>1, <1>2 DEF Copies
  <2>1. \A j \in Places(tail) : j <= 1 => j = 1
    BY DEF Places
  <2> QED
    BY <1>2, <2>1 DEF Saving
<1>6. task.upd \subseteq doc /\ row.upd \subseteq doc
  BY <1>1, <1>2 DEF Copies
<1>7. task.syn \subseteq Held /\ row.syn \subseteq Held
  BY <1>1, <1>2 DEF Vectors
<1>8. row.tok \subseteq row.upd
  BY <1>1 DEF Tokens
<1>9. task.op \in AllOps
  BY <1>2, OpsAre
<1>10. row'.upd \subseteq Held \cup UNION {op.content : op \in rows'} \/ row'.tok # {}
  <2>1. draft \in rows' /\ draft \in AllOps
    BY <1>2, <1>4, OpsAre
  <2>2. draft.snap \subseteq Held \cup draft.content
    BY <1>1, <2>1 DEF Made, WellMade
  <2>3. row.upd \subseteq draft.snap \/ row.tok \ draft.settles # {}
    BY <1>1, <1>4 DEF Behind, LateRow, Drafting
  <2> QED
    BY <1>3, <1>4, <1>5, <2>1, <2>2, <2>3
<1> QED
  BY <1>2, <1>3, <1>4, <1>5, <1>6, <1>7, <1>8, <1>9, <1>10, OpsAre DEF LandsWell

LEMMA CommitLands ==
    ASSUME Before, BaselineInv, phase = "up", tail # <<>>, Head(tail).t = "commit",
           row' = CommitRow(Head(tail)), rows' = CommitRows(Head(tail))
    PROVE  LandsWell /\ UNCHANGED row.upd /\ UNCHANGED row.tok
<1> DEFINE task == tail[1]
<1>1. TypeOK /\ OutboxInv /\ Named /\ Made /\ Vectors /\ Copies /\ Tokens /\ UnsentIsTokened /\ tail \in Seq(Task)
  BY DEF Before, BaselineInv, TypeOK
<1>2. 1 \in Places(tail) /\ Head(tail) = task /\ Carries(task) /\ Writes(task) /\ ~IsSave(task) /\ task.t = "commit"
  BY <1>1, HeadInPlace DEF Carries, IsSave, Writes
<1>3. \/ row' = row
      \/ /\ row'.upd = row.upd \cup task.upd /\ row'.syn = row.syn \cup task.syn
         /\ row'.tok = row.tok
  BY <1>1, <1>2, RowIs
<1>4. task.upd \subseteq row.upd
  <2> SUFFICES ASSUME NEW e \in task.upd, Saving(e, 1) PROVE FALSE
    BY <1>1, <1>2 DEF Copies
  <2>1. \A j \in Places(tail) : j <= 1 => j = 1
    BY DEF Places
  <2> QED
    BY <1>2, <2>1 DEF Saving
<1>5. row'.upd = row.upd /\ row'.tok = row.tok
  BY <1>3, <1>4
<1>6. task.syn \subseteq Held /\ row.syn \subseteq Held
  BY <1>1, <1>2 DEF Vectors
<1>7. row.tok \subseteq row.upd /\ row.upd \subseteq doc
  BY <1>1 DEF Tokens, Copies
<1>8. task.op \in AllOps /\ task.op.id \in Stored
  BY <1>1, <1>2, OpsAre DEF OutboxInv, CommitsOfHead
<1>9. \A op \in rows : op \in rows' \/ op.content \subseteq Held
  BY <1>1, <1>2, <1>8, OpsAre, StoredIsHeld DEF CommitRows
<1>10. rows' \subseteq rows
  BY DEF CommitRows
<1>11. row'.upd \subseteq Held \cup UNION {op.content : op \in rows'} \/ row'.tok # {}
  BY <1>1, <1>5, <1>9 DEF UnsentIsTokened
<1> QED
  BY <1>3, <1>5, <1>6, <1>7, <1>10, <1>11, OpsAre DEF LandsWell

-----------------------------------------------------------------------------
(* The engine goes, and comes back from what is at rest.                   *)

LEMMA HeldRests == ASSUME Before PROVE Held \subseteq row.upd
BY DEF Before, RestInv, Kept, Rests, Held, Places

LEMMA ForgetBaseline ==
    ASSUME Before, BaselineInv, Forget, LandsWell \/ UNCHANGED disk, UNCHANGED <<log, nextId>>,
           \A i \in Places(c2r') : c2r'[i].t = "append" => \E j \in Places(c2r) : c2r'[i] = c2r[j]
    PROVE  BaselineInv'
<1>1. /\ TypeOK /\ Named /\ Made /\ Vectors /\ Tokens /\ UnsentIsTokened
  BY DEF Before, BaselineInv
<1>2. /\ phase' = "down" /\ doc' = {} /\ synced' = {} /\ known' = FALSE
      /\ queue' = <<>> /\ captured' = {} /\ recovered' = {} /\ active' = {}
      /\ drain' = "idle" /\ draft' = NoOp /\ tail' = <<>>
  BY DEF Forget
<1>3. Places(tail') = {} /\ Places(queue') = {}
  BY <1>2, NothingInPlace
<1>4. Held' = Held /\ Places(log') = Places(log)
  BY DEF Held
<1>5. row'.syn \subseteq Held /\ row'.tok \subseteq row'.upd /\ rows' \subseteq AllOps
  BY <1>1, OpsAre DEF LandsWell, disk, Vectors, Tokens
<1>6. UnsentIsTokened'
  BY <1>1, <1>4 DEF LandsWell, disk, UnsentIsTokened
<1>7. Named' /\ Made'
  <2>1. \A i \in Places(c2r') : c2r'[i].t = "append" => c2r'[i].op \in AllOps
    BY TransitLess
  <2>2. AllOps' = {NoOp, draft'} \cup rows' \cup {queue'[i] : i \in Places(queue')}
          \cup {log'[i] : i \in Places(log')}
          \cup {c2r'[i].op : i \in {j \in Places(c2r') : c2r'[j].t = "append"}}
          \cup {tail'[i].op : i \in {j \in Places(tail') : Carries(tail'[j])}}
    BY DEF AllOps, Places, Carries, NoOp
  <2>3. AllOps' \subseteq AllOps
    BY <1>2, <1>3, <1>4, <1>5, <2>1, <2>2, OpsAre
  <2> QED
    BY <1>1, <1>4, <2>3, NamesKept
<1>8. Vectors' /\ Copies' /\ Tokens'
  BY <1>2, <1>3, <1>4, <1>5 DEF Vectors, Copies, Tokens, Drafting, Places
<1>9. Behind' /\ Baseline' /\ Outgoing' /\ Wakes'
  BY <1>2, <1>3 DEF Behind, Baseline, Outgoing, Wakes, Drafting
<1> QED
  BY <1>6, <1>7, <1>8, <1>9 DEF BaselineInv

LEMMA RetireBaseline == ASSUME Before, BaselineInv, Retire PROVE BaselineInv'
BY ForgetBaseline DEF Retire, wire, relay

LEMMA CrashBaseline == ASSUME Before, BaselineInv, Crash PROVE BaselineInv'
<1>1. Forget /\ UNCHANGED <<log, nextId>> /\ Places(c2r') = {}
  BY NothingInPlace DEF Crash, relay
<1>2. LandsWell \/ UNCHANGED disk
  <2> SUFFICES ASSUME phase = "up", tail # <<>>,
                      row' = Landed(Head(tail))[1], rows' = Landed(Head(tail))[2]
               PROVE  LandsWell \/ UNCHANGED disk
    BY DEF Crash
  <2>1. CASE Head(tail).t = "save"
    BY <2>1, SaveLands DEF Landed
  <2>2. CASE Head(tail).t = "enqueue"
    BY <2>2, EnqueueLands DEF Landed
  <2>3. CASE Head(tail).t = "commit"
    BY <2>3, CommitLands DEF Landed
  <2>4. CASE Head(tail).t \notin {"save", "enqueue", "commit"}
    BY <2>4 DEF Landed, disk
  <2> QED
    BY <2>1, <2>2, <2>3, <2>4
<1> QED
  BY <1>1, <1>2, ForgetBaseline

LEMMA ReadyBaseline == ASSUME Before, BaselineInv, Ready PROVE BaselineInv'
<1>1. /\ UNCHANGED <<captured, active, timer, draft, row, rows, log, c2r, nextId>>
      /\ phase = "loading" /\ phase' = "up"
      /\ doc' = doc \cup row.upd /\ synced' = row.syn /\ recovered' = row.tok
      /\ queue' \in InOrder(rows) /\ known' = (rows = {} /\ row.tok = {}) /\ snap' = row.upd
  BY DEF Ready, BaselineKnown, disk, wire, relay
<1>2. /\ TypeOK /\ OneRow /\ OneDrain /\ Named /\ Made /\ Vectors /\ Copies /\ Tokens /\ Baseline
      /\ Outgoing /\ Wakes /\ UnsentIsTokened /\ tail \in Seq(Task)
  BY DEF Before, BaselineInv, OutboxInv, TypeOK
<1>3. queue = <<>> /\ drain \in {"idle", "tail"}
  BY <1>1 DEF Before, OutboxInv, NotUpYet
<1>4. queue' \in Seq(Op) /\ rows = {queue'[i] : i \in Places(queue')}
  BY <1>1, <1>2, QueueRead
<1>5. drain' \in {drain, "tail"}
  BY DrainOnlyAsked DEF Ready
<1>6. \E more \in Seq(Task) : (\A i \in Places(more) : more[i] \in Asks(queue')) /\ tail' = tail \o more
  <2>1. CASE ResyncsDue = 0
    <3>1. tail' = tail \o <<>>
      BY <1>2, <2>1, ConcatProperties, EmptySeq DEF Ready
    <3> QED
      BY <3>1, Empties, NothingInPlace
  <2>2. CASE ResyncsDue # 0 /\ queue' = <<>>
    <3>1. tail' = tail \o DrainTasks(drain)
      BY <2>2 DEF Ready
    <3> QED
      BY <1>4, <3>1, MadeTasks, AsksAre
  <2>3. CASE ResyncsDue # 0 /\ queue' # <<>>
    <3> DEFINE mark == MarkOf(Head(queue'), "resend")
    <3> DEFINE marks == [i \in 1..ResyncsDue |-> mark]
    <3>1. Head(queue') \in Op /\ 1 \in Places(queue') /\ Head(queue') = queue'[1]
      BY <1>4, <2>3, HeadInPlace
    <3>2. mark \in Task /\ mark \in Asks(queue')
      BY <3>1, MadeTasks DEF Asks
    <3>3. marks \in Seq(Task) /\ \A i \in Places(marks) : marks[i] = mark
      <4> HIDE DEF mark
      <4>1. ResyncsDue \in Nat
        BY <1>2 DEF ResyncsDue, TypeOK
      <4> QED
        BY <4>1, <3>2, Repeated DEF Places
    <3>4. tail' = tail \o marks
      BY <2>3 DEF Ready
    <3> HIDE DEF marks, mark
    <3> QED
      BY <3>2, <3>3, <3>4
  <2> QED
    BY <2>1, <2>2, <2>3
<1>7. Shape(0, Asks(queue'))
  BY <1>2, <1>6, ConcatShape DEF Left
<1>8. Held' = Held /\ Places(log') = Places(log)
  BY <1>1 DEF Held
<1>9. \A task \in Asks(queue') : /\ ~IsSave(task) /\ ~Writes(task) /\ task.t # "enqueue"
                                 /\ Carries(task) => task.op \in rows
  BY <1>4, AskKinds
<1>10. Named' /\ Made'
  <2>1. AllOps' \subseteq AllOps
    BY <1>1, <1>2, <1>4, <1>7, <1>8, <1>9, OpsAre, OpsKept DEF Places
  <2> QED
    BY <1>1, <1>2, <1>8, <2>1, NamesKept
<1>11. Vectors'
  BY <1>1, <1>2, <1>7, <1>8, <1>9, VectorsKept DEF Vectors
<1>12. ~Drafting' /\ drain' # "sending"
  BY <1>3, <1>5 DEF Drafting
<1>13. Copies'
  BY <1>1, <1>2, <1>7, <1>9, <1>12, CopiesKept
<1>14. Tokens'
  BY <1>1, <1>2, <1>7, <1>9, TokensKept DEF Tokens
<1>15. Baseline'
  <2>1. captured = {}
    BY <1>2, <1>3 DEF Baseline
  <2>2. Held \subseteq row.upd
    BY HeldRests
  <2>3. known' => queue' = <<>>
    <3> SUFFICES ASSUME rows = {}, queue' # <<>> PROVE FALSE
      BY <1>1
    <3>1. 1 \in Places(queue')
      BY <1>4, HeadInPlace
    <3> QED
      BY <1>4, <3>1
  <2> QED
    BY <1>1, <1>8, <1>12, <2>1, <2>2, <2>3 DEF Baseline
<1>16. Behind' /\ Outgoing'
  BY <1>12 DEF Behind, Outgoing
<1>17. UnsentIsTokened'
  BY <1>1, <1>2, <1>8 DEF UnsentIsTokened
<1>18. Wakes'
  BY <1>1, <1>2, <1>3, <1>5 DEF Wakes
<1> QED
  BY <1>10, <1>11, <1>13, <1>14, <1>15, <1>16, <1>17, <1>18 DEF BaselineInv

-----------------------------------------------------------------------------
(* The edits and the drain.                                                *)

LEMMA EditBaseline == ASSUME Before, BaselineInv, NEW e \in Edits, Edit(e) PROVE BaselineInv'
<1> DEFINE save == [t |-> "save", upd |-> doc', syn |-> synced, token |-> {e}, superseded |-> active]
<1>1. /\ UNCHANGED <<phase, synced, snap, known, queue, captured, recovered, drain, draft, row, rows, log,
                     c2r, nextId>>
      /\ e \notin doc \cup row.upd /\ doc' = doc \cup {e} /\ active' = {e} /\ timer' = TRUE
      /\ tail' = Append(tail, save)
  BY DEF Edit, disk, wire, relay
<1>2. /\ TypeOK /\ OneDrain /\ Named /\ Made /\ Vectors /\ Copies /\ Tokens /\ Behind /\ Baseline
      /\ Outgoing /\ UnsentIsTokened /\ tail \in Seq(Task) /\ Len(tail) \in Nat
  BY LenProperties DEF Before, BaselineInv, OutboxInv, TypeOK
<1>3. /\ save \in Task /\ IsSave(save) /\ ~IsMark(save) /\ ~Carries(save) /\ save.t = "save"
      /\ save.upd = doc' /\ save.syn = synced /\ save.token = {e}
  BY <1>1, <1>2 DEF TypeOK, Task, SaveTask, IsSave, IsMark, Carries
<1> HIDE DEF save
<1>4. Shape(0, {save})
  BY <1>1, <1>2, <1>3, AppendShape DEF Left
<1>5. tail'[Len(tail) + 1] = save /\ Len(tail) + 1 \in Places(tail')
  BY <1>1, <1>2, <1>3, AppendProperties DEF Places
<1>6. Held' = Held /\ Places(log') = Places(log)
  BY <1>1 DEF Held
<1>7. Named' /\ Made'
  <2>1. AllOps' \subseteq AllOps
    BY <1>1, <1>2, <1>3, <1>4, <1>6, OpsAre, OpsKept DEF Places
  <2> QED
    BY <1>1, <1>2, <1>6, <2>1, NamesKept
<1>8. Vectors'
  <2>1. synced' \subseteq Held' /\ row'.syn \subseteq Held' /\ \A task \in {save} : task.syn \subseteq Held'
    BY <1>1, <1>2, <1>3, <1>6 DEF Vectors
  <2> QED
    BY <1>2, <1>4, <1>6, <2>1, VectorsKept
<1>9. Copies'
  <2>1. \A x \in doc' : x \in doc \cup row'.upd \/ \E i \in Places(tail') : IsSave(tail'[i]) /\ x \in tail'[i].upd
    BY <1>1, <1>3, <1>5
  <2>2. (phase' = "up" => row'.upd \subseteq doc') /\ (Drafting' => draft'.snap \subseteq doc')
    BY <1>1, <1>2 DEF Copies, Drafting
  <2>3. \A task \in {save} :
          /\ Writes(task) => task.upd \subseteq doc' /\ (IsSave(task) \/ task.upd \subseteq doc)
          /\ task.t = "enqueue" => task.op.snap \subseteq task.upd
    BY <1>3
  <2>4. row.upd \subseteq row'.upd /\ doc \subseteq doc'
    BY <1>1
  <2> QED
    BY <1>2, <1>4, <2>1, <2>2, <2>3, <2>4, CopiesKept
<1>10. Tokens'
  <2>1. row'.tok \subseteq row'.upd /\ recovered' \cup active' \subseteq doc'
    BY <1>1, <1>2 DEF Tokens
  <2>2. \A task \in {save} : task.token \subseteq task.upd /\ task.token # {}
    BY <1>1, <1>3
  <2> QED
    BY <1>2, <1>4, <2>1, <2>2, TokensKept
<1>11. Behind'
  <2> SUFFICES ASSUME Drafting' PROVE LateSaves' /\ LateRow'
    BY DEF Behind
  <2>1. Drafting /\ LateSaves /\ LateRow /\ draft.snap \subseteq doc /\ draft.settles \subseteq doc
    BY <1>1, <1>2, OpsAre DEF Behind, Copies, Made, WellMade, Drafting
  <2>2. \A i \in Places(tail') : i \in Nat /\ (\/ i \in Places(tail) /\ tail'[i] = tail[i]
                                               \/ i > Len(tail) /\ tail'[i] = save)
    BY <1>2, <1>4, ShapeCases
  <2>3. Late(save) /\ save.token \cap draft.settles = {}
    BY <1>1, <1>3, <2>1 DEF Late
  <2>4. \A i \in Places(tail) : i <= Len(tail)
    BY <1>2 DEF Places
  <2>5. \A i \in Places(tail') : IsSave(tail'[i]) /\ Late(tail'[i]) =>
           /\ tail'[i].token \cap draft.settles = {}
           /\ \A j \in Places(tail') : i < j /\ IsSave(tail'[j]) => Late(tail'[j])
    BY <1>2, <2>1, <2>2, <2>3, <2>4 DEF LateSaves
  <2>6. ~(row.upd \subseteq draft.snap) =>
           /\ row.tok \ draft.settles # {}
           /\ \A i \in Places(tail') : IsSave(tail'[i]) => Late(tail'[i])
    BY <2>1, <2>2, <2>3 DEF LateRow
  <2> QED
    BY <1>1, <2>5, <2>6 DEF LateSaves, LateRow, IsSave, Late, Places
<1>12. Baseline'
  BY <1>1, <1>2, BaselineKept DEF Drafting
<1>13. Outgoing'
  <2>1. (Stored \cup Ids(InTransit))' \subseteq Stored \cup Ids(InTransit)
    BY <1>1, TransitKept
  <2>2. Drafting' \/ drain' = "sending" => draft'.id \notin (Stored \cup Ids(InTransit))'
    BY <1>1, <1>2, <2>1, DraftUnseen DEF Drafting
  <2> QED
    BY <1>1, <1>2, <1>3, <1>4, <2>2, OutgoingKept DEF Drafting
<1>14. UnsentIsTokened'
  BY <1>1, <1>2, <1>6 DEF UnsentIsTokened
<1>15. Wakes'
  BY <1>1 DEF Wakes
<1> QED
  BY <1>7, <1>8, <1>9, <1>10, <1>11, <1>12, <1>13, <1>14, <1>15 DEF BaselineInv

\* A drain begins: what the operation will hold is the document and no more, under every token.
LEMMA DraftMade ==
    ASSUME Before, BaselineInv, RunResume, drain' = "sealing"
    PROVE  BaselineInv'
<1>1. /\ UNCHANGED <<phase, doc, synced, snap, known, queue, captured, recovered, timer, row, rows, log,
                     c2r>>
      /\ phase = "up" /\ tail # <<>> /\ Head(tail).t = "resume" /\ tail' = Tail(tail) /\ queue = <<>>
      /\ nextId' = nextId + 1 /\ active' = {}
      /\ draft' = [id |-> nextId, content |-> Diff, sv |-> doc \cap Inserts,
                   snap |-> doc, settles |-> TokensToSettle]
  BY DEF RunResume, MayDrain, disk, wire, relay
<1>2. /\ TypeOK /\ OutboxInv /\ Named /\ Made /\ Vectors /\ Copies /\ Tokens /\ Baseline /\ Outgoing
      /\ UnsentIsTokened /\ tail \in Seq(Task) /\ nextId \in Nat /\ doc \subseteq Edits
  BY DEF Before, BaselineInv, TypeOK
<1>3. /\ draft'.id = nextId /\ draft'.content = Diff /\ draft'.sv = doc \cap Inserts
      /\ draft'.snap = doc /\ draft'.settles = TokensToSettle
  BY <1>1
<1>4. Shape(1, {})
  BY <1>1, <1>2, TailShape
<1>5. 1 \in Places(tail) /\ ~IsSave(tail[1]) /\ ~IsMark(tail[1])
  BY <1>1, <1>2, HeadInPlace DEF IsSave, IsMark
<1>6. Held' = Held /\ Places(log') = Places(log)
  BY <1>1 DEF Held
<1>7. Held \subseteq doc /\ row.upd \subseteq doc
  BY <1>1, <1>2, HeldRests DEF Copies
<1>8. AllOps' \subseteq AllOps \cup {draft'} /\ AllOps \subseteq Op
  BY <1>1, <1>2, <1>4, <1>6, OpsAre, OpsAndDraft, OpsTyped DEF Places
<1>9. Named'
  <2>1. \A a \in AllOps : a.id \in Nat /\ a.id < nextId
    BY <1>2, <1>8 DEF Named, Op
  <2>2. \A a \in AllOps' : a.id < nextId'
    BY <1>1, <1>2, <1>3, <1>8, <2>1
  <2>3. \A a, b \in AllOps' : a.id = b.id => a = b
    BY <1>2, <1>3, <1>8, <2>1 DEF Named
  <2> QED
    BY <2>2, <2>3 DEF Named
<1>10. Made'
  <2>1. \A a \in AllOps : WellMade(a)'
    BY <1>2, <1>6 DEF Made, WellMade
  <2>2. TokensToSettle \subseteq doc
    BY <1>2 DEF Tokens, TokensToSettle
  <2>3. Diff \subseteq doc /\ doc \subseteq Held \cup Diff
    BY <1>2 DEF Vectors, Diff, Edits
  <2>4. WellMade(draft)'
    BY <1>3, <1>6, <2>2, <2>3 DEF WellMade
  <2> QED
    BY <1>8, <2>1, <2>4 DEF Made
<1>11. Vectors'
  <2>1. synced' \subseteq Held' /\ row'.syn \subseteq Held' /\ Held \subseteq Held'
    BY <1>1, <1>2, <1>6 DEF Vectors
  <2> QED
    BY <1>2, <1>4, <2>1, VectorsKept
<1>12. Copies'
  <2>1. \A x \in doc' : x \in doc
    BY <1>1
  <2>2. (phase' = "up" => row'.upd \subseteq doc') /\ (Drafting' => draft'.snap \subseteq doc')
    BY <1>1, <1>3, <1>7
  <2>3. row.upd \subseteq row'.upd /\ doc \subseteq doc'
    BY <1>1
  <2> QED
    BY <1>2, <1>4, <1>5, <2>1, <2>2, <2>3, CopiesKept
<1>13. Tokens'
  BY <1>1, <1>2, <1>4, TokensKept DEF Tokens
<1>14. Behind'
  <2>1. \A i \in Places(tail') : IsSave(tail'[i]) => tail'[i].upd \subseteq doc'
    BY <1>12 DEF Copies, IsSave, Writes, Places
  <2>2. \A i \in Places(tail') : IsSave(tail'[i]) => tail'[i].upd \subseteq draft'.snap
    BY <1>1, <1>3, <2>1
  <2>3. row'.upd \subseteq draft'.snap
    BY <1>1, <1>3, <1>7
  <2> QED
    BY <2>2, <2>3 DEF Behind, LateSaves, LateRow, Late, IsSave, Places
<1>15. Baseline'
  <2>1. Drafting' => Held' \subseteq draft'.snap
    BY <1>3, <1>6, <1>7
  <2> QED
    BY <1>1, <1>2, <1>6, <2>1 DEF Baseline, Places
<1>16. Outgoing'
  <2>1. nextId \notin Stored \cup Ids(InTransit)
    <3>1. nextId \notin 1..(nextId - 1)
      BY <1>2
    <3> QED
      BY <1>2, <3>1 DEF OutboxInv, IdsAreOld, Ids, InTransit, Places
  <2>2. (Stored \cup Ids(InTransit))' \subseteq Stored \cup Ids(InTransit)
    BY <1>1, TransitKept
  <2>3. \A i \in Places(tail') : IsMark(tail'[i]) => tail'[i].op.id # nextId
    <3>1. \A i \in Places(tail') : IsMark(tail'[i]) => tail'[i].op \in AllOps
      BY <1>2, <1>4, ShapeCases, OpsAre DEF IsMark, Carries
    <3>2. \A a \in AllOps : a.id # nextId
      BY <1>2, <1>8 DEF Named, Op
    <3> QED
      BY <3>1, <3>2
  <2> QED
    BY <1>3, <2>1, <2>2, <2>3 DEF Outgoing, IsMark, Places
<1>17. UnsentIsTokened' /\ Wakes'
  BY <1>1, <1>2, <1>6 DEF UnsentIsTokened, Wakes
<1> QED
  BY <1>9, <1>10, <1>11, <1>12, <1>13, <1>14, <1>15, <1>16, <1>17 DEF BaselineInv

\* A drain ends with nothing to send: all there is is at rest.
LEMMA NothingDrained ==
    ASSUME Before, BaselineInv, RunResume, drain' = "idle", UNCHANGED <<draft, active, nextId>>,
           ~MayDrain \/ NothingToSend \/ Diff = {}
    PROVE  BaselineInv'
<1>1. /\ UNCHANGED <<phase, doc, synced, snap, known, queue, captured, recovered, timer, row, rows, log,
                     c2r>>
      /\ phase = "up" /\ tail # <<>> /\ Head(tail).t = "resume" /\ tail' = Tail(tail)
  BY DEF RunResume, disk, wire, relay
<1>2. TypeOK /\ Vectors /\ Baseline /\ tail \in Seq(Task) /\ doc \subseteq Edits
  BY DEF Before, BaselineInv, TypeOK
<1>3. Shape(1, {}) /\ ~IsSave(tail[1])
  BY <1>1, <1>2, TailShape, HeadInPlace DEF IsSave
<1>4. \A i \in Places(c2r') : c2r'[i].t = "append" => c2r'[i].op \in AllOps
  BY <1>1, TransitKept
<1>5. queue # <<>> \/ doc \subseteq row.upd
  <2>1. CASE ~MayDrain
    BY <2>1 DEF MayDrain
  <2>2. CASE NothingToSend
    BY <1>2, <2>2 DEF NothingToSend, Baseline
  <2>3. CASE Diff = {}
    BY <1>2, <2>3, HeldRests DEF Diff, Vectors, Edits
  <2> QED
    BY <2>1, <2>2, <2>3
<1>6. Wakes'
  BY <1>1, <1>5 DEF Wakes
<1> QED
  BY <1>1, <1>3, <1>4, <1>6, QuietStep DEF Drafting

LEMMA RunResumeBaseline == ASSUME Before, BaselineInv, RunResume PROVE BaselineInv'
BY DraftMade, NothingDrained DEF RunResume

-----------------------------------------------------------------------------
(* The cache transactions and the relay.                                   *)

LEMMA RunSaveBaseline == ASSUME Before, BaselineInv, RunSave PROVE BaselineInv'
<1>1. /\ UNCHANGED <<phase, doc, synced, snap, known, queue, captured, recovered, active, timer, drain,
                     draft, rows, log, c2r, nextId>>
      /\ phase = "up" /\ tail # <<>> /\ Head(tail).t = "save" /\ tail' = Tail(tail)
      /\ row' = SaveRow(Head(tail))
  BY DEF RunSave, memory, wire, relay
<1>2. /\ TypeOK /\ OneDrain /\ Named /\ Made /\ Vectors /\ Copies /\ Tokens /\ Behind /\ Baseline
      /\ Outgoing /\ Wakes /\ tail \in Seq(Task)
  BY DEF Before, BaselineInv, OutboxInv, TypeOK
<1>3. LandsWell /\ row'.upd = row.upd \cup tail[1].upd
  BY <1>1, SaveLands
<1>4. 1 \in Places(tail) /\ Head(tail) = tail[1] /\ IsSave(tail[1]) /\ ~DrainMark(tail[1])
  BY <1>1, <1>2, HeadInPlace DEF IsSave, DrainMark, IsMark
<1>5. Shape(1, {})
  BY <1>1, <1>2, TailShape
<1>6. Held' = Held /\ Places(log') = Places(log)
  BY <1>1 DEF Held
<1>7. Named' /\ Made'
  <2>1. AllOps' \subseteq AllOps
    BY <1>1, <1>2, <1>5, <1>6, OpsAre, OpsKept DEF Places
  <2> QED
    BY <1>1, <1>2, <1>6, <2>1, NamesKept
<1>8. Vectors'
  <2>1. synced' \subseteq Held' /\ row'.syn \subseteq Held' /\ Held \subseteq Held'
    BY <1>1, <1>2, <1>3, <1>6 DEF Vectors, LandsWell
  <2> QED
    BY <1>2, <1>5, <2>1, VectorsKept
<1>9. Copies'
  <2>1. (\A x \in doc' : x \in doc) /\ row.upd \subseteq row'.upd /\ doc \subseteq doc'
    BY <1>1, <1>3 DEF LandsWell
  <2>2. (phase' = "up" => row'.upd \subseteq doc') /\ (Drafting' => draft'.snap \subseteq doc')
    BY <1>1, <1>2, <1>3 DEF Copies, Drafting, LandsWell
  <2>3. tail[1].upd \subseteq row'.upd
    BY <1>3
  <2> QED
    BY <1>2, <1>5, <2>1, <2>2, <2>3, CopiesKept
<1>10. Tokens'
  <2>1. row'.tok \subseteq row'.upd /\ recovered' \cup active' \subseteq doc'
    BY <1>1, <1>2, <1>3 DEF Tokens, LandsWell
  <2> QED
    BY <1>2, <1>5, <2>1, TokensKept
<1>11. Behind'
  <2> SUFFICES ASSUME Drafting' PROVE LateSaves' /\ LateRow'
    BY DEF Behind
  <2>1. Drafting /\ LateSaves /\ LateRow
    BY <1>1, <1>2 DEF Behind, Drafting
  <2>2. \A i \in Places(tail') : i \in Nat /\ i + 1 \in Places(tail) /\ tail'[i] = tail[i + 1]
    BY <1>2, <1>5, ShapeCases
  <2>3. \A i \in Places(tail') : IsSave(tail'[i]) /\ Late(tail'[i]) =>
           /\ tail'[i].token \cap draft.settles = {}
           /\ \A j \in Places(tail') : i < j /\ IsSave(tail'[j]) => Late(tail'[j])
    <3> TAKE i \in Places(tail')
    <3> HAVE IsSave(tail'[i]) /\ Late(tail'[i])
    <3>1. /\ tail[i + 1].token \cap draft.settles = {}
          /\ \A j \in Places(tail) : i + 1 < j /\ IsSave(tail[j]) => Late(tail[j])
      BY <2>1, <2>2 DEF LateSaves
    <3>2. \A j \in Places(tail') : i < j => i + 1 < j + 1
      BY <2>2
    <3> QED
      BY <2>2, <3>1, <3>2
  <2>4. ASSUME ~(row'.upd \subseteq draft.snap)
        PROVE  row'.tok \ draft.settles # {} /\ \A i \in Places(tail') : IsSave(tail'[i]) => Late(tail'[i])
    <3>1. Late(tail[1])
      <4>1. CASE row.upd \subseteq draft.snap
        BY <1>3, <2>4, <4>1 DEF Late
      <4>2. CASE ~(row.upd \subseteq draft.snap)
        BY <1>4, <2>1, <4>2 DEF LateRow
      <4> QED
        BY <4>1, <4>2
    <3>2. tail[1].token \cap draft.settles = {} /\ tail[1].token # {}
      BY <1>2, <1>4, <2>1, <3>1 DEF LateSaves, Tokens
    <3>3. tail[1].token \subseteq row'.tok
      BY <1>1, <1>2, <1>4, RowIs
    <3>4. \A i \in Places(tail') : 1 < i + 1
      BY <2>2 DEF Places
    <3>5. \A i \in Places(tail') : IsSave(tail'[i]) => Late(tail'[i])
      BY <1>4, <2>1, <2>2, <3>1, <3>4 DEF LateSaves
    <3> QED
      BY <3>2, <3>3, <3>5
  <2> QED
    BY <1>1, <2>3, <2>4 DEF LateSaves, LateRow, IsSave, Late, Places
<1>12. Baseline'
  BY <1>1, <1>2, <1>3, BaselineKept DEF LandsWell, Drafting
<1>13. Outgoing'
  <2>1. (Stored \cup Ids(InTransit))' \subseteq Stored \cup Ids(InTransit)
    BY <1>1, TransitKept
  <2>2. Drafting' \/ drain' = "sending" => draft'.id \notin (Stored \cup Ids(InTransit))'
    BY <1>1, <1>2, <2>1, DraftUnseen DEF Drafting
  <2> QED
    BY <1>1, <1>2, <1>4, <1>5, <2>2, OutgoingKept DEF Drafting
<1>14. UnsentIsTokened' /\ Wakes'
  BY <1>1, <1>2, <1>3, <1>6 DEF UnsentIsTokened, Wakes, LandsWell
<1> QED
  BY <1>7, <1>8, <1>9, <1>10, <1>11, <1>12, <1>13, <1>14 DEF BaselineInv

LEMMA RunEnqueueBaseline == ASSUME Before, BaselineInv, RunEnqueue PROVE BaselineInv'
<1> DEFINE mark == MarkOf(draft, "drain")
<1>1. /\ UNCHANGED <<phase, doc, synced, snap, known, active, timer, draft, log, c2r, nextId>>
      /\ phase = "up" /\ tail # <<>> /\ Head(tail).t = "enqueue"
      /\ row' = EnqueueRow(Head(tail)) /\ rows' = rows \cup {Head(tail).op}
      /\ recovered' = recovered \ Head(tail).op.settles
      /\ captured' = captured \cup {Head(tail).op.id}
      /\ queue' = Append(queue, Head(tail).op)
      /\ tail' = Append(Tail(tail), MarkOf(Head(tail).op, "drain"))
      /\ drain' = "sending"
  BY DEF RunEnqueue, wire, relay
<1>2. /\ TypeOK /\ OutboxInv /\ Named /\ Made /\ Vectors /\ Copies /\ Tokens /\ Baseline /\ Outgoing
      /\ tail \in Seq(Task) /\ queue \in Seq(Op) /\ draft \in Op
  BY DEF Before, BaselineInv, TypeOK
<1>3. LandsWell /\ tail[1].op = draft /\ drain = "storing" /\ row.upd \subseteq row'.upd /\ tail[1].upd \subseteq row'.upd
  BY <1>1, EnqueueLands
<1>4. 1 \in Places(tail) /\ Head(tail) = tail[1] /\ ~IsSave(tail[1]) /\ tail[1].t = "enqueue"
  BY <1>1, <1>2, HeadInPlace DEF IsSave
<1>5. Drafting /\ queue = <<>> /\ Places(queue) = {} /\ captured = {}
  BY <1>2, <1>3, NothingInPlace DEF Drafting, OutboxInv, DraftAlone, Baseline
<1>6. queue' # <<>> /\ queue'[1] = draft /\ Places(queue') = {1}
  <2>1. queue' = <<draft>>
    BY <1>1, <1>2, <1>3, <1>4, <1>5
  <2> QED
    BY <2>1 DEF Places
<1>7. mark \in Task /\ mark.op = draft /\ IsMark(mark) /\ DrainMark(mark) /\ ~Writes(mark) /\ ~IsSave(mark) /\ mark.t # "enqueue"
  BY <1>2, MadeTasks DEF MarkOf, IsMark, DrainMark, Writes, IsSave
<1>8. tail' = Append(Tail(tail), mark)
  BY <1>1, <1>3, <1>4
<1> HIDE DEF mark
<1>9. Shape(1, {mark})
  BY <1>1, <1>2, <1>7, <1>8, AppendShape DEF Left
<1>10. \E i \in Places(tail') : tail'[i] = mark
  <2>1. Tail(tail) \in Seq(Task)
    BY <1>1, <1>2, HeadTailProperties
  <2>2. Len(Tail(tail)) \in Nat /\ Len(tail') = Len(Tail(tail)) + 1 /\ tail'[Len(Tail(tail)) + 1] = mark
    BY <1>7, <1>8, <2>1, AppendProperties, LenProperties
  <2> QED
    BY <2>2 DEF Places
<1>11. Held' = Held /\ Places(log') = Places(log)
  BY <1>1 DEF Held
<1>12. Named' /\ Made'
  <2>1. draft \in AllOps /\ draft' = draft /\ rows' \subseteq AllOps
    BY <1>1, <1>3, OpsAre DEF LandsWell
  <2>2. \A task \in {mark} : Carries(task) => task.op \in AllOps
    BY <1>7, <2>1
  <2>3. \A i \in Places(queue') : queue'[i] \in AllOps
    BY <1>6, <2>1
  <2>4. /\ \A i \in Places(log') : log'[i] \in AllOps
        /\ \A i \in Places(c2r') : c2r'[i].t = "append" => c2r'[i].op \in AllOps
    BY <1>1, OpsAre DEF Places
  <2>5. AllOps' \subseteq AllOps
    BY <1>2, <1>9, <2>1, <2>2, <2>3, <2>4, OpsKept
  <2> QED
    BY <1>1, <1>2, <1>11, <2>5, NamesKept
<1>13. Vectors'
  <2>1. synced' \subseteq Held' /\ row'.syn \subseteq Held' /\ Held \subseteq Held'
    BY <1>1, <1>2, <1>3, <1>11 DEF Vectors, LandsWell
  <2> QED
    BY <1>2, <1>7, <1>9, <2>1, VectorsKept
<1>14. ~Drafting'
  BY <1>1 DEF Drafting
<1>15. Copies'
  <2>1. (\A x \in doc' : x \in doc) /\ row.upd \subseteq row'.upd /\ doc \subseteq doc' /\ row'.upd \subseteq doc'
    BY <1>1, <1>3 DEF LandsWell
  <2> QED
    BY <1>2, <1>4, <1>7, <1>9, <1>14, <2>1, CopiesKept
<1>16. Tokens'
  <2>1. row'.tok \subseteq row'.upd /\ recovered' \cup active' \subseteq doc'
    BY <1>1, <1>2, <1>3 DEF Tokens, LandsWell
  <2> QED
    BY <1>2, <1>7, <1>9, <2>1, TokensKept
<1>17. Baseline'
  <2>1. captured' = {draft.id}
    BY <1>1, <1>3, <1>4, <1>5
  <2>2. Held \subseteq draft.snap /\ draft.snap \subseteq row'.upd
    BY <1>2, <1>3, <1>4, <1>5 DEF Baseline, Copies
  <2>3. known => /\ phase = "up" /\ snap \subseteq row'.upd /\ Held \subseteq snap
    BY <1>2, <1>3, <1>5 DEF Baseline
  <2> QED
    BY <1>1, <1>6, <1>11, <1>14, <2>1, <2>2, <2>3 DEF Baseline, Places
<1>18. Outgoing'
  <2>1. draft.id \notin Stored \cup Ids(InTransit)
    BY <1>2, <1>5 DEF Outgoing
  <2>2. (Stored \cup Ids(InTransit))' \subseteq Stored \cup Ids(InTransit)
    BY <1>1, TransitKept
  <2>3. \A i \in Places(tail') : IsMark(tail'[i]) /\ tail'[i].op.id = draft.id => DrainMark(tail'[i])
    <3>1. \A i \in Places(tail) : ~DrainMark(tail[i])
      BY <1>2, <1>3, DrainMarkSends DEF OutboxInv
    <3>2. \A i \in Places(tail) : IsMark(tail[i]) => tail[i].op.id # draft.id
      BY <1>2, <1>5, <3>1 DEF Outgoing
    <3>3. \A i \in Places(tail') : tail'[i] = mark \/ \E j \in Places(tail) : tail'[i] = tail[j]
      BY <1>2, <1>9, ShapeCases
    <3> QED
      BY <1>7, <3>2, <3>3
  <2>4. \A i \in Places(tail') : i <= i
    BY DEF Places
  <2> QED
    BY <1>1, <1>6, <1>7, <1>10, <2>1, <2>2, <2>3, <2>4 DEF Outgoing, Places, IsMark, DrainMark
<1>19. Behind' /\ Wakes'
  BY <1>6, <1>14 DEF Behind, Wakes
<1>20. UnsentIsTokened'
  BY <1>3, <1>11 DEF UnsentIsTokened, LandsWell
<1> QED
  BY <1>12, <1>13, <1>15, <1>16, <1>17, <1>18, <1>19, <1>20 DEF BaselineInv

\* An acknowledgement met before: nothing is left to settle.
LEMMA SettledBefore ==
    ASSUME Before, BaselineInv, RunCommit, ~Committed(Head(tail))
    PROVE  BaselineInv'
<1>1. /\ UNCHANGED <<phase, doc, synced, snap, known, queue, captured, recovered, active, timer, drain, draft,
                     log, c2r, nextId>>
      /\ phase = "up" /\ tail # <<>> /\ Head(tail).t = "commit" /\ tail' = Tail(tail)
      /\ row' = CommitRow(Head(tail)) /\ rows' = CommitRows(Head(tail))
  BY DEF RunCommit, relay
<1>2. TypeOK /\ Outgoing /\ Wakes /\ tail \in Seq(Task)
  BY DEF Before, BaselineInv, TypeOK
<1>3. UNCHANGED <<row, rows>>
  BY <1>1 DEF Committed, CommitRow, CommitRows, Ids
<1>4. Shape(1, {}) /\ ~IsSave(tail[1]) /\ ~DrainMark(tail[1])
  BY <1>1, <1>2, TailShape, HeadInPlace DEF IsSave, DrainMark, IsMark
<1>5. /\ (Stored \cup Ids(InTransit))' \subseteq Stored \cup Ids(InTransit)
      /\ \A i \in Places(c2r') : c2r'[i].t = "append" => c2r'[i].op \in AllOps
  BY <1>1, TransitKept
<1>6. Drafting' \/ drain' = "sending" => draft.id \notin (Stored \cup Ids(InTransit))'
  BY <1>1, <1>2, <1>5, DraftUnseen DEF Drafting
<1>7. Wakes'
  BY <1>1, <1>2, <1>3 DEF Wakes
<1> QED
  BY <1>1, <1>3, <1>4, <1>5, <1>6, <1>7, QuietStep DEF Drafting

LEMMA SettledNow ==
    ASSUME Before, BaselineInv, RunCommit, Committed(Head(tail))
    PROVE  BaselineInv'
<1> DEFINE op == tail[1].op
<1>1. /\ UNCHANGED <<phase, doc, recovered, active, timer, draft, log, nextId>>
      /\ phase = "up" /\ tail # <<>> /\ Head(tail).t = "commit"
      /\ row' = CommitRow(Head(tail)) /\ rows' = CommitRows(Head(tail))
      /\ known' = (known \/ Head(tail).op.id \in captured)
      /\ snap' = IF Head(tail).op.id \in captured THEN Head(tail).op.snap ELSE snap
      /\ captured' = captured \ {Head(tail).op.id}
      /\ synced' = synced \cup Head(tail).op.sv
      /\ Send(Confirm(Head(tail).op.id))
      /\ tail' = Tail(tail) \o ResendTasks(queue', drain)
      /\ drain' = ResendDrain(queue', drain)
  BY DEF RunCommit, relay
<1>2. /\ TypeOK /\ OutboxInv /\ Named /\ Made /\ Vectors /\ Copies /\ Tokens /\ Behind /\ Baseline /\ Outgoing
      /\ Wakes /\ tail \in Seq(Task) /\ queue \in Seq(Op) /\ c2r \in Seq(ClientMessage)
  BY DEF Before, BaselineInv, TypeOK
<1>3. LandsWell /\ row'.upd = row.upd /\ row'.tok = row.tok
  BY <1>1, CommitLands
<1>4. /\ 1 \in Places(tail) /\ Head(tail) = tail[1] /\ tail[1] \in Task /\ tail[1].t = "commit"
      /\ ~IsSave(tail[1]) /\ ~DrainMark(tail[1]) /\ Carries(tail[1])
  BY <1>1, <1>2, HeadInPlace DEF IsSave, DrainMark, IsMark, Carries
<1>5. queue' = <<>> /\ Places(queue') = {} /\ op.id \in Stored
  <2>1. queue' = <<>> /\ Head(tail).op.id \in Stored
    BY <1>2, CommitEnds
  <2> QED
    BY <1>4, <2>1, NothingInPlace
<1>6. op \in AllOps /\ op \in Op /\ op.id \in Nat
  BY <1>2, <1>4, OpsAre, OpsTyped DEF Op
<1>7. op.content \subseteq Held /\ op.snap \subseteq Held /\ op.sv \subseteq Held
  BY <1>2, <1>5, <1>6, StoredIsHeld
<1>8. queue # <<>> => queue[1] = op
  <2> SUFFICES ASSUME queue # <<>> PROVE queue[1] = op
    OBVIOUS
  <2>1. 1 \in Places(queue) /\ Head(queue) = queue[1]
    BY <1>2, HeadInPlace
  <2>2. op.id = Head(queue).id
    BY <1>2, <1>4 DEF OutboxInv, CommitsOfHead
  <2> QED
    BY <1>2, <1>6, <2>1, <2>2, OpsAre DEF Named
<1>9. drain # "sending"
  <2> SUFFICES ASSUME drain = "sending" PROVE FALSE
    OBVIOUS
  <2>1. queue # <<>> /\ queue[1].id = draft.id /\ draft.id \notin Stored
    BY <1>2 DEF Outgoing
  <2> QED
    BY <1>5, <1>8, <2>1
<1>10. drain' \in {drain, "tail"} /\ (drain = "idle" => drain' = "tail")
  BY <1>1, <1>5 DEF ResendDrain, Draining
<1> DEFINE asked == ResendTasks(queue', drain)
<1>11. asked \in Seq(Task) /\ \A i \in Places(asked) : asked[i] \in Asks(<<>>)
  BY <1>5, Empties, MadeTasks, AsksAre
<1>12. Tail(tail) \o asked = tail'
  BY <1>1
<1> HIDE DEF asked
<1>13. Shape(1, Asks(<<>>))
  BY <1>1, <1>2, <1>11, <1>12, ConcatShape DEF Left
<1>14. \A task \in Asks(<<>>) : ~IsSave(task) /\ ~Writes(task) /\ task.t # "enqueue" /\ ~IsMark(task) /\ ~Carries(task)
  <2>1. Places(<<>>) = {}
    BY NothingInPlace
  <2> QED
    BY <2>1, AskKinds
<1>15. \A i \in Places(c2r') : c2r'[i].t = "append" => \E j \in Places(c2r) : c2r'[i] = c2r[j]
  <2>1. Confirm(op.id) \in ClientMessage /\ Confirm(op.id).t # "append"
    BY <1>6 DEF Confirm, ClientMessage
  <2>2. c2r' = c2r \/ c2r' = Append(c2r, Confirm(op.id))
    BY <1>1, <1>4 DEF Send
  <2>3. \A i \in Places(c2r') : (\E j \in Places(c2r) : c2r'[i] = c2r[j]) \/ c2r'[i] = Confirm(op.id)
    BY <1>2, <2>1, <2>2, AppendPlaces
  <2> QED
    BY <2>1, <2>3
<1>16. Held' = Held /\ Places(log') = Places(log)
  BY <1>1 DEF Held
<1>17. /\ (Stored \cup Ids(InTransit))' \subseteq Stored \cup Ids(InTransit)
       /\ \A i \in Places(c2r') : c2r'[i].t = "append" => c2r'[i].op \in AllOps
  BY <1>1, <1>15, TransitLess
<1>18. Named' /\ Made'
  <2>1. AllOps' \subseteq AllOps
    BY <1>1, <1>2, <1>3, <1>5, <1>13, <1>14, <1>16, <1>17, OpsAre, OpsKept DEF LandsWell
  <2> QED
    BY <1>1, <1>2, <1>16, <2>1, NamesKept
<1>19. Vectors'
  <2>1. synced' \subseteq Held' /\ row'.syn \subseteq Held' /\ Held \subseteq Held'
    BY <1>1, <1>2, <1>3, <1>4, <1>7, <1>16 DEF Vectors, LandsWell
  <2> QED
    BY <1>2, <1>13, <1>14, <2>1, VectorsKept
<1>20. Drafting' => Drafting
  BY <1>10 DEF Drafting
<1>21. Copies'
  <2>1. (\A x \in doc' : x \in doc) /\ row.upd \subseteq row'.upd /\ doc \subseteq doc'
    BY <1>1, <1>3
  <2>2. (phase' = "up" => row'.upd \subseteq doc') /\ (Drafting' => draft'.snap \subseteq doc')
    BY <1>1, <1>2, <1>3, <1>20 DEF Copies
  <2> QED
    BY <1>2, <1>4, <1>13, <1>14, <2>1, <2>2, CopiesKept
<1>22. Tokens'
  <2>1. row'.tok \subseteq row'.upd /\ recovered' \cup active' \subseteq doc'
    BY <1>1, <1>2, <1>3 DEF Tokens
  <2> QED
    BY <1>2, <1>13, <1>14, <2>1, TokensKept
<1>23. Behind'
  BY <1>1, <1>2, <1>3, <1>13, <1>14, <1>20, BehindKept
<1>24. Baseline'
  <2>1. captured' = {}
    BY <1>1, <1>2, <1>4, <1>8 DEF Baseline
  <2>2. ASSUME op.id \in captured PROVE Held \subseteq op.snap /\ op.snap \subseteq row.upd
    BY <1>2, <1>8, <2>2 DEF Baseline
  <2>3. ASSUME op.id \notin captured, known PROVE Held \subseteq snap /\ snap \subseteq row.upd
    <3>1. queue = <<>>
      BY <1>2, <1>8, <2>3 DEF Baseline
    <3> QED
      BY <1>2, <2>3, <3>1, NothingInPlace DEF Baseline
  <2>4. known' => Held \subseteq snap' /\ snap' \subseteq row.upd
    BY <1>1, <1>4, <2>2, <2>3
  <2>5. Drafting' => Held \subseteq draft.snap
    BY <1>2, <1>20 DEF Baseline
  <2> QED
    BY <1>1, <1>3, <1>5, <1>16, <2>1, <2>4, <2>5 DEF Baseline, Places
<1>25. Outgoing'
  <2>1. drain' # "sending"
    BY <1>9, <1>10
  <2>2. Drafting' \/ drain' = "sending" => draft'.id \notin (Stored \cup Ids(InTransit))'
    BY <1>1, <1>2, <1>17, <1>20, <2>1, DraftUnseen
  <2>3. Drafting' => Drafting /\ draft' = draft /\ \A task \in Asks(<<>>) : ~IsMark(task)
    BY <1>1, <1>14, <1>20
  <2>4. OneDrain
    BY <1>2 DEF OutboxInv
  <2> QED
    BY <1>2, <1>13, <2>1, <2>2, <2>3, <2>4, OutgoingKept
<1>26. UnsentIsTokened'
  BY <1>3, <1>16 DEF UnsentIsTokened, LandsWell
<1>27. Wakes'
  BY <1>2, <1>9, <1>10 DEF Wakes, TypeOK
<1> QED
  BY <1>18, <1>19, <1>21, <1>22, <1>23, <1>24, <1>25, <1>26, <1>27 DEF BaselineInv

LEMMA RunCommitBaseline == ASSUME Before, BaselineInv, RunCommit PROVE BaselineInv'
<1>1. CASE Committed(Head(tail))
  BY <1>1, SettledNow
<1>2. CASE ~Committed(Head(tail))
  BY <1>2, SettledBefore
<1> QED
  BY <1>1, <1>2

\* What the relay stores anew is in the outbox, and at the head of the queue when there is one.
LEMMA StoresTheHead ==
    ASSUME Before, BaselineInv, c2r # <<>>, Head(c2r).t = "append", Head(c2r).op.id \notin receipts
    PROVE  /\ c2r[1].op = Head(c2r).op /\ c2r[1].op \in AllOps /\ c2r[1].op \in Op /\ c2r[1].op \in rows
           /\ c2r[1].op.id \in Ids(InTransit)
           /\ ~Drafting
           /\ phase = "up" => queue # <<>> /\ queue[1] = c2r[1].op /\ Places(queue) = {1}
           /\ phase # "up" => queue = <<>>
<1> DEFINE op == c2r[1].op
<1>1. /\ TypeOK /\ OutboxInv /\ InHand /\ Named /\ c2r \in Seq(ClientMessage) /\ queue \in Seq(Op)
  BY DEF Before, BaselineInv, TypeOK
<1>2. 1 \in Places(c2r) /\ Head(c2r) = c2r[1]
  BY <1>1, HeadInPlace
<1>3. op \in AllOps /\ op \in Op /\ op.id \in Ids(InTransit)
  BY <1>1, <1>2, OpsAre, OpsTyped DEF Ids, InTransit, Places
<1>4. op.id \notin Stored
  BY <1>1, <1>2 DEF OutboxInv, FinishedForGood
<1>5. op.id \in Ids(rows)
  BY <1>1, <1>2, <1>4 DEF InHand, Accounted
<1>6. op \in rows
  BY <1>1, <1>3, <1>5, OpsAre DEF Ids, Named
<1>7. phase # "up" => queue = <<>> /\ ~Drafting
  BY <1>1 DEF OutboxInv, NotUpYet, Drafting
<1>8. ASSUME phase = "up" PROVE queue # <<>> /\ queue[1] = op /\ Places(queue) = {1}
  <2>1. PICK i \in Places(queue) : queue[i] = op
    BY <1>1, <1>6, <1>8 DEF OutboxInv, OneRow
  <2>2. Len(queue) \in Nat /\ Len(queue) <= 1
    BY <1>1, LenProperties DEF OutboxInv, OneRow
  <2>3. i \in Int /\ 1 <= i /\ i <= Len(queue)
    BY <2>2 DEF Places
  <2>4. i = 1 /\ Len(queue) = 1
    BY <2>2, <2>3
  <2>5. queue # <<>>
    BY <2>4
  <2> QED
    BY <2>1, <2>4, <2>5 DEF Places
<1>9. ~Drafting
  BY <1>1, <1>7, <1>8 DEF OutboxInv, DraftAlone
<1> QED
  BY <1>2, <1>3, <1>6, <1>7, <1>8, <1>9

LEMMA RelayAppendBaseline == ASSUME Before, BaselineInv, RelayAppend PROVE BaselineInv'
<1> DEFINE op == c2r[1].op
<1>1. /\ UNCHANGED <<phase, doc, synced, snap, known, queue, captured, recovered, active, timer, drain, draft,
                     row, rows, tail, nextId>>
      /\ c2r # <<>> /\ Head(c2r).t = "append" /\ c2r' = Tail(c2r)
      /\ UNCHANGED log \/ (Head(c2r).op.id \notin receipts /\ log' = Append(log, Head(c2r).op))
  BY DEF RelayAppend, memory, disk, relay
<1>2. /\ TypeOK /\ OneDrain /\ Named /\ Made /\ Vectors /\ Copies /\ Tokens /\ Behind /\ Baseline /\ Outgoing
      /\ Wakes /\ UnsentIsTokened
  BY DEF Before, BaselineInv, OutboxInv
<1>3. \A i \in Places(c2r') : \E j \in Places(c2r) : c2r'[i] = c2r[j]
  BY <1>1, <1>2, MessageTaken
<1>4. CASE UNCHANGED log
  BY <1>1, <1>3, <1>4, WireStep
<1>5. CASE Head(c2r).op.id \notin receipts /\ log' = Append(log, Head(c2r).op)
  <2>1. /\ Head(c2r).op = op /\ op \in AllOps /\ op \in Op /\ op \in rows /\ op.id \in Ids(InTransit)
        /\ ~Drafting
        /\ phase = "up" => queue # <<>> /\ queue[1] = op /\ Places(queue) = {1}
        /\ phase # "up" => queue = <<>>
    BY <1>1, <1>5, StoresTheHead
  <2>2. log' = Append(log, op)
    BY <1>5, <2>1
  <2> HIDE DEF op
  <2>3. /\ Held' = Held \cup op.content
        /\ \A i \in Places(log') : (i \in Places(log) /\ log'[i] = log[i]) \/ log'[i] = op
    BY <1>2, <2>1, <2>2, HeldGrows
  <2>4. Shape(0, {})
    BY <1>1, <1>2, SameShape
  <2>5. Named' /\ Made'
    <3>1. \A i \in Places(c2r') : c2r'[i].t = "append" => c2r'[i].op \in AllOps
      BY <1>3, OpsAre
    <3>2. AllOps' \subseteq AllOps
      BY <1>1, <1>2, <2>1, <2>3, <2>4, <3>1, OpsAre, OpsKept DEF Places
    <3> QED
      BY <1>1, <1>2, <2>3, <3>2, NamesKept
  <2>6. Vectors'
    <3>1. synced' \subseteq Held' /\ row'.syn \subseteq Held' /\ Held \subseteq Held'
      BY <1>1, <1>2, <2>3 DEF Vectors
    <3> QED
      BY <1>2, <2>4, <3>1, VectorsKept
  <2>7. Copies'
    BY <1>1, <1>2, <2>4, CopiesKept DEF Copies, Drafting
  <2>8. Tokens'
    BY <1>1, <1>2, <2>4, TokensKept DEF Tokens
  <2>9. Behind'
    BY <1>1, <1>2, <2>4, BehindKept DEF Drafting
  <2>10. Baseline'
    <3>1. op.content \subseteq op.snap
      BY <1>2, <2>1 DEF Made, WellMade
    <3>2. ~Drafting'
      BY <1>1, <2>1 DEF Drafting
    <3>3. ASSUME known PROVE Held' \subseteq snap \cup UNION {queue[i].content : i \in Places(queue)}
      BY <1>2, <2>1, <2>3, <3>3 DEF Baseline
    <3>4. ASSUME queue # <<>>, queue[1].id \in captured PROVE Held' \subseteq queue[1].snap
      BY <1>2, <2>1, <2>3, <3>1, <3>4 DEF Baseline
    <3> QED
      BY <1>1, <1>2, <3>2, <3>3, <3>4 DEF Baseline, Places
  <2>11. Outgoing'
    <3>1. Stored' \subseteq Stored \cup {op.id}
      BY <2>3 DEF Stored, Places
    <3>2. InTransit' \subseteq InTransit
      BY <1>3 DEF InTransit, Places
    <3>3. (Stored \cup Ids(InTransit))' \subseteq Stored \cup Ids(InTransit)
      BY <2>1, <3>1, <3>2 DEF Ids
    <3>4. Drafting' \/ drain' = "sending" => draft'.id \notin (Stored \cup Ids(InTransit))'
      BY <1>1, <1>2, <3>3, DraftUnseen DEF Drafting
    <3> QED
      BY <1>1, <1>2, <2>4, <3>4, OutgoingKept DEF Drafting
  <2>12. UnsentIsTokened' /\ Wakes'
    BY <1>1, <1>2, <2>3 DEF UnsentIsTokened, Wakes
  <2> QED
    BY <2>5, <2>6, <2>7, <2>8, <2>9, <2>10, <2>11, <2>12 DEF BaselineInv
<1> QED
  BY <1>1, <1>4, <1>5

-----------------------------------------------------------------------------
LEMMA BaselineStep == Before /\ BaselineInv /\ [Next]_vars => BaselineInv'
<1> SUFFICES ASSUME Before, BaselineInv, [Next]_vars PROVE BaselineInv'
  OBVIOUS
<1>1. CASE Start \/ Ready \/ Retire
  BY <1>1, StartBaseline, ReadyBaseline, RetireBaseline
<1>2. ASSUME NEW e \in Edits, Edit(e) PROVE BaselineInv'
  BY <1>2, EditBaseline
<1>3. CASE FireTimer \/ Sealed
  BY <1>3, FireTimerBaseline, SealedBaseline
<1>4. CASE RunTask
  BY <1>4, RunSaveBaseline, RunResumeBaseline, RunEnqueueBaseline, RunMarkBaseline, RunCommitBaseline
     DEF RunTask
<1>5. CASE Open \/ Close \/ Crash
  BY <1>5, OpenBaseline, CloseBaseline, CrashBaseline
<1>6. CASE Relay \/ RelayRefuse \/ Receive \/ RetryRefused
  BY <1>6, RelayAppendBaseline, AnswerBaseline, ReceiveAckBaseline, RetryBaseline DEF Relay, Receive
<1>7. CASE UNCHANGED vars
  <2>1. \A i \in Places(c2r') : \E j \in Places(c2r) : c2r'[i] = c2r[j]
    BY <1>7 DEF vars, wire
  <2> QED
    BY <1>7, <2>1, WireStep DEF vars, memory, disk, relay
<1> QED
  BY <1>1, <1>2, <1>3, <1>4, <1>5, <1>6, <1>7 DEF Next

LEMMA BaselineInit == Init => BaselineInv
<1> SUFFICES ASSUME Init PROVE BaselineInv
  OBVIOUS
<1>1. /\ phase = "down" /\ doc = {} /\ synced = {} /\ snap = {} /\ known = FALSE
      /\ queue = <<>> /\ captured = {} /\ recovered = {} /\ active = {}
      /\ drain = "idle" /\ draft = NoOp /\ tail = <<>> /\ row = [upd |-> {}, syn |-> {}, tok |-> {}]
      /\ rows = {} /\ c2r = <<>> /\ log = <<>> /\ nextId = 1
  BY DEF Init
<1>2. Places(queue) = {} /\ Places(tail) = {} /\ Places(c2r) = {} /\ Places(log) = {}
  BY <1>1, NothingInPlace
<1>3. AllOps = {NoOp}
  BY <1>1, <1>2 DEF AllOps
<1>4. Named /\ Made
  BY <1>1, <1>3 DEF Named, Made, WellMade, NoOp
<1>5. Vectors /\ Copies /\ Tokens
  BY <1>1, <1>2 DEF Vectors, Copies, Tokens, Drafting
<1>6. Behind /\ Baseline /\ Outgoing /\ Wakes /\ UnsentIsTokened
  BY <1>1, <1>2 DEF Behind, Baseline, Outgoing, Wakes, UnsentIsTokened, Drafting
<1> QED
  BY <1>4, <1>5, <1>6 DEF BaselineInv

LEMMA BeforeEverywhere == Spec => []Before
<1>1. Init => InHand
  BY NothingInPlace DEF Init, InHand
<1>2. Spec => []InHand
  BY <1>1, InHandStep, TypeCorrect, OutboxInvariant, PTL DEF Spec
<1> QED
  BY <1>2, TypeCorrect, OutboxInvariant, RestEverywhere, PTL DEF Before

LEMMA BaselineEverywhere == Spec => []BaselineInv
BY BaselineInit, BaselineStep, BeforeEverywhere, PTL DEF Spec

\* The vector the next difference is taken from never names an insertion the relay lacks, in
\* memory (lastSyncedStateVector) or at rest: no later difference leaves an edit out for good.
THEOREM NoInsertionSkipped == Spec => []BaselineSound
<1>1. BaselineInv => BaselineSound
  BY DEF BaselineInv, Vectors, BaselineSound
<1> QED
  BY <1>1, BaselineEverywhere, PTL

\* An edit at rest that neither the relay holds nor an operation of the outbox carries keeps a
\* dirty token, whatever was in flight when the tab died: the next engine sends it.
THEOREM UnsentKeepsAToken == Spec => []UnsentIsTokened
<1>1. BaselineInv => UnsentIsTokened
  BY DEF BaselineInv
<1> QED
  BY <1>1, BaselineEverywhere, PTL

\* `True only when destroying the engine cannot strand a locally queued operation` (isIdle).
THEOREM IdleMayGo == Spec => []IdleStrandsNothing
<1>1. Before /\ BaselineInv => IdleStrandsNothing
  <2> SUFFICES ASSUME Before, BaselineInv, IsIdle
               PROVE  doc \subseteq row.upd /\ (doc \subseteq Held \/ row.tok # {})
    BY DEF IdleStrandsNothing
  <2>1. doc \subseteq row.upd
    BY DEF BaselineInv, Wakes, IsIdle
  <2>2. rows = {}
    BY NothingInPlace DEF IsIdle, Before, OutboxInv, OneRow
  <2> QED
    BY <2>1, <2>2 DEF BaselineInv, UnsentIsTokened
<1> QED
  BY <1>1, BeforeEverywhere, BaselineEverywhere, PTL

\* An append that brings the relay nothing new is made only while the baseline is unknown:
\* snapshot equality, never the length of the difference, ends the drains (ready, doc-sync.ts).
THEOREM NoAppendForNothing == Spec => NoEmptyAppends
<1> DEFINE Empty == drain # "sealing" /\ drain' = "sealing" /\ draft'.content \subseteq Held
<1>1. Before /\ BaselineInv /\ [Next]_vars => [Empty => ~known]_vars
  <2> SUFFICES ASSUME Before, BaselineInv, Next, drain # "sealing", drain' = "sealing",
                      draft'.content \subseteq Held, known
               PROVE  FALSE
    OBVIOUS
  <2>1. RunResume
    <3>1. CASE Start \/ Retire \/ (\E e \in Edits : Edit(e)) \/ Sealed \/ Close \/ Crash
      BY <3>1 DEF Start, Retire, Edit, Sealed, Close, Crash, Forget, memory
    <3>2. CASE Ready \/ FireTimer \/ Open \/ RunCommit
      <4>1. drain' \in {drain, "tail"}
        BY <3>2, DrainOnlyAsked DEF Ready, FireTimer, Open, RunCommit
      <4> QED
        BY <4>1
    <3>3. CASE RunSave \/ RunEnqueue \/ RunMark
      BY <3>3 DEF RunSave, RunEnqueue, RunMark, memory
    <3>4. CASE Relay \/ RelayRefuse \/ Receive \/ RetryRefused
      BY <3>4 DEF Relay, RelayAppend, RelayConfirm, RelayRefuse, Receive, ReceiveAck, ReceiveRefusal,
         RetryRefused, memory
    <3> QED
      BY <3>1, <3>2, <3>3, <3>4 DEF Next, RunTask
  <2>2. queue = <<>> /\ ~NothingToSend /\ draft'.content = Diff
    BY <2>1 DEF RunResume, MayDrain
  <2>3. Held \subseteq snap /\ snap \subseteq doc
    BY <2>1, <2>2, NothingInPlace DEF RunResume, BaselineInv, Baseline, Copies
  <2>4. doc \subseteq Held
    BY <2>2 DEF Diff, BaselineInv, Vectors, Before, TypeOK, Edits
  <2> QED
    BY <2>2, <2>3, <2>4 DEF NothingToSend
<1> QED
  BY <1>1, BeforeEverywhere, BaselineEverywhere, PTL DEF Spec, NoEmptyAppends
=============================================================================
