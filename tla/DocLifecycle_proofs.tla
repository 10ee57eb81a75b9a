------------------------ MODULE DocLifecycle_proofs ------------------------
(***************************************************************************)
(* Theorems about DocLifecycle, for any bounds and whatever is assumed     *)
(* calm.                                                                   *)
(***************************************************************************)
EXTENDS DocLifecycle, TLAPS, SequenceTheorems

-----------------------------------------------------------------------------
(* What is made of items, for a set of them.                               *)

AtMostOne(S) == {<<>>} \cup {<<x>> : x \in S}

BasesOf == AtMostOne([text: SUBSET Items, dead: SUBSET Items])

Kinds == {"append", "delete", "resurrect"}
OpsOf(W) == [id: Nat, kind: Kinds, gen: Nat, adds: SUBSET W, kills: SUBSET W, holds: SUBSET W,
             boundary: BasesOf, creates: BOOLEAN]

UpdatesIn(W) == [gen: Nat, seq: Nat, adds: SUBSET W, kills: SUBSET W]
StoredIn(W)  == [adds: SUBSET W, kills: SUBSET W]
Acks == [t: {"ack"}, id: Nat, gen: Nat, seq: Nat]

SendsOf(W)    == [t: Kinds, op: OpsOf(W)]
CatchUps      == [t: {"catchup"}, gen: Nat, after: Nat]
Confirms      == [t: {"confirm"}, id: Nat]
RequestsOf(W) == SendsOf(W) \cup CatchUps \cup Confirms

States       == {"active", "deleted"}
PagesOf(W)   == [t: {"page"}, gen: Nat, state: States, updates: Seq(UpdatesIn(W))]
TellsOf(W)   == [t: {"update"}, update: UpdatesIn(W)]
Stales       == [t: {"stale"}, gen: Nat]
AnswersOf(W) == Acks \cup PagesOf(W) \cup TellsOf(W) \cup Stales

AckCallsOf(W) == [t: {"ack"}, ack: Acks, op: OpsOf(W)]
AppliesOf(W)  == [t: {"apply"}, live: BOOLEAN, todo: Seq(UpdatesIn(W)), opening: AtMostOne(UpdatesIn(W))]
PurgeCalls    == [t: {"purge"}]
StaleCalls    == [t: {"stale"}, gen: Nat, ids: SUBSET Nat]
CallsOf(W)    == AckCallsOf(W) \cup AppliesOf(W) \cup PurgeCalls \cup StaleCalls

-----------------------------------------------------------------------------
(* The inductive invariant.                                                *)

WrittenBy(who) == IF who = "here" THEN edits ELSE peerEdits

\* The items written so far: one was written again only when its former self was deleted here.
Written ==
    {i \in Items : i[2] <= WrittenBy(i[1]) /\ (i[3] > 0 => <<i[1], i[2], i[3] - 1>> \in dead)}

Counts ==
    /\ edits \in 0..MaxEdits /\ peerEdits \in 0..MaxPeerEdits /\ ops \in Nat
    /\ gen \in Nat /\ rgen \in Nat /\ lastSeq \in Nat /\ deletionGen \in Nat
Modes ==
    /\ life \in {"active", "deleting", "deleted", "resurrecting"}
    /\ rstate \in States
    /\ drain \in {"no", "wanted", "busy"} /\ deletion \in {"no", "asked", "discarding", "writing"}
    /\ {timer, created, recreating, open} \subseteq BOOLEAN
Texts ==
    /\ {text, dead, known, buried} \subseteq SUBSET Written
    /\ text \cap dead = {}
    /\ base \in BasesOf
\* A place in the queue is kept for the operation that is being written.
Queued ==
    /\ queue \in Seq(OpsOf(Written)) /\ rows \in SUBSET Nat
    /\ sealing \in AtMostOne(OpsOf(Written)) /\ (drain = "busy" <=> sealing # <<>>)
    /\ Len(queue) + (IF drain = "busy" THEN 1 ELSE 0) + (IF deletion \in {"no", "asked"} THEN 0 ELSE 1) <= 2
Waits == calls \in Seq(CallsOf(Written))
Wires == c2r \in Seq(RequestsOf(Written)) /\ r2c \in Seq(AnswersOf(Written))
Kept  == rlog \in Seq(StoredIn(Written)) /\ receipts \in SUBSET Acks

LifeInv == Counts /\ Modes /\ Texts /\ Queued /\ Waits /\ Wires /\ Kept

-----------------------------------------------------------------------------
(* Sequences.                                                              *)

LEMMA WiderSeq ==
    ASSUME NEW S, NEW T, S \subseteq T
    PROVE  Seq(S) \subseteq Seq(T) /\ AtMostOne(S) \subseteq AtMostOne(T)
<1>1. ASSUME NEW s \in Seq(S) PROVE s \in Seq(T)
  BY <1>1, LenProperties
<1> QED
  BY <1>1 DEF AtMostOne

LEMMA OneIsSeq ==
    ASSUME NEW S
    PROVE  AtMostOne(S) \subseteq Seq(S) /\ \A x \in S : <<x>> \in AtMostOne(S) /\ <<x>> \in Seq(S)
<1>1. \A x \in S : <<x>> \in Seq(S)
  OBVIOUS
<1>2. <<>> \in Seq(S)
  OBVIOUS
<1> QED
  BY <1>1, <1>2, Zenon DEF AtMostOne

LEMMA TheOne ==
    ASSUME NEW S, NEW s \in AtMostOne(S), s # <<>>
    PROVE  s[1] \in S /\ s = <<s[1]>> /\ Len(s) = 1
<1>1. PICK x \in S : s = <<x>>
  BY DEF AtMostOne
<1> QED
  BY <1>1

LEMMA Extended ==
    ASSUME NEW S, NEW s \in Seq(S), NEW t \in Seq(S)
    PROVE  s \o t \in Seq(S) /\ Len(s \o t) = Len(s) + Len(t)
BY ConcatProperties

LEMMA Removed ==
    ASSUME NEW S, NEW s \in Seq(S), NEW i \in DOMAIN s
    PROVE  RemoveAt(s, i) \in Seq(S)
<1>1. i \in 1..Len(s) /\ Len(s) \in Nat /\ \A j \in 1..Len(s) : s[j] \in S
  BY LenProperties
<1>2. SubSeq(s, 1, i - 1) \in Seq(S)
  <2>1. \A j \in 1..(i - 1) : s[j] \in S
    BY <1>1
  <2> QED
    BY <2>1, <1>1, SubSeqProperties
<1>3. SubSeq(s, i + 1, Len(s)) \in Seq(S)
  <2>1. \A j \in (i + 1)..Len(s) : s[j] \in S
    BY <1>1
  <2> QED
    BY <2>1, <1>1, SubSeqProperties
<1> QED
  BY <1>2, <1>3, ConcatProperties DEF RemoveAt

LEMMA Members ==
    ASSUME NEW S, NEW s \in Seq(S)
    PROVE  /\ Len(s) \in Nat /\ DOMAIN s = 1..Len(s)
           /\ \A i \in DOMAIN s : s[i] \in S
           /\ \A x \in Range(s) : x \in S
           /\ s # <<>> => Head(s) \in S /\ Tail(s) \in Seq(S) /\ Len(Tail(s)) = Len(s) - 1 /\ Len(s) > 0
<1>1. Len(s) \in Nat /\ DOMAIN s = 1..Len(s) /\ \A i \in DOMAIN s : s[i] \in S
  BY LenProperties
<1>2. \A x \in Range(s) : x \in S
  BY <1>1 DEF Range
<1>3. s # <<>> => Head(s) \in S /\ Tail(s) \in Seq(S) /\ Len(Tail(s)) = Len(s) - 1 /\ Len(s) > 0
  BY HeadTailProperties, EmptySeq
<1> QED
  BY <1>1, <1>2, <1>3

-----------------------------------------------------------------------------
(* More items: what is made of items stays what it was.                    *)

LEMMA WiderOf ==
    ASSUME NEW W, NEW V, W \subseteq V
    PROVE  /\ OpsOf(W) \subseteq OpsOf(V) /\ Seq(OpsOf(W)) \subseteq Seq(OpsOf(V))
           /\ AtMostOne(OpsOf(W)) \subseteq AtMostOne(OpsOf(V))
           /\ Seq(StoredIn(W)) \subseteq Seq(StoredIn(V))
           /\ Seq(RequestsOf(W)) \subseteq Seq(RequestsOf(V))
           /\ Seq(AnswersOf(W)) \subseteq Seq(AnswersOf(V))
           /\ CallsOf(W) \subseteq CallsOf(V) /\ Seq(CallsOf(W)) \subseteq Seq(CallsOf(V))
           /\ UpdatesIn(W) \subseteq UpdatesIn(V) /\ Seq(UpdatesIn(W)) \subseteq Seq(UpdatesIn(V))
<1>1. OpsOf(W) \subseteq OpsOf(V)
  BY DEF OpsOf
<1>2. Seq(OpsOf(W)) \subseteq Seq(OpsOf(V)) /\ AtMostOne(OpsOf(W)) \subseteq AtMostOne(OpsOf(V))
  BY <1>1, WiderSeq
<1>3. StoredIn(W) \subseteq StoredIn(V) /\ UpdatesIn(W) \subseteq UpdatesIn(V)
  BY DEF StoredIn, UpdatesIn
<1>4. /\ Seq(StoredIn(W)) \subseteq Seq(StoredIn(V)) /\ Seq(UpdatesIn(W)) \subseteq Seq(UpdatesIn(V))
      /\ AtMostOne(UpdatesIn(W)) \subseteq AtMostOne(UpdatesIn(V))
  BY <1>3, WiderSeq
<1>5. RequestsOf(W) \subseteq RequestsOf(V)
  <2>1. SendsOf(W) \subseteq SendsOf(V)
    BY <1>1 DEF SendsOf
  <2> QED
    BY <2>1 DEF RequestsOf
<1>6. AnswersOf(W) \subseteq AnswersOf(V)
  <2>1. PagesOf(W) \subseteq PagesOf(V)
    BY <1>4 DEF PagesOf
  <2>2. TellsOf(W) \subseteq TellsOf(V)
    BY <1>3 DEF TellsOf
  <2> QED
    BY <2>1, <2>2 DEF AnswersOf
<1>7. CallsOf(W) \subseteq CallsOf(V)
  <2>1. AckCallsOf(W) \subseteq AckCallsOf(V)
    BY <1>1 DEF AckCallsOf
  <2>2. AppliesOf(W) \subseteq AppliesOf(V)
    BY <1>4 DEF AppliesOf
  <2> QED
    BY <2>1, <2>2 DEF CallsOf
<1> QED
  BY <1>1, <1>2, <1>3, <1>4, <1>5, <1>6, <1>7, WiderSeq

LEMMA Bounds ==
    /\ MaxEdits \in Nat /\ MaxPeerEdits \in Nat /\ MaxGen \in Nat
BY LifecycleAssumption

LEMMA Grown ==
    ASSUME Counts, Counts', dead \subseteq dead', edits <= edits', peerEdits <= peerEdits'
    PROVE  Written \subseteq Written'
<1>1. WrittenBy("here") <= WrittenBy("here")' /\ WrittenBy("peer") <= WrittenBy("peer")'
  BY DEF WrittenBy
<1>2. ASSUME NEW i \in Written PROVE i \in Written'
  <2>1. i \in Items /\ i[1] \in {"here", "peer"} /\ i[2] \in Nat /\ i[2] <= WrittenBy(i[1])
    BY Bounds DEF Written, Items
  <2>2. i[2] <= WrittenBy(i[1])'
    <3>1. WrittenBy("here") \in Nat /\ WrittenBy("here")' \in Nat /\ WrittenBy("peer") \in Nat /\ WrittenBy("peer")' \in Nat
      BY DEF WrittenBy, Counts
    <3> QED
      BY <3>1, <2>1, <1>1
  <2>3. i[3] > 0 => <<i[1], i[2], i[3] - 1>> \in dead'
    BY <1>2 DEF Written
  <2> QED
    BY <2>1, <2>2, <2>3 DEF Written
<1> QED
  BY <1>2

LEMMA Unwritten ==
    ASSUME UNCHANGED <<dead, edits, peerEdits>>
    PROVE  Written' = Written
BY DEF Written, WrittenBy

\* Where the text goes, it is deleted text before it is written again.
LEMMA AgainIsWritten ==
    ASSUME Counts, Texts, UNCHANGED <<edits, peerEdits>>, dead' = dead \cup text
    PROVE  \A i \in text : Again(i) \in Written' /\ Again(i) \notin dead \cup text
<1> SUFFICES ASSUME NEW i \in text PROVE Again(i) \in Written' /\ Again(i) \notin dead \cup text
  OBVIOUS
<1>1. i \in Items /\ i \in Written /\ i[2] <= WrittenBy(i[1])
  BY DEF Texts, Written
<1>2. /\ i = <<i[1], i[2], i[3]>> /\ i[1] \in {"here", "peer"} /\ i[2] \in 1..(MaxEdits + MaxPeerEdits) /\ i[3] \in Nat
  BY <1>1 DEF Items
<1>3. /\ Again(i) \in Items /\ Again(i)[1] = i[1] /\ Again(i)[2] = i[2] /\ Again(i)[3] = i[3] + 1
  BY <1>2 DEF Again, Items
<1>4. i[3] + 1 - 1 = i[3] /\ i[3] + 1 > 0
  BY <1>2
<1>5. <<Again(i)[1], Again(i)[2], Again(i)[3] - 1>> = i
  BY <1>2, <1>3, <1>4
<1>6. WrittenBy(i[1])' = WrittenBy(i[1])
  BY DEF WrittenBy
<1>7. Again(i) \in Written'
  BY <1>1, <1>3, <1>5, <1>6 DEF Written
<1>8. ASSUME Again(i) \in dead \cup text PROVE FALSE
  <2>1. Again(i) \in Written
    BY <1>8 DEF Texts
  <2>2. i \in dead
    BY <2>1, <1>3, <1>4, <1>5 DEF Written
  <2> QED
    BY <2>2 DEF Texts
<1> QED
  BY <1>7, <1>8

-----------------------------------------------------------------------------
(* What a step leaves alone keeps its type.                                *)

LEMMA Carried ==
    ASSUME LifeInv, Written \subseteq Written'
    PROVE  /\ UNCHANGED calls => Waits'
           /\ UNCHANGED c2r => c2r' \in Seq(RequestsOf(Written'))
           /\ UNCHANGED r2c => r2c' \in Seq(AnswersOf(Written'))
           /\ UNCHANGED <<rlog, receipts>> => Kept'
           /\ UNCHANGED <<queue, rows, sealing, drain, deletion, deletionGen>> => Queued'
           /\ queue \in Seq(OpsOf(Written')) /\ sealing \in AtMostOne(OpsOf(Written'))
           /\ calls \in Seq(CallsOf(Written'))
           /\ \A W \in {text, dead, known, buried} : W \subseteq Written'
<1>1. /\ queue \in Seq(OpsOf(Written')) /\ sealing \in AtMostOne(OpsOf(Written'))
      /\ calls \in Seq(CallsOf(Written')) /\ c2r \in Seq(RequestsOf(Written')) /\ r2c \in Seq(AnswersOf(Written'))
      /\ rlog \in Seq(StoredIn(Written'))
  BY WiderOf DEF LifeInv, Queued, Waits, Wires, Kept
<1>2. UNCHANGED <<queue, rows, sealing, drain, deletion, deletionGen>> => Queued'
  BY <1>1 DEF LifeInv, Queued
<1> QED
  BY <1>1, <1>2 DEF LifeInv, Waits, Wires, Kept, Texts

LEMMA Sent ==
    ASSUME LifeInv, Written \subseteq Written', NEW ms \in Seq(RequestsOf(Written')), Send(ms)
    PROVE  c2r' \in Seq(RequestsOf(Written'))
<1>1. c2r \in Seq(RequestsOf(Written'))
  BY WiderOf DEF LifeInv, Wires
<1> QED
  BY <1>1, Extended DEF Send

LEMMA Answered ==
    ASSUME LifeInv, Written \subseteq Written', NEW m \in AnswersOf(Written')
    PROVE  Answer(<<m>>) \/ Tell(m) => r2c' \in Seq(AnswersOf(Written'))
<1>1. r2c \in Seq(AnswersOf(Written'))
  BY WiderOf DEF LifeInv, Wires
<1>2. r2c \o <<m>> \in Seq(AnswersOf(Written')) /\ Append(r2c, m) \in Seq(AnswersOf(Written'))
  BY <1>1, Extended, OneIsSeq
<1> QED
  BY <1>1, <1>2 DEF Answer, Tell

LEMMA Called ==
    ASSUME LifeInv, Written \subseteq Written', NEW k \in CallsOf(Written')
    PROVE  /\ NewCall(k) => Waits'
           /\ \A i \in DOMAIN calls : SetCall(i, k) => Waits'
           /\ \A i \in {0} \cup DOMAIN calls : PutCall(i, k) => Waits'
<1>1. calls \in Seq(CallsOf(Written'))
  BY Carried
<1>2. NewCall(k) => Waits'
  BY <1>1 DEF NewCall, Waits
<1>3. \A i \in DOMAIN calls : SetCall(i, k) => Waits'
  BY <1>1 DEF SetCall, Waits
<1> QED
  BY <1>2, <1>3 DEF PutCall

LEMMA Ended ==
    ASSUME LifeInv, Written \subseteq Written', NEW i \in DOMAIN calls, EndCall(i)
    PROVE  Waits'
<1>1. calls \in Seq(CallsOf(Written'))
  BY Carried
<1> QED
  BY <1>1, Removed DEF EndCall, Waits

LEMMA Heard ==
    ASSUME LifeInv, NEW t, Received(t)
    PROVE  Head(r2c) \in AnswersOf(Written) /\ Head(r2c).t = t
<1>1. r2c \in Seq(AnswersOf(Written))
  BY DEF LifeInv, Wires
<1> QED
  BY <1>1, Members DEF Received

\* A message that is received leaves the others.
LEMMA Taken ==
    ASSUME LifeInv, Written \subseteq Written', NEW t, Received(t)
    PROVE  /\ Head(r2c) \in AnswersOf(Written) /\ Head(r2c).t = t
           /\ r2c' \in Seq(AnswersOf(Written'))
<1>1. r2c \in Seq(AnswersOf(Written)) /\ r2c \in Seq(AnswersOf(Written'))
  BY WiderOf DEF LifeInv, Wires
<1> QED
  BY <1>1, Members DEF Received

LEMMA Messages ==
    ASSUME NEW W, NEW o \in OpsOf(W)
    PROVE  Message(o) \in RequestsOf(W)
BY DEF Message, OpsOf, RequestsOf, SendsOf

LEMMA Asks ==
    ASSUME NEW W, NEW g \in Nat, NEW n \in Nat
    PROVE  CatchUp(g, n) \in RequestsOf(W) /\ Confirm(n) \in RequestsOf(W)
BY DEF CatchUp, Confirm, RequestsOf, CatchUps, Confirms

LEMMA Captured ==
    ASSUME NEW a, NEW b, a \subseteq Items, b \subseteq Items
    PROVE  <<[text |-> a, dead |-> b]>> \in BasesOf /\ Unknown \in BasesOf
BY DEF BasesOf, AtMostOne, Unknown

LEMMA InItems == Written \subseteq Items /\ Written' \subseteq Items
BY DEF Written, Items

-----------------------------------------------------------------------------
(* Editing and draining.                                                   *)

LEMMA InitLife == Init => LifeInv
<1> SUFFICES ASSUME Init PROVE LifeInv
  OBVIOUS
<1> USE DEF Init
<1>1. Counts
  BY Bounds DEF Counts
<1>2. Modes
  BY LifecycleAssumption DEF Modes, States
<1>3. Texts
  BY Captured DEF Texts, Snapshot
<1>4. Queued
  BY Members DEF Queued, AtMostOne
<1>5. Waits /\ Wires /\ Kept
  BY DEF Waits, Wires, Kept
<1> QED
  BY <1>1, <1>2, <1>3, <1>4, <1>5 DEF LifeInv

LEMMA EditLife == LifeInv /\ Edit => LifeInv'
<1> SUFFICES ASSUME LifeInv, Edit PROVE LifeInv'
  OBVIOUS
<1> USE DEF LifeInv
<1>1. Counts'
  BY Bounds DEF Edit, Counts, socket, relay
<1>2. Written \subseteq Written'
  BY <1>1, Grown DEF Edit, Counts
<1>3. Modes'
  BY DEF Edit, Modes, socket, relay
<1> DEFINE new == <<"here", edits', 0>>
<1>4. new \in Written' /\ new \notin dead
  <2>1. edits' = edits + 1 /\ edits' \in 1..(MaxEdits + MaxPeerEdits) /\ edits \in Nat
    BY Bounds DEF Edit, Counts
  <2>2. new \in Items /\ new[1] = "here" /\ new[2] = edits' /\ new[3] = 0
    BY <2>1 DEF Items
  <2>3. new \in Written'
    BY <2>1, <2>2 DEF Written, WrittenBy
  <2>4. ASSUME new \in dead PROVE FALSE
    <3>1. new \in Written
      BY <2>4 DEF Texts
    <3>2. edits' <= edits
      BY <3>1, <2>2 DEF Written, WrittenBy
    <3> QED
      BY <3>2, <2>1
  <2> QED
    BY <2>3, <2>4
<1>5. Texts'
  BY <1>2, <1>4, Carried DEF Edit, Texts
<1>6. Queued' /\ Waits' /\ Wires' /\ Kept'
  BY <1>2, Carried DEF Edit, socket, relay, Wires
<1> QED
  BY <1>1, <1>3, <1>5, <1>6

LEMMA FireTimerLife == LifeInv /\ FireTimer => LifeInv'
<1> SUFFICES ASSUME LifeInv, FireTimer PROVE LifeInv'
  OBVIOUS
<1> USE DEF LifeInv
<1>1. Written' = Written
  BY Unwritten DEF FireTimer, bounds
<1>2. Counts' /\ Texts'
  BY <1>1 DEF FireTimer, Counts, Texts, bounds, relay
<1>3. Modes'
  BY DEF FireTimer, Modes, WantDrain, socket, relay
<1>4. Waits' /\ Wires' /\ Kept'
  BY <1>1, Carried DEF FireTimer, socket, relay, Wires
<1>5. drain' = "busy" <=> drain = "busy"
  BY DEF FireTimer, WantDrain
<1>6. Queued'
  BY <1>1, <1>5 DEF FireTimer, Queued
<1> QED
  BY <1>2, <1>3, <1>4, <1>6

LEMMA DrainStartLife == LifeInv /\ DrainStart => LifeInv'
<1> SUFFICES ASSUME LifeInv, DrainStart PROVE LifeInv'
  OBVIOUS
<1> USE DEF LifeInv
<1>1. Written' = Written
  BY Unwritten DEF DrainStart
<1>2. Counts'
  BY DEF DrainStart, Counts, relay
<1>3. Texts'
  BY <1>1 DEF DrainStart, Texts
<1>4. Modes'
  BY DEF DrainStart, Modes, socket, relay
<1>5. Waits' /\ Wires' /\ Kept'
  BY <1>1, Carried DEF DrainStart, socket, relay, Wires
<1>6. Queued'
  <2>1. CASE drain' = "no" /\ UNCHANGED sealing
    BY <2>1, <1>1 DEF DrainStart, Queued
  <2>2. CASE drain' # "no"
    <3>1. /\ queue = <<>> /\ drain' = "busy" /\ drain = "wanted"
          /\ sealing' = <<[id |-> ops', kind |-> IF life = "deleted" THEN "resurrect" ELSE "append", gen |-> gen,
                         adds |-> Plaintext(text), kills |-> dead, holds |-> text \cup dead,
                         boundary |-> Snapshot, creates |-> created]>>
      BY <2>2 DEF DrainStart
    <3> DEFINE o == [id |-> ops', kind |-> IF life = "deleted" THEN "resurrect" ELSE "append", gen |-> gen,
                     adds |-> Plaintext(text), kills |-> dead, holds |-> text \cup dead,
                     boundary |-> Snapshot, creates |-> created]
    <3>2. text \subseteq Written /\ dead \subseteq Written /\ text \subseteq Items /\ dead \subseteq Items
      BY InItems DEF Texts
    <3>3. Plaintext(text) \subseteq Written /\ Snapshot \in BasesOf
      BY <3>2, Captured DEF Plaintext, Snapshot
    <3>4. ops' \in Nat /\ gen \in Nat /\ created \in BOOLEAN
      BY <1>2 DEF Counts, Modes
    <3>5. o \in OpsOf(Written)
      BY <3>2, <3>3, <3>4 DEF OpsOf, Kinds
    <3> HIDE DEF o
    <3>6. sealing' = <<o>> /\ <<o>> # <<>>
      BY <3>1 DEF o
    <3>7. sealing' \in AtMostOne(OpsOf(Written'))
      BY <3>5, <3>6, <1>1, OneIsSeq
    <3>8. UNCHANGED <<queue, rows, deletion, deletionGen>> /\ queue' \in Seq(OpsOf(Written'))
      BY <1>1 DEF DrainStart, Queued
    <3> QED
      BY <3>1, <3>6, <3>7, <3>8 DEF Queued
  <2> QED
    BY <2>1, <2>2 DEF DrainStart
<1> QED
  BY <1>2, <1>3, <1>4, <1>5, <1>6

LEMMA DrainEndLife == LifeInv /\ DrainEnd => LifeInv'
<1> SUFFICES ASSUME LifeInv, DrainEnd PROVE LifeInv'
  OBVIOUS
<1> USE DEF LifeInv
<1>1. Written' = Written
  BY Unwritten DEF DrainEnd, bounds
<1>2. Counts' /\ Texts'
  BY <1>1 DEF DrainEnd, Counts, Texts, bounds, relay
<1>3. Modes'
  BY DEF DrainEnd, Modes, relay
<1>4. sealing[1] \in OpsOf(Written) /\ sealing = <<sealing[1]>> /\ Len(sealing) = 1 /\ sealing \in Seq(OpsOf(Written))
  BY TheOne, OneIsSeq DEF DrainEnd, Queued
<1>5. sealing[1].id \in Nat
  BY <1>4 DEF OpsOf
<1>6. queue \o sealing \in Seq(OpsOf(Written)) /\ Len(queue \o sealing) = Len(queue) + 1
  BY <1>4, Extended DEF Queued
<1>7. Queued'
  <2>1. queue' \in Seq(OpsOf(Written')) /\ rows' \in SUBSET Nat /\ sealing' \in AtMostOne(OpsOf(Written'))
    BY <1>1, <1>5, <1>6 DEF DrainEnd, Queued, AtMostOne
  <2>2. Len(queue') = Len(queue) + 1 /\ Len(queue) \in Nat /\ deletion' = deletion /\ drain = "busy" /\ drain' = "no" /\ sealing' = <<>>
    BY <1>6, Members DEF DrainEnd, Queued
  <2> QED
    BY <2>1, <2>2 DEF Queued
<1>8. c2r' \in Seq(RequestsOf(Written'))
  <2>1. <<Message(sealing[1])>> \in Seq(RequestsOf(Written'))
    BY <1>1, <1>4, Messages, OneIsSeq
  <2> QED
    BY <2>1, <1>1, Sent, Carried DEF DrainEnd
<1>9. Waits' /\ Wires' /\ Kept'
  BY <1>1, <1>8, Carried DEF DrainEnd, relay, Wires
<1> QED
  BY <1>2, <1>3, <1>7, <1>9

-----------------------------------------------------------------------------
(* delete().                                                               *)

LEMMA DeleteAskedLife == LifeInv /\ DeleteAsked => LifeInv'
<1> SUFFICES ASSUME LifeInv, DeleteAsked PROVE LifeInv'
  OBVIOUS
<1> USE DEF LifeInv
<1>1. Written' = Written
  BY Unwritten DEF DeleteAsked
<1>2. Counts' /\ Modes' /\ Texts'
  BY <1>1 DEF DeleteAsked, Counts, Modes, Texts, socket, relay
<1>3. Waits' /\ Wires' /\ Kept'
  BY <1>1, Carried DEF DeleteAsked, socket, relay, Wires
<1>4. Queued'
  BY <1>1 DEF DeleteAsked, Queued
<1> QED
  BY <1>2, <1>3, <1>4

LEMMA DeleteStartLife == LifeInv /\ DeleteStart => LifeInv'
<1> SUFFICES ASSUME LifeInv, DeleteStart PROVE LifeInv'
  OBVIOUS
<1> USE DEF LifeInv
<1>1. Counts' /\ Modes'
  BY DEF DeleteStart, Counts, Modes, socket, relay, bounds
<1>2. Written \subseteq Written'
  BY <1>1, Grown DEF DeleteStart, ClearText, Counts, bounds
<1>3. Texts'
  BY <1>2, Carried DEF DeleteStart, ClearText, Texts
<1>4. Waits' /\ Wires' /\ Kept'
  BY <1>2, Carried DEF DeleteStart, socket, relay, Wires
<1>5. Queued'
  <2>1. /\ queue' = <<>> /\ deletion = "asked" /\ deletion' = "discarding" /\ UNCHANGED <<rows, sealing, drain>>
        /\ Len(queue) \in Nat
    BY Members DEF DeleteStart, Queued
  <2>2. queue' \in Seq(OpsOf(Written')) /\ Len(queue') = 0
    BY <2>1
  <2>3. sealing' \in AtMostOne(OpsOf(Written'))
    BY <1>2, <2>1, Carried
  <2> QED
    BY <2>1, <2>2, <2>3 DEF Queued
<1> QED
  BY <1>1, <1>3, <1>4, <1>5

LEMMA DeleteDiscardedLife == LifeInv /\ DeleteDiscarded => LifeInv'
<1> SUFFICES ASSUME LifeInv, DeleteDiscarded PROVE LifeInv'
  OBVIOUS
<1> USE DEF LifeInv
<1>1. Written' = Written
  BY Unwritten DEF DeleteDiscarded, bounds
<1>2. Counts' /\ Modes'
  BY DEF DeleteDiscarded, Counts, Modes, socket, relay, bounds
<1>3. Texts'
  BY <1>1, Captured, InItems DEF DeleteDiscarded, Texts, Snapshot
<1>4. Waits' /\ Wires' /\ Kept'
  BY <1>1, Carried DEF DeleteDiscarded, socket, relay, Wires
<1>5. rows' \in SUBSET Nat
  <2>1. \A o \in Range(queue) : o \in OpsOf(Written)
    BY Members DEF Queued
  <2>2. \A o \in Range(queue) : o.id \in Nat
    BY <2>1 DEF OpsOf
  <2> QED
    BY <2>2 DEF DeleteDiscarded
<1>6. Queued'
  BY <1>1, <1>5 DEF DeleteDiscarded, Queued
<1> QED
  BY <1>2, <1>3, <1>4, <1>6

LEMMA DeleteWrittenLife == LifeInv /\ DeleteWritten => LifeInv'
<1> SUFFICES ASSUME LifeInv, DeleteWritten PROVE LifeInv'
  OBVIOUS
<1> USE DEF LifeInv
<1>1. Written' = Written
  BY Unwritten DEF DeleteWritten
<1>2. Counts' /\ Modes'
  BY DEF DeleteWritten, Counts, Modes, relay
<1>3. Texts'
  BY <1>1 DEF DeleteWritten, Texts
<1> DEFINE o == [id |-> ops', kind |-> "delete", gen |-> deletionGen, adds |-> {}, kills |-> {}, holds |-> {},
                 boundary |-> Unknown, creates |-> FALSE]
<1>4. o \in OpsOf(Written) /\ o.id \in Nat
  <2>1. Unknown \in BasesOf
    BY DEF Unknown, BasesOf, AtMostOne
  <2> QED
    BY <2>1, <1>2 DEF OpsOf, Kinds, Counts
<1>5. queue' = Append(queue, o) /\ rows' = rows \cup {o.id}
  BY DEF DeleteWritten
<1> HIDE DEF o
<1>6. queue' \in Seq(OpsOf(Written)) /\ Len(queue') = Len(queue) + 1 /\ Len(queue) \in Nat /\ Head(queue') \in OpsOf(Written)
  BY <1>4, <1>5, Members DEF Queued
<1>7. Queued'
  <2>1. UNCHANGED <<sealing, drain>> /\ deletion = "writing" /\ deletion' = "no"
    BY DEF DeleteWritten
  <2>2. rows' \in SUBSET Nat /\ queue' \in Seq(OpsOf(Written')) /\ sealing' \in AtMostOne(OpsOf(Written'))
    BY <1>1, <1>4, <1>5, <1>6, <2>1 DEF Queued
  <2> QED
    BY <1>6, <2>1, <2>2 DEF Queued
<1>8. c2r' \in Seq(RequestsOf(Written'))
  <2>1. <<Message(Head(queue'))>> \in Seq(RequestsOf(Written'))
    BY <1>1, <1>6, Messages, OneIsSeq
  <2> QED
    BY <2>1, <1>1, Sent DEF DeleteWritten
<1>9. Waits' /\ Wires' /\ Kept'
  BY <1>1, <1>8, Carried DEF DeleteWritten, relay, Wires
<1> QED
  BY <1>2, <1>3, <1>7, <1>9

-----------------------------------------------------------------------------
(* Acknowledgements.                                                       *)

LEMMA AnswersHave ==
    ASSUME NEW W, NEW m \in AnswersOf(W)
    PROVE  /\ m.t = "ack" => m \in Acks
           /\ m.t = "update" => m.update \in UpdatesIn(W)
           /\ m.t = "page" => m.gen \in Nat /\ m.state \in States /\ m.updates \in Seq(UpdatesIn(W))
           /\ m.t = "stale" => m.gen \in Nat
<1>1. CASE m \in Acks
  BY <1>1 DEF Acks
<1>2. CASE m \in PagesOf(W)
  BY <1>2 DEF PagesOf
<1>3. CASE m \in TellsOf(W)
  BY <1>3 DEF TellsOf
<1>4. CASE m \in Stales
  BY <1>4 DEF Stales
<1> QED
  BY <1>1, <1>2, <1>3, <1>4 DEF AnswersOf

LEMMA CallsHave ==
    ASSUME NEW W, NEW k \in CallsOf(W)
    PROVE  /\ k.t = "ack" => k.ack \in Acks /\ k.op \in OpsOf(W)
           /\ k.t = "apply" => k \in AppliesOf(W)
           /\ k.t = "stale" => k.gen \in Nat
<1>1. CASE k \in AckCallsOf(W)
  BY <1>1 DEF AckCallsOf
<1>2. CASE k \in AppliesOf(W)
  BY <1>2 DEF AppliesOf
<1>3. CASE k \in PurgeCalls
  BY <1>3 DEF PurgeCalls
<1>4. CASE k \in StaleCalls
  BY <1>4 DEF StaleCalls
<1> QED
  BY <1>1, <1>2, <1>3, <1>4 DEF CallsOf

LEMMA OnAckLife == LifeInv /\ OnAck => LifeInv'
<1> SUFFICES ASSUME LifeInv, OnAck PROVE LifeInv'
  OBVIOUS
<1> USE DEF LifeInv
<1>1. Written' = Written
  BY Unwritten DEF OnAck, bounds
<1>2. Counts' /\ Modes'
  BY DEF OnAck, Counts, Modes, relay, bounds
<1>3. Texts'
  BY <1>1 DEF OnAck, Texts
<1>4. Head(r2c) \in Acks /\ r2c' \in Seq(AnswersOf(Written'))
  BY <1>1, Taken, AnswersHave DEF OnAck
<1>5. Waits'
  <2>1. CASE UNCHANGED calls
    BY <2>1, <1>1, Carried
  <2>2. CASE IsHead(Head(r2c).id) /\ NewCall([t |-> "ack", ack |-> Head(r2c), op |-> Head(queue)])
    <3>1. Head(queue) \in OpsOf(Written')
      BY <2>2, <1>1, Members DEF IsHead, Queued
    <3>2. [t |-> "ack", ack |-> Head(r2c), op |-> Head(queue)] \in CallsOf(Written')
      BY <3>1, <1>4 DEF CallsOf, AckCallsOf
    <3> QED
      BY <2>2, <3>2, <1>1, Called
  <2> QED
    BY <2>1, <2>2 DEF OnAck
<1>6. Queued' /\ Kept' /\ Wires'
  BY <1>1, <1>4, Carried DEF OnAck, relay, Wires
<1> QED
  BY <1>2, <1>3, <1>5, <1>6

LEMMA AckCommittedLife ==
    ASSUME LifeInv, NEW i \in DOMAIN calls, AckCommitted(i)
    PROVE  LifeInv'
<1> USE DEF LifeInv
<1>1. Written' = Written
  BY Unwritten DEF AckCommitted, bounds
<1> DEFINE m == calls[i].ack
           o == calls[i].op
<1>2. m \in Acks /\ o \in OpsOf(Written)
  BY Members, CallsHave DEF AckCommitted, Waits
<1>3. m.id \in Nat /\ m.gen \in Nat /\ m.seq \in Nat /\ o.holds \subseteq Written /\ o.boundary \in BasesOf
  BY <1>2 DEF Acks, OpsOf
<1>4. Waits'
  BY <1>1, Ended DEF AckCommitted
<1> DEFINE next == IF Len(queue) > 1 THEN <<Message(queue[2])>> ELSE <<>>
           gap  == IF o.kind # "delete" /\ m.seq > lastSeq + 1 THEN <<CatchUp(m.gen, lastSeq)>> ELSE <<>>
<1>5. /\ UNCHANGED <<sealing, text, dead, timer, recreating, deletion, deletionGen, open, r2c, relay, buried, revived,
                     bounds>>
      /\ \/ UNCHANGED <<gen, life, lastSeq, known, base, drain, queue, rows, created, c2r>>
         \/ /\ rows' = rows \ {o.id}
            /\ queue' = IF queue = <<>> THEN <<>> ELSE Tail(queue)
            /\ Send(gap \o <<Confirm(m.id)>> \o next)
            /\ gen' = m.gen
            /\ IF o.kind = "delete"
               THEN /\ life' = "deleted" /\ lastSeq' = 0 /\ known' = {}
                    /\ UNCHANGED <<base, drain, created>>
               ELSE /\ life' = "active" /\ created' = FALSE
                    /\ base' = o.boundary /\ known' = known \cup o.holds
                    /\ lastSeq' = IF m.seq = lastSeq + 1 THEN m.seq ELSE lastSeq
                    /\ drain' = IF next = <<>> THEN WantDrain(drain) ELSE drain
  BY DEF AckCommitted
<1>6. gap \o <<Confirm(m.id)>> \o next \in Seq(RequestsOf(Written'))
  <2>1. gap \in Seq(RequestsOf(Written'))
    <3>1. CatchUp(m.gen, lastSeq) \in RequestsOf(Written')
      BY <1>3, Asks DEF Counts
    <3> QED
      BY <3>1, OneIsSeq
  <2>2. <<Confirm(m.id)>> \in Seq(RequestsOf(Written'))
    BY <1>3, Asks, OneIsSeq
  <2>3. next \in Seq(RequestsOf(Written'))
    <3>1. CASE Len(queue) > 1
      <4>1. queue[2] \in OpsOf(Written')
        BY <3>1, <1>1, Members DEF Queued
      <4> QED
        BY <4>1, Messages, OneIsSeq
    <3>2. CASE ~(Len(queue) > 1)
      BY <3>2
    <3> QED
      BY <3>1, <3>2
  <2> QED
    BY <2>1, <2>2, <2>3, Extended
<1> HIDE DEF m, o, next, gap
<1>7. Counts'
  BY <1>3, <1>5 DEF Counts, relay, bounds
<1>8. Modes'
  BY <1>5 DEF Modes, WantDrain, relay
<1>9. Texts'
  BY <1>1, <1>3, <1>5 DEF Texts
<1>10. Queued'
  <2>1. CASE UNCHANGED <<queue, rows, drain>>
    BY <2>1, <1>1, <1>5, Carried
  <2>2. CASE rows' = rows \ {o.id} /\ queue' = IF queue = <<>> THEN <<>> ELSE Tail(queue)
    <3>1. queue' \in Seq(OpsOf(Written')) /\ Len(queue') <= Len(queue) /\ Len(queue) \in Nat /\ Len(queue') \in Nat
      BY <2>2, <1>1, Members DEF Queued
    <3>2. (drain' = "busy" <=> drain = "busy") /\ UNCHANGED <<sealing, deletion, deletionGen>>
      BY <1>5 DEF WantDrain
    <3>3. rows' \in SUBSET Nat /\ sealing' \in AtMostOne(OpsOf(Written')) /\ (drain' = "busy" <=> sealing' # <<>>)
      BY <2>2, <3>2, <1>1 DEF Queued
    <3>4. Len(queue) + (IF drain' = "busy" THEN 1 ELSE 0) + (IF deletion' \in {"no", "asked"} THEN 0 ELSE 1) <= 2
      BY <3>2 DEF Queued
    <3> DEFINE a == IF drain' = "busy" THEN 1 ELSE 0
               b == IF deletion' \in {"no", "asked"} THEN 0 ELSE 1
    <3>5. a \in {0, 1} /\ b \in {0, 1} /\ Len(queue) + a + b <= 2
      BY <3>4
    <3> HIDE DEF a, b
    <3>6. Len(queue') + a + b <= 2
      BY <3>1, <3>5
    <3>7. Len(queue') + (IF drain' = "busy" THEN 1 ELSE 0) + (IF deletion' \in {"no", "asked"} THEN 0 ELSE 1) <= 2
      BY <3>6 DEF a, b
    <3> QED
      BY <3>1, <3>3, <3>7 DEF Queued
  <2> QED
    BY <2>1, <2>2, <1>5
<1>11. Wires' /\ Kept'
  <2>1. c2r' \in Seq(RequestsOf(Written'))
    BY <1>1, <1>5, <1>6, Carried, Sent
  <2> QED
    BY <2>1, <1>1, <1>5, Carried DEF Wires, relay
<1> QED
  BY <1>4, <1>7, <1>8, <1>9, <1>10, <1>11

-----------------------------------------------------------------------------
(* Updates and pages.                                                      *)

LEMMA AppliesMake ==
    ASSUME NEW W, NEW k \in AppliesOf(W)
    PROVE  /\ [k EXCEPT !.opening = <<>>] \in CallsOf(W)
           /\ k.todo # <<>> =>
                 /\ Head(k.todo) \in UpdatesIn(W)
                 /\ [k EXCEPT !.todo = Tail(@)] \in CallsOf(W)
                 /\ [[k EXCEPT !.todo = Tail(@)] EXCEPT !.opening = <<Head(k.todo)>>] \in CallsOf(W)
<1>1. /\ k.todo \in Seq(UpdatesIn(W)) /\ k.opening \in AtMostOne(UpdatesIn(W)) /\ <<>> \in AtMostOne(UpdatesIn(W))
      /\ k \in [t: {"apply"}, live: BOOLEAN, todo: Seq(UpdatesIn(W)), opening: AtMostOne(UpdatesIn(W))]
  BY DEF AppliesOf, AtMostOne
<1>2. [k EXCEPT !.opening = <<>>] \in CallsOf(W)
  BY <1>1 DEF AppliesOf, CallsOf
<1>3. ASSUME k.todo # <<>>
      PROVE  /\ Head(k.todo) \in UpdatesIn(W)
             /\ [k EXCEPT !.todo = Tail(@)] \in CallsOf(W)
             /\ [[k EXCEPT !.todo = Tail(@)] EXCEPT !.opening = <<Head(k.todo)>>] \in CallsOf(W)
  <2>1. Head(k.todo) \in UpdatesIn(W) /\ Tail(k.todo) \in Seq(UpdatesIn(W))
    BY <1>1, <1>3, Members
  <2>2. <<Head(k.todo)>> \in AtMostOne(UpdatesIn(W))
    BY <2>1, OneIsSeq
  <2> QED
    BY <1>1, <2>1, <2>2 DEF AppliesOf, CallsOf
<1> QED
  BY <1>2, <1>3

LEMMA TakeHas ==
    ASSUME LifeInv, Written' = Written, NEW k \in AppliesOf(Written), k.todo # <<>>,
           NEW i \in {0} \cup DOMAIN calls, Take(k, i), UNCHANGED open
    PROVE  /\ gen' \in Nat /\ lastSeq' \in Nat /\ life' \in {life, "active"}
           /\ Waits' /\ c2r' \in Seq(RequestsOf(Written'))
<1> DEFINE e == Head(k.todo)
           g == IF k.live THEN e.gen ELSE gen
           rest == [k EXCEPT !.todo = Tail(@)]
           mark == IF g = gen THEN lastSeq ELSE 0
<1>1. e \in UpdatesIn(Written') /\ rest \in CallsOf(Written') /\ [rest EXCEPT !.opening = <<e>>] \in CallsOf(Written')
  BY AppliesMake
<1>2. e.gen \in Nat /\ gen \in Nat /\ lastSeq \in Nat
  BY <1>1 DEF UpdatesIn, LifeInv, Counts
<1>3. g \in Nat /\ mark \in Nat
  BY <1>2
<1>4. <<CatchUp(g, mark)>> \in Seq(RequestsOf(Written'))
  BY <1>3, Asks, OneIsSeq
<1>5. \/ /\ PutCall(i, rest)
         /\ UNCHANGED <<gen, life, lastSeq, c2r>>
      \/ /\ gen' = g
         /\ life' = IF g = gen THEN life ELSE "active"
         /\ lastSeq' = mark
         /\ \/ PutCall(i, rest) /\ UNCHANGED c2r
            \/ PutCall(i, rest) /\ Send(<<CatchUp(g, mark)>>)
            \/ PutCall(i, [rest EXCEPT !.opening = <<e>>]) /\ UNCHANGED c2r
  BY Zenon DEF Take
<1> HIDE DEF e, g, rest, mark
<1>6. Waits'
  BY <1>1, <1>5, Called
<1>7. c2r' \in Seq(RequestsOf(Written'))
  BY <1>4, <1>5, Sent, Carried
<1> QED
  BY <1>2, <1>3, <1>5, <1>6, <1>7

LEMMA OnUpdateLife == LifeInv /\ OnUpdate => LifeInv'
<1> SUFFICES ASSUME LifeInv, OnUpdate PROVE LifeInv'
  OBVIOUS
<1> USE DEF LifeInv
<1>1. Written' = Written
  BY Unwritten DEF OnUpdate, bounds
<1> DEFINE k == [t |-> "apply", live |-> TRUE, todo |-> <<Head(r2c).update>>, opening |-> <<>>]
<1>2. Head(r2c).update \in UpdatesIn(Written) /\ r2c' \in Seq(AnswersOf(Written'))
  BY <1>1, Taken, AnswersHave DEF OnUpdate
<1>3. k \in AppliesOf(Written) /\ k.todo # <<>>
  BY <1>2, OneIsSeq DEF AppliesOf, AtMostOne
<1>4. Take(k, 0)
  BY DEF OnUpdate
<1> HIDE DEF k
<1>5. /\ gen' \in Nat /\ lastSeq' \in Nat /\ life' \in {life, "active"}
      /\ Waits' /\ c2r' \in Seq(RequestsOf(Written'))
  BY <1>1, <1>3, <1>4, TakeHas DEF OnUpdate
<1>6. Counts' /\ Modes'
  BY <1>5 DEF OnUpdate, Counts, Modes, relay, bounds
<1>7. Texts'
  BY <1>1 DEF OnUpdate, Texts
<1>8. Queued' /\ Kept' /\ Wires'
  BY <1>1, <1>2, <1>5, Carried DEF OnUpdate, relay, Wires
<1> QED
  BY <1>5, <1>6, <1>7, <1>8

LEMMA TakeNextLife ==
    ASSUME LifeInv, NEW i \in DOMAIN calls, TakeNext(i)
    PROVE  LifeInv'
<1> USE DEF LifeInv
<1>1. Written' = Written
  BY Unwritten DEF TakeNext, bounds
<1>2. calls[i] \in AppliesOf(Written)
  BY Members, CallsHave DEF TakeNext, Waits
<1>3. /\ gen' \in Nat /\ lastSeq' \in Nat /\ life' \in {life, "active"}
      /\ Waits' /\ c2r' \in Seq(RequestsOf(Written'))
  BY <1>1, <1>2, TakeHas DEF TakeNext
<1>4. Counts' /\ Modes'
  BY <1>3 DEF TakeNext, Counts, Modes, relay, bounds
<1>5. Texts'
  BY <1>1 DEF TakeNext, Texts
<1>6. Queued' /\ Kept' /\ Wires'
  BY <1>1, <1>3, Carried DEF TakeNext, relay, Wires
<1> QED
  BY <1>3, <1>4, <1>5, <1>6

LEMMA OpenedLife ==
    ASSUME LifeInv, NEW i \in DOMAIN calls, Opened(i)
    PROVE  LifeInv'
<1> USE DEF LifeInv
<1> DEFINE e == calls[i].opening[1]
<1>1. calls[i] \in AppliesOf(Written) /\ calls[i].opening # <<>>
  BY Members, CallsHave DEF Opened, Waits
<1>2. e \in UpdatesIn(Written)
  BY <1>1, TheOne DEF AppliesOf
<1>3. e.seq \in Nat /\ e.adds \subseteq Written /\ e.kills \subseteq Written
  BY <1>2 DEF UpdatesIn
<1>4. /\ dead' = dead \cup e.kills /\ text' = (text \cup e.adds) \ dead' /\ known' = known \cup e.adds
      /\ base' = IF queue = <<>> /\ ~timer /\ drain = "no" THEN <<[text |-> text', dead |-> dead']>> ELSE base
      /\ lastSeq' = IF e.seq > lastSeq THEN e.seq ELSE lastSeq
      /\ UNCHANGED <<sealing, gen, life, timer, drain, queue, rows, created, recreating, deletion, deletionGen,
                     socket, relay, buried, revived, bounds>>
  BY DEF Opened
<1> HIDE DEF e
<1>5. Counts' /\ Modes'
  BY <1>3, <1>4 DEF Counts, Modes, socket, relay, bounds
<1>6. Written \subseteq Written'
  BY <1>4, <1>5, Grown DEF Counts, bounds
<1>7. Texts'
  <2>1. text' \subseteq Written' /\ dead' \subseteq Written' /\ known' \subseteq Written' /\ buried' \subseteq Written'
    BY <1>3, <1>4, <1>6 DEF Texts
  <2>2. base' \in BasesOf
    BY <1>4, <2>1, InItems, Captured DEF Texts
  <2> QED
    BY <1>4, <2>1, <2>2 DEF Texts
<1>8. Waits'
  <2>1. calls[i] \in AppliesOf(Written')
    <3>1. /\ UpdatesIn(Written) \subseteq UpdatesIn(Written') /\ Seq(UpdatesIn(Written)) \subseteq Seq(UpdatesIn(Written'))
          /\ AtMostOne(UpdatesIn(Written)) \subseteq AtMostOne(UpdatesIn(Written'))
      BY <1>6, WiderOf, WiderSeq
    <3> QED
      BY <1>1, <3>1 DEF AppliesOf
  <2> QED
    BY <2>1, <1>6, AppliesMake, Called DEF Opened
<1>9. Queued' /\ Kept' /\ Wires'
  BY <1>4, <1>6, Carried DEF relay, socket, Wires
<1> QED
  BY <1>5, <1>7, <1>8, <1>9

LEMMA EndApplyLife ==
    ASSUME LifeInv, NEW i \in DOMAIN calls, EndApply(i)
    PROVE  LifeInv'
<1> USE DEF LifeInv
<1>1. Written' = Written
  BY Unwritten DEF EndApply, bounds
<1>2. Counts' /\ Modes' /\ Texts'
  BY <1>1 DEF EndApply, Counts, Modes, Texts, socket, relay, bounds
<1>3. Waits'
  BY <1>1, Ended DEF EndApply
<1>4. Queued' /\ Kept' /\ Wires'
  BY <1>1, Carried DEF EndApply, relay, socket, Wires
<1> QED
  BY <1>2, <1>3, <1>4

LEMMA PurgedLife ==
    ASSUME LifeInv, NEW i \in DOMAIN calls, Purged(i)
    PROVE  LifeInv'
<1> USE DEF LifeInv
<1>1. Written' = Written
  BY Unwritten DEF Purged, bounds
<1>2. Counts' /\ Modes'
  BY DEF Purged, Counts, Modes, socket, relay, bounds
<1>3. Texts'
  BY <1>1, Captured, InItems DEF Purged, Texts, Snapshot
<1>4. Waits'
  BY <1>1, Ended DEF Purged
<1>5. Kept' /\ Wires'
  BY <1>1, Carried DEF Purged, relay, socket, Wires
<1>6. Queued'
  <2>1. queue' = <<>> /\ rows' = {} /\ UNCHANGED <<sealing, drain, deletion, deletionGen>> /\ Len(queue) \in Nat
    BY Members DEF Purged, Queued
  <2>2. queue' \in Seq(OpsOf(Written')) /\ Len(queue') = 0 /\ Len(queue') <= Len(queue)
    BY <2>1
  <2>3. sealing' \in AtMostOne(OpsOf(Written'))
    BY <1>1, <2>1, Carried
  <2> QED
    BY <2>1, <2>2, <2>3 DEF Queued
<1> QED
  BY <1>2, <1>3, <1>4, <1>5, <1>6

LEMMA OnPageLife == LifeInv /\ OnPage => LifeInv'
<1> SUFFICES ASSUME LifeInv, OnPage PROVE LifeInv'
  OBVIOUS
<1> USE DEF LifeInv
<1> DEFINE m == Head(r2c)
           apply == [t |-> "apply", live |-> FALSE, todo |-> m.updates, opening |-> <<>>]
<1>1. m \in AnswersOf(Written) /\ m.t = "page"
  BY Heard DEF OnPage
<1>2. m.gen \in Nat /\ m.state \in States /\ m.updates \in Seq(UpdatesIn(Written))
  BY <1>1, AnswersHave
<1>3. /\ UNCHANGED <<sealing, drain, queue, rows, created, deletion, deletionGen, open, c2r, relay, buried, revived,
                     bounds>>
      /\ \/ UNCHANGED <<text, dead, gen, life, lastSeq, known, base, timer, recreating, calls>>
         \/ /\ recreating' = FALSE
            /\ RecreateInto(m.gen, m.state)
            /\ UNCHANGED calls \/ NewCall(apply)
         \/ UNCHANGED <<recreating, text, dead, gen, life, known, base, timer, calls>> /\ lastSeq' = 0
         \/ UNCHANGED recreating /\ AdoptDeletion(m.gen)
         \/ /\ UNCHANGED <<recreating, timer>>
            /\ DiscardOlder \/ UNCHANGED <<text, dead, known, base, lastSeq>>
            /\ gen' = m.gen /\ life' = "active"
            /\ NewCall(apply)
  BY DEF OnPage
<1> HIDE DEF m, apply
<1>4. Counts'
  BY <1>2, <1>3 DEF Counts, RecreateInto, AdoptDeletion, DiscardOlder, relay, bounds
<1>5. Modes'
  BY <1>2, <1>3 DEF Modes, States, RecreateInto, AdoptDeletion, relay
<1>6. dead' \in {dead, dead \cup text} /\ UNCHANGED <<edits, peerEdits>>
  BY <1>3 DEF RecreateInto, AdoptDeletion, DiscardOlder, ClearText, bounds
<1>7. Written \subseteq Written'
  BY <1>4, <1>6, Grown DEF Counts
<1>8. /\ text \subseteq Written' /\ dead \subseteq Written' /\ known \subseteq Written' /\ buried \subseteq Written'
      /\ base \in BasesOf /\ text \cap dead = {}
  BY <1>7, Carried DEF Texts
<1>9. Texts'
  <2>1. CASE UNCHANGED <<text, dead, known, base>>
    BY <2>1, <1>3, <1>8 DEF Texts
  <2>2. CASE RecreateInto(m.gen, m.state)
    <3>1. dead' = dead \cup text /\ text' = {Again(i) : i \in text} /\ UNCHANGED <<known, base, buried>>
      BY <2>2, <1>3 DEF RecreateInto
    <3>2. \A i \in text : Again(i) \in Written' /\ Again(i) \notin dead \cup text
      BY <3>1, <1>6, AgainIsWritten
    <3> QED
      BY <3>1, <3>2, <1>8 DEF Texts
  <2>3. CASE AdoptDeletion(m.gen)
    BY <2>3, <1>3, <1>8 DEF Texts, AdoptDeletion, ClearText
  <2>4. CASE DiscardOlder
    <3>1. /\ text' = {} /\ dead' = dead \cup text /\ known' = {}
          /\ base' = <<[text |-> {}, dead |-> dead \cup text]>>
      BY <2>4 DEF DiscardOlder, ClearText
    <3>2. base' \in BasesOf
      BY <3>1, <1>8, InItems, Captured
    <3> QED
      BY <3>1, <3>2, <1>3, <1>8 DEF Texts
  <2> QED
    BY <2>1, <2>2, <2>3, <2>4, <1>3
<1>10. Waits'
  <2>1. apply \in CallsOf(Written')
    <3>1. m.updates \in Seq(UpdatesIn(Written'))
      BY <1>2, <1>7, WiderOf
    <3> QED
      BY <3>1 DEF apply, CallsOf, AppliesOf, AtMostOne
  <2>2. [t |-> "purge"] \in CallsOf(Written')
    BY DEF CallsOf, PurgeCalls
  <2>3. UNCHANGED calls \/ NewCall(apply) \/ NewCall([t |-> "purge"])
    BY <1>3 DEF AdoptDeletion
  <2> QED
    BY <2>1, <2>2, <2>3, <1>7, Called, Carried
<1>11. Queued' /\ Kept'
  BY <1>3, <1>7, Carried DEF relay
<1>12. Wires'
  <2>1. r2c' \in Seq(AnswersOf(Written'))
    BY <1>7, Taken DEF OnPage
  <2> QED
    BY <2>1, <1>3, <1>7, Carried DEF Wires
<1> QED
  BY <1>4, <1>5, <1>9, <1>10, <1>11, <1>12

-----------------------------------------------------------------------------
(* Refusals.                                                               *)

LEMMA OnStaleGenerationLife == LifeInv /\ OnStaleGeneration => LifeInv'
<1> SUFFICES ASSUME LifeInv, OnStaleGeneration PROVE LifeInv'
  OBVIOUS
<1> USE DEF LifeInv
<1> DEFINE g == Head(r2c).gen
           call == [t |-> "stale", gen |-> g, ids |-> {o.id : o \in Range(queue)}]
<1>1. g \in Nat
  BY Heard, AnswersHave DEF OnStaleGeneration
<1>2. /\ UNCHANGED <<sealing, rows, gen, life, timer, drain, deletion, deletionGen, open, c2r, relay, buried, revived,
                     bounds>>
      /\ queue' = <<>> /\ NewCall(call)
      /\ \/ /\ recreating' = TRUE /\ created' = TRUE /\ known' = {} /\ base' = Unknown
            /\ UNCHANGED <<text, dead, lastSeq>>
         \/ /\ UNCHANGED <<recreating, created>>
            /\ DiscardOlder \/ UNCHANGED <<text, dead, known, base, lastSeq>>
  BY DEF OnStaleGeneration
<1> HIDE DEF g, call
<1>3. Counts' /\ Modes'
  <2>1. Counts'
    BY <1>2 DEF Counts, DiscardOlder, relay, bounds
  <2>2. created' \in BOOLEAN /\ recreating' \in BOOLEAN
    BY <1>2 DEF Modes
  <2>3. Modes'
    BY <1>2, <2>2 DEF Modes, relay
  <2> QED
    BY <2>1, <2>3
<1>4. dead \subseteq dead' /\ UNCHANGED <<edits, peerEdits>>
  BY <1>2 DEF DiscardOlder, ClearText, bounds
<1>5. Written \subseteq Written'
  BY <1>3, <1>4, Grown DEF Counts
<1>6. /\ text \subseteq Written' /\ dead \subseteq Written' /\ known \subseteq Written' /\ buried \subseteq Written'
      /\ base \in BasesOf /\ text \cap dead = {}
  BY <1>5, Carried DEF Texts
<1>7. Texts'
  <2>1. CASE DiscardOlder
    <3>1. /\ text' = {} /\ dead' = dead \cup text /\ known' = {}
          /\ base' = <<[text |-> {}, dead |-> dead \cup text]>>
      BY <2>1 DEF DiscardOlder, ClearText
    <3>2. base' \in BasesOf
      BY <3>1, <1>6, InItems, Captured
    <3> QED
      BY <3>1, <3>2, <1>2, <1>6 DEF Texts
  <2>2. CASE UNCHANGED <<text, dead, known, base>>
    BY <2>2, <1>2, <1>6 DEF Texts
  <2>3. CASE UNCHANGED <<text, dead>> /\ known' = {} /\ base' = Unknown
    <3>1. base' \in BasesOf
      BY <2>3 DEF BasesOf, AtMostOne, Unknown
    <3> QED
      BY <2>3, <3>1, <1>2, <1>6 DEF Texts
  <2> QED
    BY <2>1, <2>2, <2>3, <1>2
<1>8. Waits'
  <2>1. \A o \in Range(queue) : o \in OpsOf(Written)
    BY Members DEF Queued
  <2>2. {o.id : o \in Range(queue)} \in SUBSET Nat
    BY <2>1 DEF OpsOf
  <2>3. call \in CallsOf(Written')
    BY <1>1, <2>2 DEF call, CallsOf, StaleCalls
  <2> QED
    BY <1>2, <1>5, <2>3, Called
<1>9. Queued'
  <2>1. Len(queue) \in Nat
    BY Members DEF Queued
  <2>2. queue' \in Seq(OpsOf(Written')) /\ Len(queue') = 0 /\ Len(queue') <= Len(queue)
    BY <1>2, <2>1
  <2>3. sealing' \in AtMostOne(OpsOf(Written'))
    BY <1>2, <1>5, Carried
  <2> QED
    BY <1>2, <2>1, <2>2, <2>3 DEF Queued
<1>10. Kept' /\ Wires'
  <2>1. r2c' \in Seq(AnswersOf(Written'))
    BY <1>5, Taken DEF OnStaleGeneration
  <2> QED
    BY <2>1, <1>2, <1>5, Carried DEF Wires, relay
<1> QED
  BY <1>3, <1>7, <1>8, <1>9, <1>10

LEMMA StaleDiscardedLife ==
    ASSUME LifeInv, NEW i \in DOMAIN calls, StaleDiscarded(i)
    PROVE  LifeInv'
<1> USE DEF LifeInv
<1>1. Written' = Written
  BY Unwritten DEF StaleDiscarded, bounds
<1>2. calls[i].gen \in Nat
  BY Members, CallsHave DEF StaleDiscarded, Waits
<1>3. Counts' /\ Modes'
  BY <1>2 DEF StaleDiscarded, MoveTo, Counts, Modes, relay, bounds
<1>4. Texts'
  BY <1>1 DEF StaleDiscarded, Texts
<1>5. Waits'
  BY <1>1, Ended DEF StaleDiscarded
<1>6. Queued'
  BY <1>1 DEF StaleDiscarded, Queued
<1>7. Kept' /\ Wires'
  <2>1. <<CatchUp(gen', 0)>> \in Seq(RequestsOf(Written'))
    BY <1>3, Asks, OneIsSeq DEF Counts
  <2>2. c2r' \in Seq(RequestsOf(Written'))
    BY <1>1, <2>1, Sent DEF StaleDiscarded
  <2> QED
    BY <1>1, <2>2, Carried DEF StaleDiscarded, relay, Wires
<1> QED
  BY <1>3, <1>4, <1>5, <1>6, <1>7

-----------------------------------------------------------------------------
(* The socket.                                                             *)

LEMMA ConnectLife == LifeInv /\ Connect => LifeInv'
<1> SUFFICES ASSUME LifeInv, Connect PROVE LifeInv'
  OBVIOUS
<1> USE DEF LifeInv
<1>1. Written' = Written
  BY Unwritten DEF Connect, bounds
<1>2. Counts' /\ Modes' /\ Texts'
  BY <1>1 DEF Connect, Counts, Modes, Texts, WantDrain, relay, bounds
<1>3. (drain' = "busy" <=> drain = "busy") /\ UNCHANGED <<queue, rows, sealing, deletion, deletionGen>>
  BY DEF Connect, WantDrain
<1>4. Queued'
  BY <1>1, <1>3 DEF Queued
<1>5. c2r' \in Seq(RequestsOf(Written'))
  <2>1. <<CatchUp(gen, lastSeq)>> \in Seq(RequestsOf(Written'))
    BY Asks, OneIsSeq DEF Counts
  <2>2. queue # <<>> => <<Message(Head(queue))>> \in Seq(RequestsOf(Written'))
    BY <1>1, Members, Messages, OneIsSeq DEF Queued
  <2>3. (IF queue = <<>> THEN <<>> ELSE <<Message(Head(queue))>>) \in Seq(RequestsOf(Written'))
    BY <2>2
  <2> QED
    BY <2>1, <2>3, Extended DEF Connect
<1>6. Waits' /\ Kept' /\ Wires'
  BY <1>1, <1>5, Carried DEF Connect, relay, Wires
<1> QED
  BY <1>2, <1>4, <1>6

LEMMA DropLife == LifeInv /\ Drop => LifeInv'
<1> SUFFICES ASSUME LifeInv, Drop PROVE LifeInv'
  OBVIOUS
<1> USE DEF LifeInv
<1>1. Written' = Written
  BY Unwritten DEF Drop, engine
<1>2. Counts' /\ Modes' /\ Texts' /\ Queued'
  BY <1>1 DEF Drop, Counts, Modes, Texts, Queued, engine, relay
<1>3. Waits' /\ Kept'
  BY <1>1, Carried DEF Drop, relay, engine
<1>4. Wires'
  BY DEF Drop, Wires
<1> QED
  BY <1>2, <1>3, <1>4

-----------------------------------------------------------------------------
(* The relay.                                                              *)

LEMMA RelayTextIsWritten == LifeInv => RelayText \subseteq Written
<1> SUFFICES ASSUME LifeInv PROVE RelayText \subseteq Written
  OBVIOUS
<1>1. \A u \in Range(rlog) : u \in StoredIn(Written)
  BY Members DEF LifeInv, Kept
<1>2. \A u \in Range(rlog) : u.adds \subseteq Written /\ u.kills \subseteq Written
  BY <1>1 DEF StoredIn
<1> QED
  BY <1>2 DEF RelayText, UpdatesOf

LEMMA TailTyped ==
    ASSUME LifeInv, NEW after \in Nat
    PROVE  Tail_(after) \in Seq(UpdatesIn(Written))
<1> DEFINE n == IF after < Len(rlog) THEN Len(rlog) - after ELSE 0
<1>1. Len(rlog) \in Nat /\ \A j \in 1..Len(rlog) : rlog[j] \in StoredIn(Written)
  BY Members DEF LifeInv, Kept
<1>2. n \in Nat
  BY <1>1
<1>3. \A j \in 1..n : after + j \in 1..Len(rlog) /\ after + j \in Nat
  BY <1>1
<1>4. \A j \in 1..n : At(rgen, after + j, rlog[after + j]) \in UpdatesIn(Written)
  BY <1>1, <1>3 DEF At, UpdatesIn, StoredIn, LifeInv, Counts
<1>5. Tail_(after) = [j \in 1..n |-> At(rgen, after + j, rlog[after + j])]
  BY DEF Tail_
<1> QED
  BY <1>2, <1>4, <1>5

LEMMA RequestsHave ==
    ASSUME NEW W, NEW m \in RequestsOf(W)
    PROVE  /\ m.t = "catchup" => m.after \in Nat
           /\ m.t \in Kinds => m.op \in OpsOf(W)
<1>1. CASE m \in SendsOf(W)
  BY <1>1 DEF SendsOf, Kinds
<1>2. CASE m \in CatchUps
  BY <1>2 DEF CatchUps, Kinds
<1>3. CASE m \in Confirms
  BY <1>3 DEF Confirms, Kinds
<1> QED
  BY <1>1, <1>2, <1>3 DEF RequestsOf

LEMMA StoresHas ==
    ASSUME LifeInv, Written' = Written, NEW o \in OpsOf(Written), NEW g \in Nat, NEW s \in States,
           NEW log \in Seq(StoredIn(Written)), Stores(o, g, s, log)
    PROVE  rgen' \in Nat /\ rstate' \in States /\ Kept' /\ r2c' \in Seq(AnswersOf(Written'))
<1> DEFINE ack == [t |-> "ack", id |-> o.id, gen |-> g, seq |-> Len(log)]
<1>1. ack \in Acks
  <2>1. o.id \in Nat /\ Len(log) \in Nat
    BY Members DEF OpsOf
  <2> QED
    BY <2>1 DEF Acks
<1>2. rgen' = g /\ rstate' = s /\ rlog' = log /\ receipts' = receipts \cup {ack} /\ Answer(<<ack>>)
  BY DEF Stores
<1> HIDE DEF ack
<1>3. ack \in AnswersOf(Written')
  BY <1>1 DEF AnswersOf
<1> QED
  BY <1>1, <1>2, <1>3, Answered DEF Kept, LifeInv

LEMMA RelayTakesLife == LifeInv /\ RelayTakes => LifeInv'
<1> SUFFICES ASSUME LifeInv, RelayTakes PROVE LifeInv'
  OBVIOUS
<1> USE DEF LifeInv
<1>1. Written' = Written
  BY Unwritten DEF RelayTakes, engine, bounds
<1> DEFINE m == Head(c2r)
<1>2. m \in RequestsOf(Written) /\ c2r' \in Seq(RequestsOf(Written'))
  BY <1>1, Members DEF RelayTakes, Wires
<1>3. UNCHANGED <<engine, open, revived, bounds>>
  BY DEF RelayTakes
<1>4. /\ rgen' \in Nat /\ rstate' \in States /\ Kept' /\ r2c' \in Seq(AnswersOf(Written'))
      /\ buried' \subseteq buried \cup RelayText
  <2>1. rgen \in Nat /\ rgen + 1 \in Nat /\ rstate \in States /\ {"active", "deleted"} \subseteq States
    BY DEF Counts, Modes, States
  <2>2. [t |-> "stale", gen |-> rgen] \in AnswersOf(Written')
    BY <2>1 DEF AnswersOf, Stales
  <2>3. CASE m.t = "confirm"
    <3>1. receipts' = receipts \ Receipt(m.id) /\ UNCHANGED <<r2c, rgen, rstate, rlog, buried>>
      BY <2>3 DEF RelayTakes, TakeConfirm, TakeCatchup, TakeAppend, TakeLifecycle, Repeat, Refuse
    <3> QED
      BY <3>1, <2>1, <1>1, Carried DEF Kept
  <2>4. CASE m.t = "catchup"
    <3>1. Tail_(m.after) \in Seq(UpdatesIn(Written'))
      BY <2>4, <1>1, <1>2, RequestsHave, TailTyped
    <3>2. ToPage(rgen, rstate, Tail_(m.after)) \in AnswersOf(Written')
      BY <2>1, <3>1 DEF ToPage, AnswersOf, PagesOf
    <3>3. UNCHANGED <<relay, buried>>
      BY <2>4 DEF RelayTakes, TakeConfirm, TakeCatchup, TakeAppend, TakeLifecycle, Repeat, Refuse
    <3>4. Answer(<<ToPage(rgen, rstate, Tail_(m.after))>>) \/ Answer(<<[t |-> "stale", gen |-> rgen]>>)
      BY <2>4 DEF RelayTakes, TakeConfirm, TakeCatchup, TakeAppend, TakeLifecycle, Repeat, Refuse
    <3> QED
      BY <2>1, <2>2, <3>2, <3>3, <3>4, <1>1, Answered, Carried DEF relay
  <2>5. CASE m.t \in Kinds /\ (Receipt(m.op.id) # {} \/ ~Accepts(m.op))
    <3>1. /\ Answer(<<[t |-> "stale", gen |-> rgen]>>) \/ \E r \in Receipt(m.op.id) : Answer(<<r>>)
          /\ UNCHANGED <<relay, buried>>
      BY <2>5, Zenon DEF RelayTakes, TakeConfirm, TakeCatchup, TakeAppend, TakeLifecycle, Repeat, Refuse, Kinds
    <3>2. \A r \in Receipt(m.op.id) : r \in AnswersOf(Written')
      BY DEF Receipt, Kept, AnswersOf
    <3> QED
      BY <2>1, <2>2, <3>1, <3>2, <1>1, Answered, Carried DEF relay
  <2>6. CASE m.t \in Kinds /\ Receipt(m.op.id) = {} /\ Accepts(m.op)
    <3>1. m.op \in OpsOf(Written)
      BY <2>6, <1>2, RequestsHave
    <3> DEFINE u == [adds |-> m.op.adds, kills |-> m.op.kills]
    <3>2. u \in StoredIn(Written)
      BY <3>1 DEF OpsOf, StoredIn
    <3>3. Append(rlog, u) \in Seq(StoredIn(Written)) /\ <<>> \in Seq(StoredIn(Written)) /\ <<u>> \in Seq(StoredIn(Written))
      BY <3>2, OneIsSeq DEF Kept
    <3>4. /\ \/ Stores(m.op, rgen, rstate, Append(rlog, u))
             \/ Stores(m.op, rgen + 1, "deleted", <<>>)
             \/ Stores(m.op, rgen + 1, "active", <<u>>)
          /\ buried' \subseteq buried \cup RelayText
      BY <2>6, Zenon DEF RelayTakes, TakeConfirm, TakeCatchup, TakeAppend, TakeLifecycle, Repeat, Refuse, Kinds
    <3> HIDE DEF u
    <3>5. CASE Stores(m.op, rgen, rstate, Append(rlog, u))
      BY <3>1, <3>3, <3>4, <3>5, <2>1, <1>1, StoresHas
    <3>6. CASE Stores(m.op, rgen + 1, "deleted", <<>>)
      BY <3>1, <3>3, <3>4, <3>6, <2>1, <1>1, StoresHas
    <3>7. CASE Stores(m.op, rgen + 1, "active", <<u>>)
      BY <3>1, <3>3, <3>4, <3>7, <2>1, <1>1, StoresHas
    <3> QED
      BY <3>4, <3>5, <3>6, <3>7
  <2> QED
    BY <2>3, <2>4, <2>5, <2>6 DEF RelayTakes, TakeConfirm, TakeCatchup, TakeAppend, TakeLifecycle, Repeat, Refuse, Kinds
<1>5. Counts' /\ Modes'
  BY <1>3, <1>4 DEF Counts, Modes, engine, bounds
<1>6. Texts'
  BY <1>1, <1>3, <1>4, RelayTextIsWritten DEF Texts, engine
<1>7. Queued' /\ Waits' /\ Wires'
  BY <1>1, <1>2, <1>3, <1>4, Carried DEF engine, Wires
<1> QED
  BY <1>4, <1>5, <1>6, <1>7

-----------------------------------------------------------------------------
(* The other devices.                                                      *)

LEMMA PeerItemTyped ==
    ASSUME Counts', NEW n, n = peerEdits', n > 0
    PROVE  PeerItem(n) \in StoredIn(Written')
<1>1. n \in 1..(MaxEdits + MaxPeerEdits)
  BY Bounds DEF Counts
<1> DEFINE i == <<"peer", n, 0>>
<1>2. i \in Items /\ i[1] = "peer" /\ i[2] = n /\ i[3] = 0
  BY <1>1 DEF Items
<1>3. i \in Written'
  BY <1>1, <1>2 DEF Written, WrittenBy
<1> QED
  BY <1>3 DEF PeerItem, StoredIn

LEMMA ToldTyped ==
    ASSUME NEW W, NEW u \in StoredIn(W), NEW g \in Nat, NEW n \in Nat
    PROVE  ToUpdate(g, n, u) \in AnswersOf(W)
BY DEF ToUpdate, At, StoredIn, UpdatesIn, TellsOf, AnswersOf

LEMMA PeerEditsLife == LifeInv /\ PeerEdits => LifeInv'
<1> SUFFICES ASSUME LifeInv, PeerEdits PROVE LifeInv'
  OBVIOUS
<1> USE DEF LifeInv
<1>1. Counts' /\ Modes' /\ peerEdits' > 0
  BY Bounds DEF PeerEdits, Counts, Modes, engine
<1>2. Written \subseteq Written'
  BY <1>1, Grown DEF PeerEdits, engine, Counts
<1>3. PeerItem(peerEdits') \in StoredIn(Written')
  BY <1>1, PeerItemTyped
<1>4. rlog' \in Seq(StoredIn(Written')) /\ Len(rlog') \in Nat
  <2>1. rlog \in Seq(StoredIn(Written'))
    BY <1>2, WiderOf DEF Kept
  <2> QED
    BY <1>3, <2>1, Members DEF PeerEdits
<1>5. Kept' /\ r2c' \in Seq(AnswersOf(Written'))
  <2>1. ToUpdate(rgen, Len(rlog'), PeerItem(peerEdits')) \in AnswersOf(Written')
    BY <1>3, <1>4, ToldTyped DEF Counts
  <2> QED
    BY <1>2, <1>4, <2>1, Answered DEF PeerEdits, Kept
<1>6. Texts'
  BY <1>2, Carried DEF PeerEdits, engine, Texts
<1>7. Queued' /\ Waits' /\ Wires'
  BY <1>2, <1>5, Carried DEF PeerEdits, engine, Wires
<1> QED
  BY <1>1, <1>5, <1>6, <1>7

LEMMA PeerDeletesLife == LifeInv /\ PeerDeletes => LifeInv'
<1> SUFFICES ASSUME LifeInv, PeerDeletes PROVE LifeInv'
  OBVIOUS
<1> USE DEF LifeInv
<1>1. Written' = Written
  BY Unwritten DEF PeerDeletes, engine, bounds
<1>2. Counts' /\ Modes'
  BY DEF PeerDeletes, Counts, Modes, States, engine, bounds
<1>3. Kept' /\ r2c' \in Seq(AnswersOf(Written'))
  <2>1. ToPage(rgen', "deleted", <<>>) \in AnswersOf(Written')
    BY <1>2 DEF ToPage, AnswersOf, PagesOf, States, Counts
  <2>2. Tell(ToPage(rgen', "deleted", <<>>)) /\ rlog' = <<>> /\ receipts' = receipts
    BY DEF PeerDeletes
  <2>3. r2c' \in Seq(AnswersOf(Written'))
    BY <1>1, <2>1, <2>2, Answered
  <2> QED
    BY <2>2, <2>3 DEF Kept
<1>4. Texts'
  BY <1>1, RelayTextIsWritten DEF PeerDeletes, Texts, engine
<1>5. Queued' /\ Waits' /\ Wires'
  BY <1>1, <1>3, Carried DEF PeerDeletes, engine, Wires
<1> QED
  BY <1>2, <1>3, <1>4, <1>5

LEMMA PeerResurrectsLife == LifeInv /\ PeerResurrects => LifeInv'
<1> SUFFICES ASSUME LifeInv, PeerResurrects PROVE LifeInv'
  OBVIOUS
<1> USE DEF LifeInv
<1>1. Counts' /\ Modes' /\ peerEdits' > 0
  BY Bounds DEF PeerResurrects, Counts, Modes, States, engine
<1>2. Written \subseteq Written'
  BY <1>1, Grown DEF PeerResurrects, engine, Counts
<1>3. PeerItem(peerEdits') \in StoredIn(Written')
  BY <1>1, PeerItemTyped
<1>4. Kept' /\ r2c' \in Seq(AnswersOf(Written'))
  <2>1. ToUpdate(rgen', 1, PeerItem(peerEdits')) \in AnswersOf(Written')
    BY <1>1, <1>3, ToldTyped DEF Counts
  <2> QED
    BY <1>2, <1>3, <2>1, Answered, OneIsSeq DEF PeerResurrects, Kept
<1>5. Texts'
  BY <1>2, Carried DEF PeerResurrects, engine, Texts
<1>6. Queued' /\ Waits' /\ Wires'
  BY <1>2, <1>4, Carried DEF PeerResurrects, engine, Wires
<1> QED
  BY <1>1, <1>4, <1>5, <1>6

-----------------------------------------------------------------------------
(* The theorems.                                                           *)

LEMMA StepLife == LifeInv /\ [Next]_vars => LifeInv'
<1> SUFFICES ASSUME LifeInv, [Next]_vars PROVE LifeInv'
  OBVIOUS
<1>1. CASE Device
  <2>1. CASE Calls
    BY <2>1, AckCommittedLife, TakeNextLife, OpenedLife, EndApplyLife, PurgedLife, StaleDiscardedLife DEF Calls
  <2> QED
    BY <1>1, <2>1, FireTimerLife, DrainStartLife, DrainEndLife, DeleteStartLife, DeleteDiscardedLife, DeleteWrittenLife, OnAckLife,
       OnUpdateLife, OnPageLife, OnStaleGenerationLife DEF Device
<1>2. CASE UNCHANGED vars
  <2>1. Written' = Written
    BY <1>2, Unwritten DEF vars, engine, bounds
  <2>2. Counts' /\ Modes' /\ Texts'
    BY <1>2, <2>1 DEF LifeInv, Counts, Modes, Texts, vars, engine, socket, relay, bounds
  <2>3. Queued' /\ Waits' /\ Wires' /\ Kept'
    BY <1>2, <2>1, Carried DEF LifeInv, Wires, vars, engine, socket, relay
  <2> QED
    BY <2>2, <2>3 DEF LifeInv
<1> QED
  BY <1>1, <1>2, ConnectLife, RelayTakesLife, EditLife, DeleteAskedLife, DropLife, PeerEditsLife, PeerDeletesLife,
     PeerResurrectsLife DEF Next

\* What the document, its queue and what is on its way are made of, whichever waits overlap: an
\* item written again is a new one, since what it was is deleted here.
THEOREM LifecycleInvariant == Spec => []LifeInv
<1>1. Init => LifeInv
  BY InitLife
<1>2. LifeInv /\ [Next]_vars => LifeInv'
  BY StepLife
<1> QED
  BY <1>1, <1>2, PTL DEF Spec

\* The document never shows an item it has deleted, and at most one operation waits behind the one
\* on its way, whichever waits overlap.
THEOREM LifecycleTypeCorrect == Spec => []TypeOK
<1>1. LifeInv => TypeOK
  <2> SUFFICES ASSUME LifeInv PROVE TypeOK
    OBVIOUS
  <2>1. \A items \in {text, dead, known, buried} : items \subseteq Items
    BY InItems DEF LifeInv, Texts
  <2>2. Len(queue) <= 2
    <3>1. Len(queue) \in Nat
      BY Members DEF LifeInv, Queued
    <3> DEFINE a == IF drain = "busy" THEN 1 ELSE 0
               b == IF deletion \in {"no", "asked"} THEN 0 ELSE 1
    <3>2. a \in {0, 1} /\ b \in {0, 1} /\ Len(queue) + a + b <= 2
      BY DEF LifeInv, Queued
    <3> HIDE DEF a, b
    <3> QED
      BY <3>1, <3>2
  <2> QED
    BY <2>1, <2>2 DEF TypeOK, LifeInv, Counts, Modes, States, Texts
<1> QED
  BY <1>1, LifecycleInvariant, PTL

=============================================================================
