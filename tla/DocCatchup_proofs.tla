-------------------------- MODULE DocCatchup_proofs --------------------------
(***************************************************************************)
(* Theorems about DocCatchup, for any bounds.                              *)
(***************************************************************************)
EXTENDS DocCatchup, TLAPS, FiniteSetTheorems, SequenceTheorems

-----------------------------------------------------------------------------
(* What may be in flight: it names only updates the log has.               *)

Stored    == 1..Len(log)
UpTo      == 0..Len(log)
Delivered == {n \in 1..MaxOwn : ownAt[n] # 0}

AtMostOne(S) == {<<>>} \cup {<<x>> : x \in S}

EnvelopesNow == {e \in Envelope : e.seq \in Stored}
CallsNow == [t: {"update", "page"}, opening: AtMostOne(EnvelopesNow), todo: Seq(EnvelopesNow), applied: BOOLEAN,
             more: BOOLEAN, conn: 0..MaxDrops]
AcksNow  == [t: {"ack"}, n: Delivered, seq: Stored, mark: UpTo]
TasksNow == CallsNow \cup AcksNow

\* What uploadSnapshot captured.
CapturesNow == [through: Stored, holds: SUBSET Seqs]
AsksNow     == [fly: None..Len(log), again: None..Len(log), wait: None..Len(log)]

AppendsNow  == [t: {"append"}, n: (Delivered \cup {op}) \ {0}, epoch: Epochs]
CatchupsNow == [t: {"catchup"}, after: UpTo]
UploadsNow  == [t: {"snapshot"}, through: Stored, holds: SUBSET Seqs, epoch: Epochs]
RequestsNow == AppendsNow \cup CatchupsNow \cup UploadsNow

PagesNow   == [t: {"page"}, more: BOOLEAN, last: UpTo, rows: Seq(EnvelopesNow), snap: AtMostOne(EnvelopesNow)]
UpdatesNow == [t: {"update"}, seq: Stored]
ReceiptsNow == [t: {"ack"}, n: Delivered, seq: Stored]
StalesNow  == [t: {"stale_epoch"}, n: 1..MaxOwn]
AnswersNow == PagesNow \cup UpdatesNow \cup ReceiptsNow \cup StalesNow

-----------------------------------------------------------------------------
(* The inductive invariant of the types.                                   *)

LogTypes ==
    /\ log \in Seq(Epochs) /\ Len(log) <= MaxLog
    /\ ownAt \in [1..MaxOwn -> UpTo]
\* The log has room for the operation on its way.
OwnTypes ==
    /\ op \in 0..MaxOwn /\ sealed \in Epochs /\ refused \in BOOLEAN
    /\ refused => op # 0
    /\ op # 0 /\ ownAt[op] = 0 => Len(log) < MaxLog
DocTypes ==
    /\ lastSeq \in UpTo /\ told \in UpTo /\ held \in SUBSET Seqs
    /\ row \in [seq: UpTo, holds: SUBSET Seqs]
HealthTypes ==
    /\ health \in {"healthy", "sequence-gap", "key-unavailable"}
    /\ missing \in 0..MaxEpoch
FutureTypes == future \in SUBSET Stored /\ Cardinality(future) <= FutureLimit
TaskTypes   == tasks \in Seq(TasksNow)
AskTypes    == asks \in AsksNow
SocketTypes ==
    /\ open \in BOOLEAN /\ drops \in 0..MaxDrops
    /\ c2r \in Seq(RequestsNow) /\ r2c \in Seq(AnswersNow)
CaptureTypes == {captured, pending} \subseteq AtMostOne(CapturesNow)
SnapTypes ==
    /\ snap \in [through: UpTo, epoch: Epochs, holds: SUBSET Seqs, verified: BOOLEAN]
    /\ floor \in 0..snap.through
EpochTypes == {keyEpoch, graphEpoch} \subseteq Epochs

TypeInv ==
    /\ LogTypes /\ OwnTypes /\ DocTypes /\ HealthTypes /\ FutureTypes /\ TaskTypes
    /\ AskTypes /\ SocketTypes /\ CaptureTypes /\ SnapTypes /\ EpochTypes

-----------------------------------------------------------------------------
(* Sequences.                                                              *)

LEMMA WiderSeq ==
    ASSUME NEW S, NEW T, S \subseteq T
    PROVE  Seq(S) \subseteq Seq(T)
<1> SUFFICES ASSUME NEW s \in Seq(S) PROVE s \in Seq(T)
  OBVIOUS
<1> QED
  BY LenProperties

LEMMA OneIsSeq ==
    ASSUME NEW S
    PROVE  AtMostOne(S) \subseteq Seq(S) /\ \A x \in S : <<x>> \in AtMostOne(S) /\ <<x>>[1] = x
<1>1. \A x \in S : <<x>> \in Seq(S)
  OBVIOUS
<1>2. <<>> \in Seq(S)
  OBVIOUS
<1>3. \A x \in S : <<x>> \in AtMostOne(S)
  BY DEF AtMostOne
<1>4. \A x \in S : <<x>>[1] = x
  OBVIOUS
<1> QED
  BY <1>1, <1>2, <1>3, <1>4, Zenon DEF AtMostOne

LEMMA Removed ==
    ASSUME NEW S, NEW s \in Seq(S), NEW i \in 1..Len(s)
    PROVE  /\ RemoveAt(s, i) \in Seq(S) /\ Len(RemoveAt(s, i)) = Len(s) - 1
           /\ \A j \in 1..(Len(s) - 1) : RemoveAt(s, i)[j] = IF j < i THEN s[j] ELSE s[j + 1]
<1>1. Len(s) \in Nat /\ \A j \in 1..Len(s) : s[j] \in S
  BY LenProperties
<1> DEFINE a == SubSeq(s, 1, i - 1)
           b == SubSeq(s, i + 1, Len(s))
<1>2. /\ a \in Seq(S) /\ Len(a) = i - 1
      /\ \A j \in 1..(i - 1) : a[j] = s[j]
  <2>1. \A j \in 1..(i - 1) : s[j] \in S
    BY <1>1
  <2>2. /\ a \in Seq(S) /\ Len(a) = IF 1 <= i - 1 THEN i - 1 - 1 + 1 ELSE 0
        /\ \A j \in 1..(i - 1 - 1 + 1) : a[j] = s[1 + j - 1]
    BY <2>1, <1>1, SubSeqProperties
  <2> QED
    BY <2>2, <1>1
<1>3. /\ b \in Seq(S) /\ Len(b) = Len(s) - i
      /\ \A j \in 1..(Len(s) - i) : b[j] = s[i + j]
  <2>1. i + 1 \in Int /\ Len(s) \in Int /\ \A j \in (i + 1)..Len(s) : s[j] \in S
    BY <1>1
  <2>2. /\ b \in Seq(S) /\ Len(b) = IF i + 1 <= Len(s) THEN Len(s) - (i + 1) + 1 ELSE 0
        /\ \A j \in 1..(Len(s) - (i + 1) + 1) : b[j] = s[(i + 1) + j - 1]
    BY <2>1, <1>1, SubSeqProperties
  <2> QED
    BY <2>2, <1>1
<1> HIDE DEF a, b
<1>4. /\ a \o b \in Seq(S) /\ Len(a \o b) = Len(a) + Len(b)
      /\ \A j \in 1..(Len(a) + Len(b)) : (a \o b)[j] = IF j <= Len(a) THEN a[j] ELSE b[j - Len(a)]
  BY <1>2, <1>3, ConcatProperties
<1>5. RemoveAt(s, i) = a \o b
  BY DEF RemoveAt, a, b
<1>6. Len(s) - 1 = Len(a) + Len(b)
  BY <1>1, <1>2, <1>3
<1>7. ASSUME NEW j \in 1..(Len(s) - 1)
      PROVE  (a \o b)[j] = IF j < i THEN s[j] ELSE s[j + 1]
  <2>1. CASE j < i
    BY <2>1, <1>1, <1>2, <1>4, <1>6
  <2>2. CASE ~(j < i)
    <3>1. j - (i - 1) \in 1..(Len(s) - i) /\ i + (j - (i - 1)) = j + 1 /\ ~(j <= Len(a)) /\ j - Len(a) = j - (i - 1)
      BY <2>2, <1>1, <1>2
    <3>2. (a \o b)[j] = b[j - Len(a)]
      BY <3>1, <1>4, <1>6
    <3>3. b[j - (i - 1)] = s[i + (j - (i - 1))]
      BY <3>1, <1>3
    <3> QED
      BY <3>1, <3>2, <3>3, <2>2
  <2> QED
    BY <2>1, <2>2
<1> QED
  BY <1>4, <1>5, <1>6, <1>7

-----------------------------------------------------------------------------
(* What is in flight stays what it was while the log grows.                *)

LEMMA Limits ==
    /\ MaxLog \in Nat /\ MaxOwn \in Nat /\ MaxEpoch \in Nat /\ MaxDrops \in Nat
    /\ FutureLimit \in Nat /\ PageRows \in Nat /\ PageRows # 0 /\ 1 \in Epochs
BY CatchupAssumption DEF Epochs

LEMMA Lengths ==
    ASSUME LogTypes
    PROVE  /\ Len(log) \in 0..MaxLog /\ Stored \subseteq Seqs /\ UpTo \subseteq 0..MaxLog
           /\ Stored \subseteq UpTo /\ 0 \in UpTo /\ None \in None..Len(log) /\ UpTo \subseteq None..Len(log)
           /\ \A s \in Stored : s - 1 \in UpTo /\ log[s] \in Epochs
<1>1. Len(log) \in Nat /\ \A s \in 1..Len(log) : log[s] \in Epochs
  BY LenProperties DEF LogTypes
<1>2. MaxLog \in Nat /\ Len(log) <= MaxLog
  BY Limits DEF LogTypes
<1>3. /\ Len(log) \in 0..MaxLog /\ Stored \subseteq Seqs /\ UpTo \subseteq 0..MaxLog
      /\ Stored \subseteq UpTo /\ 0 \in UpTo /\ None \in None..Len(log) /\ UpTo \subseteq None..Len(log)
  BY <1>1, <1>2 DEF Stored, UpTo, Seqs, None
<1>4. \A s \in Stored : s - 1 \in UpTo /\ log[s] \in Epochs
  BY <1>1 DEF Stored, UpTo
<1> QED
  BY <1>3, <1>4

LEMMA WiderNow ==
    ASSUME Stored \subseteq Stored', UpTo \subseteq UpTo', Delivered \subseteq Delivered'
    PROVE  /\ EnvelopesNow \subseteq EnvelopesNow' /\ CapturesNow \subseteq CapturesNow'
           /\ CallsNow \subseteq CallsNow' /\ AcksNow \subseteq AcksNow' /\ Seq(TasksNow) \subseteq Seq(TasksNow')
           /\ AtMostOne(CapturesNow) \subseteq AtMostOne(CapturesNow')
           /\ Seq(AnswersNow) \subseteq Seq(AnswersNow')
           /\ (Delivered \cup {op}) \ {0} \subseteq (Delivered' \cup {op'}) \ {0}
              => Seq(RequestsNow) \subseteq Seq(RequestsNow')
<1>1. EnvelopesNow \subseteq EnvelopesNow' /\ CapturesNow \subseteq CapturesNow'
  BY DEF EnvelopesNow, CapturesNow, Envelope, Seqs, Epochs
<1>2. AtMostOne(CapturesNow) \subseteq AtMostOne(CapturesNow') /\ AtMostOne(EnvelopesNow) \subseteq AtMostOne(EnvelopesNow')
  BY <1>1 DEF AtMostOne
<1>3. Seq(EnvelopesNow) \subseteq Seq(EnvelopesNow')
  BY <1>1, WiderSeq
<1>4. CallsNow \subseteq CallsNow'
  BY <1>2, <1>3 DEF CallsNow
<1>5. AcksNow \subseteq AcksNow'
  BY DEF AcksNow
<1>6. Seq(TasksNow) \subseteq Seq(TasksNow')
  <2>1. TasksNow \subseteq TasksNow'
    BY <1>4, <1>5 DEF TasksNow
  <2> QED
    BY <2>1, WiderSeq
<1>7. Seq(AnswersNow) \subseteq Seq(AnswersNow')
  <2>1. PagesNow \subseteq PagesNow'
    BY <1>2, <1>3 DEF PagesNow
  <2>2. UpdatesNow \subseteq UpdatesNow' /\ ReceiptsNow \subseteq ReceiptsNow' /\ StalesNow \subseteq StalesNow'
    BY DEF UpdatesNow, ReceiptsNow, StalesNow
  <2>3. AnswersNow \subseteq AnswersNow'
    BY <2>1, <2>2 DEF AnswersNow
  <2> QED
    BY <2>3, WiderSeq
<1>8. ASSUME (Delivered \cup {op}) \ {0} \subseteq (Delivered' \cup {op'}) \ {0}
      PROVE  Seq(RequestsNow) \subseteq Seq(RequestsNow')
  <2>1. AppendsNow \subseteq AppendsNow'
    BY <1>8 DEF AppendsNow, Epochs
  <2>2. CatchupsNow \subseteq CatchupsNow' /\ UploadsNow \subseteq UploadsNow'
    BY DEF CatchupsNow, UploadsNow, Seqs, Epochs
  <2>3. RequestsNow \subseteq RequestsNow'
    BY <2>1, <2>2 DEF RequestsNow
  <2> QED
    BY <2>3, WiderSeq
<1> QED
  BY <1>1, <1>2, <1>4, <1>5, <1>6, <1>7, <1>8

LEMMA SameNow ==
    ASSUME UNCHANGED <<log, ownAt>>
    PROVE  /\ UpTo' = UpTo /\ Stored' = Stored /\ Delivered' = Delivered /\ EnvelopesNow' = EnvelopesNow
           /\ CallsNow' = CallsNow /\ AcksNow' = AcksNow /\ TasksNow' = TasksNow /\ CapturesNow' = CapturesNow
           /\ AsksNow' = AsksNow /\ AnswersNow' = AnswersNow
           /\ CatchupsNow' = CatchupsNow /\ UploadsNow' = UploadsNow
           /\ op' = op => RequestsNow' = RequestsNow
<1>1. UpTo' = UpTo /\ Stored' = Stored /\ Delivered' = Delivered
  BY DEF UpTo, Stored, Delivered
<1>2. EnvelopesNow' = EnvelopesNow /\ CapturesNow' = CapturesNow
  BY <1>1 DEF EnvelopesNow, CapturesNow, Envelope, Seqs, Epochs
<1>3. CallsNow' = CallsNow /\ AcksNow' = AcksNow
  BY <1>1, <1>2 DEF CallsNow, AcksNow, AtMostOne
<1>4. AsksNow' = AsksNow
  BY DEF AsksNow, None
<1>5. PagesNow' = PagesNow /\ UpdatesNow' = UpdatesNow /\ ReceiptsNow' = ReceiptsNow /\ StalesNow' = StalesNow
  BY <1>1, <1>2 DEF PagesNow, UpdatesNow, ReceiptsNow, StalesNow, AtMostOne
<1>6. CatchupsNow' = CatchupsNow /\ UploadsNow' = UploadsNow
  BY <1>1 DEF CatchupsNow, UploadsNow, Seqs, Epochs
<1>7. op' = op => AppendsNow' = AppendsNow
  BY <1>1 DEF AppendsNow, Epochs
<1> QED
  BY <1>1, <1>2, <1>3, <1>4, <1>5, <1>6, <1>7 DEF TasksNow, AnswersNow, RequestsNow

-----------------------------------------------------------------------------
(* The catch-up queue.                                                     *)

LEMMA Pumped ==
    ASSUME LogTypes, NEW q \in AsksNow
    PROVE  Pump(q) \in AsksNow
BY DEF Pump, AsksNow, None

LEMMA Asked ==
    ASSUME LogTypes, NEW q \in AsksNow, NEW after \in UpTo
    PROVE  Ask(q, after) \in AsksNow
<1>1. after \in None..Len(log)
  BY Lengths
<1>2. [q EXCEPT !.again = after] \in AsksNow /\ [q EXCEPT !.wait = after] \in AsksNow
  BY <1>1 DEF AsksNow
<1> QED
  BY <1>2, Pumped DEF Ask

LEMMA Finished ==
    ASSUME LogTypes, NEW q \in AsksNow, NEW after
    PROVE  Finish(q, after) \in AsksNow
<1> DEFINE idle == [q EXCEPT !.fly = None, !.again = None]
<1>1. idle \in AsksNow /\ [idle EXCEPT !.wait = q.again] \in AsksNow
  BY Lengths DEF AsksNow
<1> QED
  BY <1>1, Pumped DEF Finish

LEMMA RequestsTyped ==
    ASSUME LogTypes, NEW q, NEW r \in AsksNow
    PROVE  Requests(q, r) \in Seq(RequestsNow)
<1>1. CASE q.fly = None /\ r.fly # None
  <2>1. r.fly \in UpTo
    BY <1>1, Lengths DEF AsksNow, UpTo, None
  <2>2. [t |-> "catchup", after |-> r.fly] \in RequestsNow
    BY <2>1 DEF CatchupsNow, RequestsNow
  <2> QED
    BY <1>1, <2>2, OneIsSeq DEF Requests
<1>2. CASE ~(q.fly = None /\ r.fly # None)
  <2>1. <<>> \in Seq(RequestsNow)
    OBVIOUS
  <2> QED
    BY <1>2, <2>1 DEF Requests
<1> QED
  BY <1>1, <1>2

LEMMA Extended ==
    ASSUME NEW S, NEW s \in Seq(S), NEW t \in Seq(S)
    PROVE  s \o t \in Seq(S)
BY ConcatProperties

-----------------------------------------------------------------------------
(* A call takes its next envelope.                                         *)

LEMMA FutureIsFinite == LogTypes /\ FutureTypes => IsFiniteSet(future) /\ Cardinality(future) \in Nat
<1>1. LogTypes => IsFiniteSet(Stored)
  BY Lengths, FS_Interval DEF Stored
<1> QED
  BY <1>1, FS_Subset, FS_CardinalityType DEF FutureTypes

LEMMA FewerHeld ==
    ASSUME LogTypes, FutureTypes, NEW f, f \subseteq future
    PROVE  f \in SUBSET Stored /\ Cardinality(f) <= FutureLimit
<1>1. IsFiniteSet(future) /\ Cardinality(future) \in Nat
  BY FutureIsFinite
<1>2. Cardinality(f) <= Cardinality(future) /\ IsFiniteSet(f)
  BY <1>1, FS_Subset
<1>3. Cardinality(f) \in Nat /\ FutureLimit \in Nat
  BY <1>2, FS_CardinalityType, Limits
<1> QED
  BY <1>1, <1>2, <1>3 DEF FutureTypes

LEMMA HoldTyped ==
    ASSUME LogTypes, FutureTypes, NEW s \in Stored
    PROVE  Hold(s) \in SUBSET Stored /\ Cardinality(Hold(s)) <= FutureLimit
<1>1. IsFiniteSet(future) /\ Cardinality(future) \in Nat /\ FutureLimit \in Nat
  BY FutureIsFinite, Limits
<1>2. Cardinality(future \cup {s}) = IF s \in future THEN Cardinality(future) ELSE Cardinality(future) + 1
  BY <1>1, FS_AddElement
<1>3. Cardinality(future) < FutureLimit => Cardinality(future \cup {s}) <= FutureLimit
  BY <1>1, <1>2
<1> QED
  BY <1>3 DEF Hold, FutureTypes

LEMMA CallTyped ==
    ASSUME NEW k \in CallsNow
    PROVE  /\ \A todo \in Seq(EnvelopesNow) : [k EXCEPT !.todo = todo] \in CallsNow
           /\ \A todo \in Seq(EnvelopesNow) : [[k EXCEPT !.todo = todo] EXCEPT !.applied = TRUE] \in CallsNow
           /\ \A todo \in Seq(EnvelopesNow) : \A e \in EnvelopesNow :
                  [[k EXCEPT !.todo = todo] EXCEPT !.opening = <<e>>] \in CallsNow
           /\ \A todo \in Seq(EnvelopesNow) :
                  [k EXCEPT !.opening = <<>>, !.todo = todo, !.applied = TRUE] \in CallsNow
           /\ k.todo \in Seq(EnvelopesNow) /\ k.opening \in AtMostOne(EnvelopesNow)
<1>1. \A e \in EnvelopesNow : <<e>> \in AtMostOne(EnvelopesNow)
  BY DEF AtMostOne
<1>2. <<>> \in AtMostOne(EnvelopesNow)
  BY DEF AtMostOne
<1> QED
  BY <1>1, <1>2 DEF CallsNow

LEMMA PutTyped ==
    ASSUME TaskTypes, NEW i \in 0..Len(tasks), NEW k \in TasksNow, PutTask(i, k)
    PROVE  tasks' \in Seq(TasksNow)
<1>1. CASE i = 0
  BY <1>1, AppendProperties DEF PutTask, NewTask, TaskTypes
<1>2. CASE i # 0
  <2>1. i \in 1..Len(tasks)
    BY <1>2, LenProperties DEF TaskTypes
  <2> QED
    BY <1>2, <2>1, ExceptSeq DEF PutTask, SetTask, TaskTypes
<1> QED
  BY <1>1, <1>2

LEMMA AskStep ==
    ASSUME LogTypes, AskTypes, SocketTypes, NEW after \in UpTo, RequestCatchup(after)
    PROVE  asks' \in AsksNow /\ c2r' \in Seq(RequestsNow)
<1>1. asks' \in AsksNow
  BY Asked DEF RequestCatchup, AskTypes
<1>2. Requests(asks, asks') \in Seq(RequestsNow)
  BY <1>1, RequestsTyped
<1> QED
  BY <1>1, <1>2, Extended DEF RequestCatchup, SocketTypes

LEMMA TakeTyped ==
    ASSUME TypeInv, NEW k \in CallsNow, k.todo # <<>>, NEW i \in 0..Len(tasks), Take(k, i)
    PROVE  /\ future' \in SUBSET Stored /\ Cardinality(future') <= FutureLimit
           /\ health' \in {"healthy", "sequence-gap", "key-unavailable"} /\ missing' \in 0..MaxEpoch
           /\ asks' \in AsksNow /\ c2r' \in Seq(RequestsNow) /\ tasks' \in Seq(TasksNow)
<1> DEFINE e == Head(k.todo)
<1>1. e \in EnvelopesNow /\ Tail(k.todo) \in Seq(EnvelopesNow)
  BY CallTyped, HeadTailProperties
<1>2. e.seq \in Stored /\ e.epoch \in Epochs
  BY <1>1 DEF EnvelopesNow, Envelope
<1>3. \A j \in {Rest(k), [Rest(k) EXCEPT !.applied = TRUE], [Rest(k) EXCEPT !.opening = <<e>>]} :
          j \in TasksNow
  <2>1. Rest(k) \in CallsNow /\ [Rest(k) EXCEPT !.applied = TRUE] \in CallsNow
    BY <1>1, CallTyped DEF Rest
  <2>2. [Rest(k) EXCEPT !.opening = <<e>>] \in CallsNow
    BY <1>1, CallTyped DEF Rest
  <2> HIDE DEF e
  <2> QED
    BY <2>1, <2>2 DEF TasksNow
<1>4. lastSeq \in UpTo
  BY DEF TypeInv, DocTypes
<1>5. UNCHANGED <<future, health, missing, asks, c2r>> =>
          /\ future' \in SUBSET Stored /\ Cardinality(future') <= FutureLimit
          /\ health' \in {"healthy", "sequence-gap", "key-unavailable"} /\ missing' \in 0..MaxEpoch
          /\ asks' \in AsksNow /\ c2r' \in Seq(RequestsNow)
  BY DEF TypeInv, FutureTypes, HealthTypes, AskTypes, SocketTypes
<1> HIDE DEF e
<1>6. CASE /\ e.seq <= lastSeq
           /\ PutTask(i, [Rest(k) EXCEPT !.applied = TRUE])
           /\ UNCHANGED <<future, health, missing, asks, c2r>>
  BY <1>3, <1>5, <1>6, PutTyped DEF TypeInv
<1>7. CASE Gap(e) /\ PutTask(i, Rest(k))
  <2>1. tasks' \in Seq(TasksNow)
    BY <1>3, <1>7, PutTyped DEF TypeInv
  <2>2. future' \in SUBSET Stored /\ Cardinality(future') <= FutureLimit
    BY <1>2, <1>7, HoldTyped DEF Gap, TypeInv
  <2>3. CASE missing # 0
    BY <1>7, <2>1, <2>2, <2>3 DEF Gap, TypeInv, HealthTypes, AskTypes, SocketTypes
  <2>4. CASE missing = 0
    <3>1. asks' \in AsksNow /\ c2r' \in Seq(RequestsNow)
      BY <1>4, <1>7, <2>4, AskStep DEF Gap, TypeInv
    <3> QED
      BY <1>7, <2>1, <2>2, <2>4, <3>1 DEF Gap, TypeInv, HealthTypes
  <2> QED
    BY <2>3, <2>4
<1>8. CASE /\ Unreadable(e) /\ PutTask(i, Rest(k)) /\ UNCHANGED <<future, asks, c2r>>
  <2>1. tasks' \in Seq(TasksNow)
    BY <1>3, <1>8, PutTyped DEF TypeInv
  <2>2. missing' \in 0..MaxEpoch /\ health' = "key-unavailable"
    BY <1>2, <1>8, Limits DEF Unreadable, Larger, TypeInv, HealthTypes, Epochs
  <2> QED
    BY <1>8, <2>1, <2>2 DEF TypeInv, FutureTypes, AskTypes, SocketTypes
<1>9. CASE /\ PutTask(i, [Rest(k) EXCEPT !.opening = <<e>>])
           /\ UNCHANGED <<future, health, missing, asks, c2r>>
  BY <1>3, <1>5, <1>9, PutTyped DEF TypeInv
<1> QED
  BY <1>6, <1>7, <1>8, <1>9 DEF Take, e

-----------------------------------------------------------------------------
(* Every step keeps the types.                                             *)

LEMMA Kept ==
    ASSUME TypeInv, UNCHANGED <<log, ownAt>>
    PROVE  /\ LogTypes'
           /\ UNCHANGED <<op, sealed, refused>> => OwnTypes'
           /\ UNCHANGED <<lastSeq, told, held, row>> => DocTypes'
           /\ UNCHANGED <<health, missing>> => HealthTypes'
           /\ UNCHANGED future => FutureTypes'
           /\ UNCHANGED tasks => TaskTypes'
           /\ UNCHANGED asks => AskTypes'
           /\ UNCHANGED <<open, drops, c2r, r2c, op>> => SocketTypes'
           /\ UNCHANGED <<captured, pending>> => CaptureTypes'
           /\ UNCHANGED <<snap, floor>> => SnapTypes'
           /\ UNCHANGED <<keyEpoch, graphEpoch>> => EpochTypes'
<1>1. LogTypes' /\ (UNCHANGED <<op, sealed, refused>> => OwnTypes')
  BY SameNow DEF TypeInv, LogTypes, OwnTypes, Epochs
<1>2. UNCHANGED <<lastSeq, told, held, row>> => DocTypes'
  BY SameNow DEF TypeInv, DocTypes, Seqs
<1>3. /\ UNCHANGED <<health, missing>> => HealthTypes'
      /\ UNCHANGED future => FutureTypes'
      /\ UNCHANGED tasks => TaskTypes'
      /\ UNCHANGED asks => AskTypes'
  BY SameNow DEF TypeInv, HealthTypes, FutureTypes, TaskTypes, AskTypes
<1>4. /\ UNCHANGED <<open, drops, c2r, r2c, op>> => SocketTypes'
      /\ UNCHANGED <<captured, pending>> => CaptureTypes'
  BY SameNow DEF TypeInv, SocketTypes, CaptureTypes, AtMostOne
<1>5. /\ UNCHANGED <<snap, floor>> => SnapTypes'
      /\ UNCHANGED <<keyEpoch, graphEpoch>> => EpochTypes'
  BY SameNow DEF TypeInv, SnapTypes, EpochTypes, Epochs, Seqs
<1> QED
  BY <1>1, <1>2, <1>3, <1>4, <1>5

LEMMA NextAnswer ==
    ASSUME SocketTypes, r2c # <<>>
    PROVE  /\ Tail(r2c) \in Seq(AnswersNow)
           /\ Head(r2c).t = "update" => Head(r2c) \in UpdatesNow
           /\ Head(r2c).t = "page" => Head(r2c) \in PagesNow
           /\ Head(r2c).t = "ack" => Head(r2c) \in ReceiptsNow
           /\ Head(r2c).t = "stale_epoch" => Head(r2c) \in StalesNow
<1>1. Head(r2c) \in AnswersNow /\ Tail(r2c) \in Seq(AnswersNow)
  BY HeadTailProperties DEF SocketTypes
<1> QED
  BY <1>1 DEF AnswersNow, UpdatesNow, PagesNow, ReceiptsNow, StalesNow

\* A call that begins.
LEMMA NewCall ==
    ASSUME TypeInv, NEW t \in {"update", "page"}, NEW todo \in Seq(EnvelopesNow), NEW more \in BOOLEAN
    PROVE  /\ Call(t, todo, more) \in CallsNow /\ Call(t, todo, more).todo = todo
           /\ \A e \in EnvelopesNow : [Call(t, todo, more) EXCEPT !.opening = <<e>>] \in CallsNow
<1>1. drops \in 0..MaxDrops /\ <<>> \in AtMostOne(EnvelopesNow)
  BY DEF TypeInv, SocketTypes, AtMostOne
<1>2. Call(t, todo, more) \in CallsNow
  BY <1>1 DEF Call, CallsNow
<1>3. \A e \in EnvelopesNow : <<e>> \in AtMostOne(EnvelopesNow)
  BY DEF AtMostOne
<1>4. \A e \in EnvelopesNow : [Call(t, todo, more) EXCEPT !.opening = <<e>>] \in CallsNow
  BY <1>2, <1>3 DEF CallsNow
<1> QED
  BY <1>2, <1>4 DEF Call

LEMMA UpdateTyped ==
    ASSUME LogTypes, NEW s \in Stored
    PROVE  UpdateAt(s) \in EnvelopesNow
<1>1. s \in Seqs /\ log[s] \in Epochs
  BY Lengths
<1> QED
  BY <1>1 DEF UpdateAt, EnvelopesNow, Envelope

LEMMA LargerOf == ASSUME NEW n \in Nat, NEW a \in 0..n, NEW b \in 0..n PROVE Larger(a, b) \in 0..n
BY DEF Larger

LEMMA Told ==
    ASSUME TypeInv, NEW s \in UpTo
    PROVE  Larger(told, s) \in UpTo /\ Larger(lastSeq, s) \in UpTo
<1>1. Len(log) \in Nat
  BY LenProperties DEF TypeInv, LogTypes
<1> QED
  BY <1>1, LargerOf DEF TypeInv, DocTypes, UpTo

LEMMA SaveTyped ==
    ASSUME TypeInv, NEW s \in UpTo, NEW holds \in SUBSET Seqs, Save(s, holds)
    PROVE  row' \in [seq: UpTo, holds: SUBSET Seqs]
<1>1. row \in [seq: UpTo, holds: SUBSET Seqs] /\ Len(log) \in Nat
  BY LenProperties DEF TypeInv, DocTypes, LogTypes
<1>2. Larger(row.seq, s) \in UpTo
  BY <1>1, LargerOf DEF UpTo
<1> QED
  BY <1>1, <1>2 DEF Save

LEMMA OnUpdateTypes == ASSUME TypeInv, OnUpdate PROVE TypeInv'
<1> DEFINE s == Head(r2c).seq
<1>1. /\ Tail(r2c) \in Seq(AnswersNow) /\ s \in Stored
  BY NextAnswer DEF OnUpdate, TypeInv, UpdatesNow
<1> DEFINE k == Call("update", <<UpdateAt(s)>>, FALSE)
<1>2. k \in CallsNow /\ k.todo # <<>>
  <2>1. <<UpdateAt(s)>> \in Seq(EnvelopesNow)
    BY <1>1, UpdateTyped, OneIsSeq DEF TypeInv
  <2>2. "update" \in {"update", "page"} /\ FALSE \in BOOLEAN /\ <<UpdateAt(s)>> # <<>>
    OBVIOUS
  <2> HIDE DEF s
  <2> QED
    BY <2>1, <2>2, NewCall, Zenon
<1>3. Take(k, 0)
  BY DEF OnUpdate
<1> HIDE DEF k, s
<1>4. 0 \in 0..Len(tasks)
  BY LenProperties DEF TypeInv, TaskTypes
<1>5. /\ future' \in SUBSET Stored /\ Cardinality(future') <= FutureLimit
      /\ health' \in {"healthy", "sequence-gap", "key-unavailable"} /\ missing' \in 0..MaxEpoch
      /\ asks' \in AsksNow /\ c2r' \in Seq(RequestsNow) /\ tasks' \in Seq(TasksNow)
  BY <1>2, <1>3, <1>4, TakeTyped
<1>6. told' \in UpTo
  BY <1>1, Told, Lengths DEF OnUpdate, s, TypeInv
<1>7. UNCHANGED <<log, ownAt, op, sealed, refused, lastSeq, held, row, captured, pending, snap, floor, open, drops,
                  keyEpoch, graphEpoch>>
  BY DEF OnUpdate, relay, bounds
<1>8. DocTypes' /\ HealthTypes' /\ FutureTypes' /\ TaskTypes' /\ AskTypes'
  BY <1>5, <1>6, <1>7, SameNow DEF TypeInv, DocTypes, HealthTypes, FutureTypes, TaskTypes, AskTypes, Seqs
<1>9. SocketTypes'
  BY <1>1, <1>5, <1>7, SameNow DEF TypeInv, SocketTypes, OnUpdate
<1> QED
  BY <1>7, <1>8, <1>9, Kept DEF TypeInv

LEMMA OnPageTypes == ASSUME TypeInv, OnPage PROVE TypeInv'
<1> DEFINE page == Head(r2c)
<1>1. /\ Tail(r2c) \in Seq(AnswersNow) /\ page \in PagesNow
  BY NextAnswer DEF OnPage, TypeInv
<1>2. /\ page.rows \in Seq(EnvelopesNow) /\ page.more \in BOOLEAN /\ page.last \in UpTo
      /\ page.snap \in AtMostOne(EnvelopesNow)
  BY <1>1 DEF PagesNow
<1> DEFINE call == Call("page", page.rows, page.more)
<1>3. /\ call \in CallsNow /\ call.todo = page.rows
      /\ \A e \in EnvelopesNow : [call EXCEPT !.opening = <<e>>] \in CallsNow
  <2>1. "page" \in {"update", "page"}
    OBVIOUS
  <2> HIDE DEF page
  <2> QED
    BY <1>2, <2>1, NewCall, Zenon
<1>4. Range(page.snap) \subseteq EnvelopesNow
  BY <1>2 DEF Range, AtMostOne
<1>5. told' \in UpTo
  BY <1>2, Told DEF OnPage
<1>6. UNCHANGED <<log, ownAt, op, sealed, refused, held, row, captured, pending, snap, floor, open, drops, keyEpoch, graphEpoch>>
  BY DEF OnPage, relay, bounds
<1> DEFINE Good == /\ lastSeq' \in UpTo /\ future' \in SUBSET Stored /\ Cardinality(future') <= FutureLimit
                   /\ health' \in {"healthy", "sequence-gap", "key-unavailable"} /\ missing' \in 0..MaxEpoch
                   /\ asks' \in AsksNow /\ c2r' \in Seq(RequestsNow) /\ tasks' \in Seq(TasksNow)
<1>7. ASSUME page.snap = <<>>, page.rows = <<>>, NewTask(call),
             UNCHANGED <<lastSeq, future, health, missing, asks, c2r>>
      PROVE  Good
  <2>1. tasks' \in Seq(TasksNow)
    BY <1>3, <1>7, AppendProperties DEF NewTask, TypeInv, TaskTypes, TasksNow
  <2>2. Good
    BY <2>1, <1>7 DEF TypeInv, DocTypes, FutureTypes, HealthTypes, AskTypes, SocketTypes
  <2> QED
    BY <2>2
<1>8. ASSUME page.rows # <<>>, Take(call, 0), UNCHANGED lastSeq
      PROVE  Good
  <2>1. 0 \in 0..Len(tasks)
    BY LenProperties DEF TypeInv, TaskTypes
  <2> HIDE DEF call, page
  <2>2. Good
    BY <1>3, <1>8, <2>1, TakeTyped DEF TypeInv, DocTypes
  <2> QED
    BY <2>2
<1>9. ASSUME NEW s \in Range(page.snap),
             /\ lastSeq' = BeforeSnapshot(s.seq)
             /\ future' = {u \in future : u > s.seq}
             /\ \/ /\ Unreadable(s)
                   /\ NewTask(call)
                \/ /\ s.epoch <= keyEpoch
                   /\ NewTask([call EXCEPT !.opening = <<s>>])
                   /\ UNCHANGED <<health, missing>>
             /\ UNCHANGED <<asks, c2r>>
      PROVE  Good
  <2>1. s \in EnvelopesNow /\ s.seq \in Stored /\ s.epoch \in Epochs
    BY <1>4 DEF EnvelopesNow, Envelope
  <2>2. lastSeq' \in UpTo
    BY <1>9, <2>1, Lengths DEF BeforeSnapshot, TypeInv
  <2>3. future' \in SUBSET Stored /\ Cardinality(future') <= FutureLimit
    BY <1>9, FewerHeld DEF TypeInv
  <2>4. tasks' \in Seq(TasksNow)
    <3>1. call \in TasksNow /\ [call EXCEPT !.opening = <<s>>] \in TasksNow
      BY <1>3, <2>1 DEF TasksNow
    <3> DEFINE opened == [call EXCEPT !.opening = <<s>>]
    <3>2. tasks' = Append(tasks, call) \/ tasks' = Append(tasks, opened)
      BY <1>9 DEF NewTask
    <3> HIDE DEF call, opened
    <3>3. call \in TasksNow /\ opened \in TasksNow /\ tasks \in Seq(TasksNow)
      BY <3>1 DEF opened, TypeInv, TaskTypes
    <3> QED
      BY <3>2, <3>3, AppendProperties
  <2>5. health' \in {"healthy", "sequence-gap", "key-unavailable"} /\ missing' \in 0..MaxEpoch
    <3>1. CASE Unreadable(s)
      BY <2>1, <3>1, Limits DEF Unreadable, Larger, TypeInv, HealthTypes, Epochs
    <3>2. CASE UNCHANGED <<health, missing>>
      BY <3>2 DEF TypeInv, HealthTypes
    <3> QED
      BY <1>9, <3>1, <3>2
  <2>6. asks' \in AsksNow /\ c2r' \in Seq(RequestsNow)
    BY <1>9 DEF TypeInv, AskTypes, SocketTypes
  <2> QED
    BY <2>2, <2>3, <2>4, <2>5, <2>6
<1>10. Good
  <2> HIDE DEF Good
  <2> QED
    BY <1>7, <1>8, <1>9 DEF OnPage
<1> HIDE DEF call, page
<1>11. DocTypes' /\ HealthTypes' /\ FutureTypes' /\ TaskTypes' /\ AskTypes'
  BY <1>5, <1>6, <1>10, SameNow DEF TypeInv, DocTypes, HealthTypes, FutureTypes, TaskTypes, AskTypes, Seqs
<1>12. SocketTypes'
  BY <1>1, <1>6, <1>10, SameNow DEF TypeInv, SocketTypes, OnPage
<1> QED
  BY <1>6, <1>11, <1>12, Kept DEF TypeInv

\* A call under way.
LEMMA CallAt ==
    ASSUME TaskTypes, NEW i \in DOMAIN tasks, tasks[i].t # "ack"
    PROVE  tasks[i] \in CallsNow /\ i \in 1..Len(tasks) /\ i \in 0..Len(tasks) /\ i # 0
<1>1. i \in 1..Len(tasks) /\ tasks[i] \in TasksNow /\ Len(tasks) \in Nat
  BY LenProperties DEF TaskTypes
<1> QED
  BY <1>1 DEF TasksNow, AcksNow

LEMMA AckAt ==
    ASSUME TaskTypes, NEW i \in DOMAIN tasks, tasks[i].t = "ack"
    PROVE  tasks[i] \in AcksNow /\ i \in 1..Len(tasks)
<1>1. i \in 1..Len(tasks) /\ tasks[i] \in TasksNow
  BY LenProperties DEF TaskTypes
<1> QED
  BY <1>1 DEF TasksNow, CallsNow

LEMMA TakeEnvelopeTypes == ASSUME TypeInv, NEW i \in DOMAIN tasks, TakeEnvelope(i) PROVE TypeInv'
<1>1. tasks[i] \in CallsNow /\ i \in 0..Len(tasks) /\ tasks[i].todo # <<>> /\ Take(tasks[i], i)
  BY CallAt DEF TakeEnvelope, TypeInv
<1>2. /\ future' \in SUBSET Stored /\ Cardinality(future') <= FutureLimit
      /\ health' \in {"healthy", "sequence-gap", "key-unavailable"} /\ missing' \in 0..MaxEpoch
      /\ asks' \in AsksNow /\ c2r' \in Seq(RequestsNow) /\ tasks' \in Seq(TasksNow)
  BY <1>1, TakeTyped
<1>3. UNCHANGED <<log, ownAt, op, sealed, refused, lastSeq, told, held, row, captured, pending, snap, floor, open, drops,
                  keyEpoch, graphEpoch, r2c>>
  BY DEF TakeEnvelope, relay, bounds
<1>4. HealthTypes' /\ FutureTypes' /\ TaskTypes' /\ AskTypes'
  BY <1>2, <1>3, SameNow DEF TypeInv, HealthTypes, FutureTypes, TaskTypes, AskTypes
<1>5. SocketTypes'
  BY <1>2, <1>3, SameNow DEF TypeInv, SocketTypes
<1> QED
  BY <1>3, <1>4, <1>5, Kept DEF TypeInv

LEMMA OpenedTypes == ASSUME TypeInv, NEW i \in DOMAIN tasks, Opened(i) PROVE TypeInv'
<1> DEFINE k == tasks[i]
           e == k.opening[1]
           seq == Larger(lastSeq, e.seq)
<1>1. k \in CallsNow /\ i \in 1..Len(tasks) /\ k.opening # <<>>
  BY CallAt DEF Opened, TypeInv
<1>2. e \in EnvelopesNow /\ k.todo \in Seq(EnvelopesNow)
  BY <1>1 DEF CallsNow, AtMostOne
<1>3. e.seq \in Stored /\ e.holds \in SUBSET Seqs
  BY <1>2 DEF EnvelopesNow, Envelope
<1>4. seq \in UpTo
  BY <1>3, Told, Lengths DEF TypeInv
<1>5. HeldAfter(seq) \o k.todo \in Seq(EnvelopesNow)
  <2>1. seq + 1 \in future => seq + 1 \in Stored
    BY DEF TypeInv, FutureTypes
  <2>2. seq + 1 \in future => <<UpdateAt(seq + 1)>> \in Seq(EnvelopesNow)
    BY <2>1, UpdateTyped, OneIsSeq DEF TypeInv
  <2>3. <<>> \in Seq(EnvelopesNow)
    OBVIOUS
  <2>4. HeldAfter(seq) \in Seq(EnvelopesNow)
    BY <2>2, <2>3 DEF HeldAfter
  <2> QED
    BY <1>2, <2>4, Extended
<1> DEFINE todo == HeldAfter(seq) \o k.todo
<1>6. [k EXCEPT !.opening = <<>>, !.todo = todo, !.applied = TRUE] \in TasksNow
  BY <1>1, <1>5, CallTyped DEF TasksNow
<1>7. tasks' = [tasks EXCEPT ![i] = [k EXCEPT !.opening = <<>>, !.todo = todo, !.applied = TRUE]]
  BY DEF Opened, SetTask
<1>8. /\ lastSeq' = seq /\ held' = held \cup e.holds /\ future' = future \ {seq + 1}
      /\ health' = "healthy"
  BY DEF Opened
<1>9. UNCHANGED <<missing, op, sealed, refused, captured, pending, open, asks, keyEpoch, row, c2r, r2c,
                  log, ownAt, graphEpoch, snap, floor, told, drops>>
  BY DEF Opened, session, relay, bounds
<1> HIDE DEF todo, seq, e, k
<1>10. tasks' \in Seq(TasksNow)
  BY <1>1, <1>6, <1>7, ExceptSeq DEF TypeInv, TaskTypes
<1>11. future' \in SUBSET Stored /\ Cardinality(future') <= FutureLimit
  BY <1>8, FewerHeld DEF TypeInv
<1>12. DocTypes' /\ HealthTypes' /\ FutureTypes' /\ TaskTypes'
  BY <1>3, <1>4, <1>8, <1>9, <1>10, <1>11, SameNow DEF TypeInv, DocTypes, HealthTypes, FutureTypes, TaskTypes, Seqs
<1> QED
  BY <1>9, <1>12, Kept DEF TypeInv

LEMMA EndTaskTyped ==
    ASSUME TaskTypes, NEW i \in DOMAIN tasks, EndTask(i)
    PROVE  tasks' \in Seq(TasksNow)
<1>1. i \in 1..Len(tasks)
  BY LenProperties DEF TaskTypes
<1> QED
  BY <1>1, Removed DEF EndTask, TaskTypes

LEMMA EndUpdateTypes == ASSUME TypeInv, NEW i \in DOMAIN tasks, EndUpdate(i) PROVE TypeInv'
<1>1. tasks' \in Seq(TasksNow)
  BY EndTaskTyped DEF EndUpdate, TypeInv
<1>2. row' \in [seq: UpTo, holds: SUBSET Seqs]
  <2>1. lastSeq \in UpTo /\ held \in SUBSET Seqs /\ row \in [seq: UpTo, holds: SUBSET Seqs]
    BY DEF TypeInv, DocTypes
  <2>2. CASE tasks[i].applied
    BY <2>1, <2>2, SaveTyped DEF EndUpdate
  <2>3. CASE ~tasks[i].applied
    BY <2>1, <2>3 DEF EndUpdate
  <2> QED
    BY <2>2, <2>3
<1>3. UNCHANGED <<lastSeq, held, future, health, missing, op, sealed, refused, captured, pending, open, asks, keyEpoch,
                  c2r, r2c, log, ownAt, graphEpoch, snap, floor, told, drops>>
  BY DEF EndUpdate, relay, bounds
<1>4. DocTypes' /\ TaskTypes'
  BY <1>1, <1>2, <1>3, SameNow DEF TypeInv, DocTypes, TaskTypes, Seqs
<1> QED
  BY <1>3, <1>4, Kept DEF TypeInv

LEMMA EndPageTypes == ASSUME TypeInv, NEW i \in DOMAIN tasks, EndPage(i) PROVE TypeInv'
<1>1. tasks' \in Seq(TasksNow)
  BY EndTaskTyped DEF EndPage, TypeInv
<1>2. lastSeq \in UpTo /\ held \in SUBSET Seqs /\ asks \in AsksNow
  BY DEF TypeInv, DocTypes, AskTypes
<1>3. row' \in [seq: UpTo, holds: SUBSET Seqs]
  BY <1>2, SaveTyped DEF EndPage
<1> DEFINE asked == IF tasks[i].more THEN Ask(asks, lastSeq) ELSE asks
           from == IF OfThisSocket(tasks[i]) THEN [asks EXCEPT !.fly = None] ELSE asks
<1>4. asked \in AsksNow
  BY <1>2, Asked DEF TypeInv
<1>5. asks' \in AsksNow
  BY <1>4, Finished DEF EndPage, TypeInv
<1>6. c2r' \in Seq(RequestsNow)
  <2>1. Requests(from, asks') \in Seq(RequestsNow)
    BY <1>5, RequestsTyped DEF TypeInv
  <2>2. c2r' = c2r \o Requests(from, asks')
    BY DEF EndPage
  <2> QED
    BY <2>1, <2>2, Extended DEF TypeInv, SocketTypes
<1>7. UNCHANGED <<lastSeq, held, future, health, missing, op, sealed, refused, captured, pending, open, keyEpoch,
                  r2c, log, ownAt, graphEpoch, snap, floor, told, drops>>
  BY DEF EndPage, relay, bounds
<1>8. DocTypes' /\ TaskTypes' /\ AskTypes' /\ SocketTypes'
  BY <1>1, <1>3, <1>5, <1>6, <1>7, SameNow DEF TypeInv, DocTypes, TaskTypes, AskTypes, SocketTypes, Seqs
<1> QED
  BY <1>7, <1>8, Kept DEF TypeInv

LEMMA OnAckTypes == ASSUME TypeInv, OnAck PROVE TypeInv'
<1> DEFINE m == Head(r2c)
           k == [t |-> "ack", n |-> m.n, seq |-> m.seq, mark |-> AckedWatermark(m.seq)]
<1>1. Tail(r2c) \in Seq(AnswersNow) /\ m \in ReceiptsNow
  BY NextAnswer DEF OnAck, TypeInv
<1>2. m.n \in Delivered /\ m.seq \in Stored /\ m.seq \in UpTo
  BY <1>1, Lengths DEF ReceiptsNow, TypeInv
<1>3. AckedWatermark(m.seq) \in UpTo
  BY <1>2 DEF AckedWatermark, TypeInv, DocTypes
<1>4. k \in TasksNow
  BY <1>2, <1>3 DEF TasksNow, AcksNow
<1>5. told' = Larger(told, m.seq) /\ (tasks' = tasks \/ tasks' = Append(tasks, k)) /\ r2c' = Tail(r2c)
  BY DEF OnAck
<1> HIDE DEF m, k
<1>6. tasks' \in Seq(TasksNow)
  BY <1>4, <1>5, AppendProperties DEF TypeInv, TaskTypes
<1>7. told' \in UpTo
  BY <1>2, <1>5, Told
<1>8. UNCHANGED <<lastSeq, held, future, health, missing, op, sealed, refused, captured, pending, open, asks, keyEpoch,
                  row, c2r, log, ownAt, graphEpoch, snap, floor, drops>>
  BY DEF OnAck, relay, bounds
<1>9. DocTypes' /\ TaskTypes' /\ SocketTypes'
  BY <1>1, <1>5, <1>6, <1>7, <1>8, SameNow DEF TypeInv, DocTypes, TaskTypes, SocketTypes, Seqs
<1> QED
  BY <1>8, <1>9, Kept DEF TypeInv

LEMMA OwnAgain ==
    ASSUME op' \in 0..MaxOwn, sealed' \in Epochs, refused' = FALSE, op' # 0 => Len(log') < MaxLog
    PROVE  OwnTypes'
BY DEF OwnTypes, Epochs

LEMMA AckCommittedTypes == ASSUME TypeInv, NEW i \in DOMAIN tasks, AckCommitted(i) PROVE TypeInv'
<1> DEFINE k == tasks[i]
<1>1. tasks' \in Seq(TasksNow)
  BY EndTaskTyped DEF AckCommitted, TypeInv
<1>2. k \in AcksNow
  BY AckAt DEF AckCommitted, TypeInv
<1>3. k.n \in Delivered /\ k.seq \in Stored /\ k.mark \in UpTo /\ k.seq \in Seqs /\ k.seq \in UpTo
  BY <1>2, Lengths DEF AcksNow, TypeInv
<1>4. UNCHANGED <<future, missing, sealed, captured, pending, open, keyEpoch, r2c, log, ownAt, graphEpoch, snap, floor,
                  told, drops>>
  BY DEF AckCommitted, relay, bounds
<1>5. CASE k.n # op
  <2>1. UNCHANGED <<row, lastSeq, held, health, asks, c2r, op, refused>>
    BY <1>5 DEF AckCommitted
  <2>2. TaskTypes'
    BY <1>1, <1>4, SameNow DEF TaskTypes
  <2> QED
    BY <1>4, <2>1, <2>2, Kept DEF TypeInv
<1>6. CASE k.n = op
  <2>1. /\ Save(k.mark, held \cup {k.seq})
        /\ held' = held \cup {k.seq}
        /\ lastSeq' = AckedWatermark(k.seq)
        /\ IF k.seq > lastSeq + 1
           THEN health' = "sequence-gap" /\ RequestCatchup(lastSeq)
           ELSE UNCHANGED <<health, asks, c2r>>
        /\ op' = 0 /\ refused' = FALSE
    BY <1>6 DEF AckCommitted
  <2> HIDE DEF k
  <2>2. lastSeq \in UpTo /\ held \in SUBSET Seqs /\ held \cup {k.seq} \in SUBSET Seqs
    BY <1>3 DEF TypeInv, DocTypes
  <2>3. row' \in [seq: UpTo, holds: SUBSET Seqs]
    BY <1>3, <2>1, <2>2, SaveTyped
  <2>4. lastSeq' \in UpTo /\ held' \in SUBSET Seqs
    BY <1>3, <2>1, <2>2 DEF AckedWatermark
  <2>5. /\ asks' \in AsksNow /\ c2r' \in Seq(RequestsNow)
        /\ health' \in {"healthy", "sequence-gap", "key-unavailable"}
    <3>1. CASE k.seq > lastSeq + 1
      BY <2>1, <2>2, <3>1, AskStep DEF TypeInv
    <3>2. CASE ~(k.seq > lastSeq + 1)
      BY <2>1, <3>2 DEF TypeInv, AskTypes, SocketTypes, HealthTypes
    <3> QED
      BY <3>1, <3>2
  <2>6. Seq(RequestsNow) \subseteq Seq(RequestsNow')
    <3>1. (Delivered \cup {op}) \ {0} \subseteq (Delivered \cup {op'}) \ {0}
      BY <1>3, <1>6 DEF k
    <3>2. UpTo' = UpTo /\ Stored' = Stored /\ Delivered' = Delivered
      BY <1>4, SameNow
    <3> QED
      BY <3>1, <3>2, WiderNow
  <2>7. OwnTypes'
    <3>1. sealed' \in Epochs /\ op' \in 0..MaxOwn
      BY <1>4, <2>1, Limits DEF TypeInv, OwnTypes
    <3> QED
      BY <2>1, <3>1, OwnAgain
  <2>8. DocTypes' /\ HealthTypes' /\ TaskTypes' /\ AskTypes'
    BY <1>1, <1>4, <2>3, <2>4, <2>5, SameNow DEF TypeInv, DocTypes, HealthTypes, TaskTypes, AskTypes, Seqs
  <2>9. SocketTypes'
    BY <1>4, <2>5, <2>6, SameNow DEF TypeInv, SocketTypes
  <2> QED
    BY <1>4, <2>7, <2>8, <2>9, Kept DEF TypeInv
<1> QED
  BY <1>5, <1>6

LEMMA OwnMade == MadeSoFar \in Nat
<1>1. IsFiniteSet(1..MaxOwn)
  BY Limits, FS_Interval
<1> QED
  BY <1>1, FS_Subset, FS_CardinalityType DEF MadeSoFar

LEMMA EditTypes == ASSUME TypeInv, Edit PROVE TypeInv'
<1>1. op = 0 /\ op' \in 1..MaxOwn /\ Len(log) < MaxLog
  <2>1. op = 0 /\ MadeSoFar < MaxOwn /\ op' = MadeSoFar + 1 /\ Len(log) < MaxLog
    BY DEF Edit
  <2> QED
    BY <2>1, OwnMade, Limits
<1>2. UNCHANGED <<lastSeq, held, future, health, missing, tasks, captured, pending, open, asks, keyEpoch, r2c,
                  log, ownAt, graphEpoch, snap, floor, told, drops>>
  BY DEF Edit, relay, bounds
<1>3. sealed' = keyEpoch /\ refused' = FALSE /\ keyEpoch \in Epochs
  BY DEF Edit, TypeInv, EpochTypes
<1>4. OwnTypes'
  <2>1. op' \in 0..MaxOwn /\ Len(log') < MaxLog
    BY <1>1, <1>2, Limits
  <2> QED
    BY <1>3, <2>1, OwnAgain
<1>5. row' \in [seq: UpTo, holds: SUBSET Seqs]
  BY SaveTyped DEF Edit, TypeInv, DocTypes
<1>6. c2r' \in Seq(RequestsNow')
  <2>1. Seq(RequestsNow) \subseteq Seq(RequestsNow')
    BY <1>1, <1>2, SameNow, WiderNow
  <2>2. AppendMsg(op', keyEpoch) \in RequestsNow'
    BY <1>1, <1>3 DEF AppendMsg, RequestsNow, AppendsNow, Epochs
  <2>3. c2r' = c2r \/ c2r' = Append(c2r, AppendMsg(op', keyEpoch))
    BY DEF Edit
  <2>4. c2r \in Seq(RequestsNow')
    BY <2>1 DEF TypeInv, SocketTypes
  <2> QED
    BY <2>2, <2>3, <2>4, AppendProperties
<1>7. DocTypes' /\ SocketTypes'
  BY <1>2, <1>5, <1>6, SameNow DEF TypeInv, DocTypes, SocketTypes, Seqs
<1> QED
  BY <1>2, <1>4, <1>7, Kept DEF TypeInv

LEMMA AppendTyped ==
    ASSUME TypeInv, op # 0, NEW epoch \in Epochs
    PROVE  AppendMsg(op, epoch) \in RequestsNow
BY DEF TypeInv, OwnTypes, AppendMsg, RequestsNow, AppendsNow

LEMMA ConnectTypes == ASSUME TypeInv, Connect PROVE TypeInv'
<1>1. UNCHANGED <<lastSeq, held, future, health, missing, tasks, op, sealed, refused, captured, pending, keyEpoch, row, r2c,
                  log, ownAt, graphEpoch, snap, floor, told, drops>>
  BY DEF Connect, engine, relay, bounds
<1>2. lastSeq \in UpTo /\ lastSeq \in None..Len(log) /\ None \in None..Len(log)
  BY Lengths DEF TypeInv, DocTypes
<1>3. asks' \in AsksNow
  BY <1>2 DEF Connect, AsksNow
<1>4. c2r' \in Seq(RequestsNow)
  <2> DEFINE again == IF op = 0 THEN <<>> ELSE <<AppendMsg(op, sealed)>>
  <2>1. [t |-> "catchup", after |-> lastSeq] \in RequestsNow
    BY <1>2 DEF RequestsNow, CatchupsNow
  <2>2. <<[t |-> "catchup", after |-> lastSeq]>> \in Seq(RequestsNow)
    BY <2>1, OneIsSeq
  <2>3. sealed \in Epochs
    BY DEF TypeInv, OwnTypes
  <2>4. op # 0 => <<AppendMsg(op, sealed)>> \in Seq(RequestsNow)
    BY <2>3, AppendTyped, OneIsSeq
  <2>5. <<>> \in Seq(RequestsNow)
    OBVIOUS
  <2>6. again \in Seq(RequestsNow)
    BY <2>4, <2>5
  <2>7. c2r' = c2r \o <<[t |-> "catchup", after |-> lastSeq]>> \o again
    BY DEF Connect
  <2> HIDE DEF again
  <2>8. c2r \o <<[t |-> "catchup", after |-> lastSeq]>> \in Seq(RequestsNow)
    BY <2>2, Extended DEF TypeInv, SocketTypes
  <2> QED
    BY <2>6, <2>7, <2>8, Extended
<1>5. open' \in BOOLEAN
  BY DEF Connect
<1>6. AskTypes' /\ SocketTypes'
  BY <1>1, <1>3, <1>4, <1>5, SameNow DEF TypeInv, AskTypes, SocketTypes
<1> QED
  BY <1>1, <1>6, Kept DEF TypeInv

LEMMA NoAsksTyped == ASSUME LogTypes, NoAsks PROVE asks' \in AsksNow
BY Lengths DEF NoAsks, AsksNow

LEMMA DropTypes == ASSUME TypeInv, Drop PROVE TypeInv'
<1>1. UNCHANGED <<lastSeq, held, future, health, missing, tasks, op, sealed, refused, captured, pending, keyEpoch, row,
                  log, ownAt, graphEpoch, snap, floor, told>>
  BY DEF Drop, engine, relay
<1>2. asks' \in AsksNow
  BY NoAsksTyped DEF Drop, TypeInv
<1>3. drops' \in 0..MaxDrops /\ open' = FALSE /\ c2r' = <<>> /\ r2c' = <<>>
  BY Limits DEF Drop, TypeInv, SocketTypes
<1>4. <<>> \in Seq(RequestsNow) /\ <<>> \in Seq(AnswersNow)
  OBVIOUS
<1>5. AskTypes' /\ SocketTypes'
  BY <1>1, <1>2, <1>3, <1>4, SameNow DEF AskTypes, SocketTypes
<1> QED
  BY <1>1, <1>5, Kept DEF TypeInv

LEMMA RestartTypes == ASSUME TypeInv, Restart PROVE TypeInv'
<1>1. UNCHANGED <<op, sealed, keyEpoch, row, log, ownAt, graphEpoch, snap, floor, told, drops>>
  BY DEF Restart, relay
<1>2. asks' \in AsksNow
  BY NoAsksTyped DEF Restart, TypeInv
<1>3. /\ lastSeq' = row.seq /\ held' = row.holds /\ future' = {} /\ health' = "healthy" /\ missing' = 0
      /\ tasks' = <<>> /\ captured' = <<>> /\ pending' = <<>> /\ refused' = FALSE
      /\ open' = FALSE /\ c2r' = <<>> /\ r2c' = <<>>
  BY DEF Restart
<1>4. <<>> \in Seq(RequestsNow) /\ <<>> \in Seq(AnswersNow) /\ <<>> \in Seq(TasksNow)
  OBVIOUS
<1>5. OwnTypes'
  BY <1>1, <1>3 DEF TypeInv, OwnTypes, Epochs
<1>6. DocTypes' /\ HealthTypes'
  BY <1>1, <1>3, SameNow, Limits DEF TypeInv, DocTypes, HealthTypes, Seqs
<1>7. {} \in SUBSET Stored /\ Cardinality({}) <= FutureLimit
  BY FewerHeld DEF TypeInv
<1>8. FutureTypes' /\ TaskTypes' /\ CaptureTypes'
  BY <1>1, <1>3, <1>4, <1>7, SameNow DEF FutureTypes, TaskTypes, CaptureTypes, AtMostOne
<1>9. AskTypes' /\ SocketTypes'
  BY <1>1, <1>2, <1>3, <1>4, SameNow DEF TypeInv, AskTypes, SocketTypes
<1> QED
  BY <1>1, <1>5, <1>6, <1>8, <1>9, Kept DEF TypeInv

LEMMA OnStaleEpochTypes == ASSUME TypeInv, OnStaleEpoch PROVE TypeInv'
<1>1. UNCHANGED <<lastSeq, held, future, health, missing, tasks, op, sealed, captured, pending, open, asks, keyEpoch, row,
                  c2r, log, ownAt, graphEpoch, snap, floor, told, drops>>
  BY DEF OnStaleEpoch, relay, bounds
<1>2. Tail(r2c) \in Seq(AnswersNow) /\ Head(r2c) \in StalesNow
  BY NextAnswer DEF OnStaleEpoch, TypeInv
<1>3. Head(r2c).n \in 1..MaxOwn /\ refused' = (refused \/ Head(r2c).n = op) /\ r2c' = Tail(r2c)
  BY <1>2 DEF OnStaleEpoch, StalesNow
<1>4. refused' \in BOOLEAN /\ (refused' => op # 0)
  BY <1>3 DEF TypeInv, OwnTypes
<1>5. OwnTypes'
  BY <1>1, <1>4 DEF TypeInv, OwnTypes, Epochs
<1>6. SocketTypes'
  BY <1>1, <1>2, <1>3, SameNow DEF TypeInv, SocketTypes
<1> QED
  BY <1>1, <1>5, <1>6, Kept DEF TypeInv

LEMMA KeysChangedTypes == ASSUME TypeInv, KeysChanged PROVE TypeInv'
<1> DEFINE resent == IF refused /\ open THEN <<AppendMsg(op, graphEpoch)>> ELSE <<>>
<1>1. UNCHANGED <<lastSeq, held, future, tasks, op, captured, pending, open, row, r2c, log, ownAt, graphEpoch, snap, floor,
                  told, drops>>
  <2>1. UNCHANGED <<log, ownAt, graphEpoch, snap, floor, drops>>
    BY DEF KeysChanged, relay, bounds
  <2> QED
    BY <2>1 DEF KeysChanged
<1>2. /\ keyEpoch' = graphEpoch /\ sealed' = (IF refused THEN graphEpoch ELSE sealed) /\ refused' = FALSE
  BY DEF KeysChanged
<1>3. OwnTypes' /\ EpochTypes'
  BY <1>1, <1>2 DEF TypeInv, OwnTypes, EpochTypes, Epochs
<1>4. resent \in Seq(RequestsNow)
  <2>1. refused => <<AppendMsg(op, graphEpoch)>> \in Seq(RequestsNow)
    BY AppendTyped, OneIsSeq DEF TypeInv, OwnTypes, EpochTypes
  <2>2. <<>> \in Seq(RequestsNow)
    OBVIOUS
  <2> QED
    BY <2>1, <2>2
<1>5. \/ /\ missing' = 0 /\ health' = "sequence-gap"
         /\ asks' = Ask(asks, lastSeq) /\ c2r' = c2r \o resent \o Requests(asks, asks')
      \/ c2r' = c2r \o resent /\ UNCHANGED <<missing, health, asks>>
  BY DEF KeysChanged
<1> HIDE DEF resent
<1>6. asks \in AsksNow /\ lastSeq \in UpTo /\ c2r \in Seq(RequestsNow)
  BY DEF TypeInv, AskTypes, DocTypes, SocketTypes
<1>7. asks' \in AsksNow
  BY <1>5, <1>6, Asked DEF TypeInv
<1>8. c2r \o resent \in Seq(RequestsNow) /\ Requests(asks, asks') \in Seq(RequestsNow)
  BY <1>4, <1>6, <1>7, Extended, RequestsTyped DEF TypeInv
<1>9. c2r' \in Seq(RequestsNow)
  BY <1>5, <1>8, Extended
<1>10. HealthTypes'
  BY <1>5, Limits DEF TypeInv, HealthTypes
<1>11. AskTypes' /\ SocketTypes'
  BY <1>1, <1>7, <1>9, SameNow DEF TypeInv, AskTypes, SocketTypes
<1> QED
  BY <1>1, <1>3, <1>10, <1>11, Kept DEF TypeInv

LEMMA CaptureSnapshotTypes == ASSUME TypeInv, CaptureSnapshot PROVE TypeInv'
<1>1. UNCHANGED <<lastSeq, held, future, health, missing, tasks, op, sealed, refused, pending, open, asks, keyEpoch, row,
                  c2r, r2c, log, ownAt, graphEpoch, snap, floor, told, drops>>
  BY DEF CaptureSnapshot, session, relay
<1>2. lastSeq \in Stored /\ held \in SUBSET Seqs
  BY DEF CaptureSnapshot, TypeInv, DocTypes, UpTo, Stored
<1>3. [through |-> lastSeq, holds |-> held] \in CapturesNow
  BY <1>2 DEF CapturesNow
<1>4. captured' \in AtMostOne(CapturesNow)
  BY <1>3, OneIsSeq DEF CaptureSnapshot
<1>5. CaptureTypes'
  BY <1>1, <1>4, SameNow DEF TypeInv, CaptureTypes, AtMostOne
<1> QED
  BY <1>1, <1>5, Kept DEF TypeInv

LEMMA SendSnapshotTypes == ASSUME TypeInv, SendSnapshot PROVE TypeInv'
<1>1. UNCHANGED <<lastSeq, held, future, health, missing, tasks, op, sealed, refused, open, asks, keyEpoch, row,
                  r2c, log, ownAt, graphEpoch, snap, floor, told, drops>>
  BY DEF SendSnapshot, relay, bounds
<1> DEFINE c == captured[1]
           m == [t |-> "snapshot", through |-> c.through, holds |-> c.holds, epoch |-> keyEpoch]
<1>2. c \in CapturesNow
  BY DEF SendSnapshot, TypeInv, CaptureTypes, AtMostOne
<1>3. m \in RequestsNow
  BY <1>2 DEF CapturesNow, RequestsNow, UploadsNow, TypeInv, EpochTypes
<1>4. captured' = <<>> /\ pending' = <<c>> /\ c2r' = Append(c2r, m)
  BY DEF SendSnapshot, AsCaptured
<1> HIDE DEF c, m
<1>5. CaptureTypes'
  BY <1>1, <1>2, <1>4, SameNow DEF CaptureTypes, AtMostOne
<1>6. c2r' \in Seq(RequestsNow)
  BY <1>3, <1>4, AppendProperties DEF TypeInv, SocketTypes
<1>7. SocketTypes'
  BY <1>1, <1>6, SameNow DEF TypeInv, SocketTypes
<1> QED
  BY <1>1, <1>5, <1>7, Kept DEF TypeInv

LEMMA ReadBackTypes == ASSUME TypeInv, ReadBack PROVE TypeInv'
<1>1. UNCHANGED <<lastSeq, held, future, health, missing, tasks, op, sealed, refused, captured, open, asks, keyEpoch, row,
                  c2r, r2c, log, ownAt, graphEpoch, floor, told, drops>>
  BY DEF ReadBack, session, bounds
<1>2. snap' = [snap EXCEPT !.verified = TRUE] /\ pending' = <<>>
  BY DEF ReadBack
<1>3. CaptureTypes' /\ SnapTypes'
  BY <1>1, <1>2, SameNow DEF TypeInv, CaptureTypes, SnapTypes, AtMostOne, Epochs, Seqs
<1> QED
  BY <1>1, <1>3, Kept DEF TypeInv

LEMMA PeerRotatesTypes == ASSUME TypeInv, PeerRotates PROVE TypeInv'
<1>1. UNCHANGED <<lastSeq, held, future, health, missing, tasks, op, sealed, refused, captured, pending, open, asks, keyEpoch,
                  row, c2r, r2c, log, ownAt, snap, floor, told, drops>>
  BY DEF PeerRotates, engine, session, bounds
<1>2. EpochTypes'
  BY <1>1, Limits DEF PeerRotates, TypeInv, EpochTypes, Epochs
<1> QED
  BY <1>1, <1>2, Kept DEF TypeInv

LEMMA PeerSnapshotsTypes == ASSUME TypeInv, PeerSnapshots PROVE TypeInv'
<1>1. UNCHANGED <<lastSeq, held, future, health, missing, tasks, op, sealed, refused, captured, pending, open, asks, keyEpoch,
                  row, c2r, r2c, log, ownAt, graphEpoch, floor, told, drops>>
  BY DEF PeerSnapshots, engine, session
<1>2. PICK read \in BOOLEAN :
         snap' = [through |-> Len(log), epoch |-> graphEpoch, holds |-> 1..Len(log), verified |-> read]
  BY DEF PeerSnapshots
<1>3. Len(log) \in UpTo /\ 1..Len(log) \in SUBSET Seqs /\ Len(log) > snap.through /\ Len(log) \in Nat
  BY Lengths DEF PeerSnapshots, TypeInv, UpTo, Stored
<1>4. graphEpoch \in Epochs /\ floor \in 0..snap.through /\ snap.through \in Nat
  BY DEF TypeInv, EpochTypes, SnapTypes, UpTo
<1>5. snap' \in [through: UpTo, epoch: Epochs, holds: SUBSET Seqs, verified: BOOLEAN]
  BY <1>2, <1>3, <1>4
<1>6. snap'.through = Len(log)
  BY <1>2
<1>7. floor' \in 0..snap'.through
  BY <1>1, <1>3, <1>4, <1>6
<1>8. SnapTypes'
  BY <1>1, <1>5, <1>7, SameNow DEF SnapTypes, Epochs, Seqs
<1> QED
  BY <1>1, <1>8, Kept DEF TypeInv

LEMMA PruneTypes == ASSUME TypeInv, Prune PROVE TypeInv'
<1>1. UNCHANGED <<lastSeq, held, future, health, missing, tasks, op, sealed, refused, captured, pending, open, asks, keyEpoch,
                  row, c2r, r2c, log, ownAt, graphEpoch, snap, told, drops>>
  BY DEF Prune, engine, session, bounds
<1>2. floor' = snap.through /\ snap.through \in Nat
  BY DEF Prune, TypeInv, SnapTypes, UpTo
<1>3. SnapTypes'
  BY <1>1, <1>2, SameNow DEF TypeInv, SnapTypes, Epochs, Seqs
<1> QED
  BY <1>1, <1>3, Kept DEF TypeInv

-----------------------------------------------------------------------------
(* The relay answers, and its log grows.                                   *)

LEMMA Grown ==
    ASSUME TypeInv, NEW e \in Epochs, log' = Append(log, e), Len(log) < MaxLog,
           ownAt' = ownAt \/ \E n : ownAt' = [ownAt EXCEPT ![n] = Len(log')]
    PROVE  /\ LogTypes' /\ Len(log') = Len(log) + 1 /\ Len(log) \in Nat
           /\ Stored \subseteq Stored' /\ UpTo \subseteq UpTo' /\ Delivered \subseteq Delivered'
           /\ Len(log') \in Stored' /\ AsksNow \subseteq AsksNow'
<1>1. log' \in Seq(Epochs) /\ Len(log') = Len(log) + 1 /\ Len(log) \in Nat
  BY AppendProperties, LenProperties DEF TypeInv, LogTypes
<1>2. Stored \subseteq Stored' /\ UpTo \subseteq UpTo' /\ Len(log') \in Stored'
  BY <1>1 DEF Stored, UpTo
<1>3. ownAt' \in [1..MaxOwn -> UpTo']
  BY <1>1, <1>2 DEF TypeInv, LogTypes, UpTo
<1>4. Delivered \subseteq Delivered'
  <2>1. ASSUME NEW n \in 1..MaxOwn, ownAt[n] # 0 PROVE ownAt'[n] # 0
    <3>1. CASE ownAt' = ownAt
      BY <2>1, <3>1
    <3>2. ASSUME NEW k, ownAt' = [ownAt EXCEPT ![k] = Len(log')] PROVE ownAt'[n] # 0
      <4>1. ownAt'[n] = IF n = k THEN Len(log') ELSE ownAt[n]
        BY <3>2 DEF TypeInv, LogTypes
      <4> QED
        BY <1>1, <2>1, <4>1
    <3> QED
      BY <3>1, <3>2
  <2> QED
    BY <2>1 DEF Delivered
<1>5. AsksNow \subseteq AsksNow'
  BY <1>1 DEF AsksNow, None
<1>6. LogTypes'
  <2>1. Len(log') <= MaxLog
    BY <1>1, Limits
  <2> QED
    BY <1>1, <1>3, <2>1 DEF LogTypes, Epochs
<1> QED
  BY <1>1, <1>2, <1>4, <1>5, <1>6

LEMMA GrownKeeps ==
    ASSUME TypeInv, LogTypes', Stored \subseteq Stored', UpTo \subseteq UpTo', Delivered \subseteq Delivered',
           AsksNow \subseteq AsksNow', UNCHANGED <<engine, open, drops, asks, keyEpoch, row, told, graphEpoch, snap, floor>>
    PROVE  /\ DocTypes' /\ HealthTypes' /\ FutureTypes' /\ TaskTypes' /\ AskTypes' /\ CaptureTypes'
           /\ SnapTypes' /\ EpochTypes'
           /\ Seq(RequestsNow) \subseteq Seq(RequestsNow') /\ Seq(AnswersNow) \subseteq Seq(AnswersNow')
<1>1. (Delivered \cup {op}) \ {0} \subseteq (Delivered' \cup {op'}) \ {0}
  BY DEF engine
<1>2. /\ Seq(TasksNow) \subseteq Seq(TasksNow') /\ AtMostOne(CapturesNow) \subseteq AtMostOne(CapturesNow')
      /\ Seq(RequestsNow) \subseteq Seq(RequestsNow') /\ Seq(AnswersNow) \subseteq Seq(AnswersNow')
  BY <1>1, WiderNow
<1>3. UNCHANGED <<lastSeq, held, future, health, missing, tasks, captured, pending>>
  BY DEF engine
<1>4. TaskTypes' /\ CaptureTypes' /\ AskTypes'
  BY <1>2, <1>3 DEF TypeInv, TaskTypes, CaptureTypes, AskTypes
<1>5. DocTypes' /\ HealthTypes' /\ FutureTypes'
  BY <1>3 DEF TypeInv, DocTypes, HealthTypes, FutureTypes, Seqs
<1>6. SnapTypes' /\ EpochTypes'
  BY DEF TypeInv, SnapTypes, EpochTypes, Epochs, Seqs
<1> QED
  BY <1>2, <1>4, <1>5, <1>6

LEMMA PeerAppendsTypes == ASSUME TypeInv, PeerAppends PROVE TypeInv'
<1>1. /\ log' = Append(log, graphEpoch) /\ graphEpoch \in Epochs /\ Len(log) \in Nat
      /\ UNCHANGED <<engine, open, drops, asks, keyEpoch, row, c2r, ownAt, graphEpoch, snap, floor, told>>
  BY LenProperties DEF PeerAppends, TypeInv, EpochTypes, LogTypes, bounds
<1>2. Len(log) < MaxLog /\ (op # 0 /\ ownAt[op] = 0 => Len(log) + 1 < MaxLog)
  BY <1>1, Limits DEF PeerAppends, Room
<1>3. /\ LogTypes' /\ Len(log') = Len(log) + 1
      /\ Stored \subseteq Stored' /\ UpTo \subseteq UpTo' /\ Delivered \subseteq Delivered'
      /\ Len(log') \in Stored' /\ AsksNow \subseteq AsksNow'
  BY <1>1, <1>2, Grown
<1>4. /\ DocTypes' /\ HealthTypes' /\ FutureTypes' /\ TaskTypes' /\ AskTypes' /\ CaptureTypes'
      /\ SnapTypes' /\ EpochTypes'
      /\ Seq(RequestsNow) \subseteq Seq(RequestsNow') /\ Seq(AnswersNow) \subseteq Seq(AnswersNow')
  BY <1>1, <1>3, GrownKeeps
<1>5. OwnTypes'
  <2>1. UNCHANGED <<op, sealed, refused>>
    BY <1>1 DEF engine
  <2> QED
    BY <1>1, <1>2, <1>3, <2>1 DEF TypeInv, OwnTypes, Epochs
<1>6. SocketTypes'
  <2>1. [t |-> "update", seq |-> Len(log')] \in AnswersNow'
    BY <1>3 DEF AnswersNow, UpdatesNow
  <2>2. r2c \in Seq(AnswersNow') /\ c2r' \in Seq(RequestsNow')
    BY <1>1, <1>4 DEF TypeInv, SocketTypes
  <2>3. r2c' = r2c \/ r2c' = Append(r2c, [t |-> "update", seq |-> Len(log')])
    BY DEF PeerAppends
  <2>4. r2c' \in Seq(AnswersNow')
    <3> DEFINE m == [t |-> "update", seq |-> Len(log')]
    <3>1. m \in AnswersNow' /\ (r2c' = r2c \/ r2c' = Append(r2c, m))
      BY <2>1, <2>3
    <3> HIDE DEF m
    <3> QED
      BY <2>2, <3>1, AppendProperties
  <2> QED
    BY <1>1, <2>2, <2>4 DEF TypeInv, SocketTypes
<1> QED
  BY <1>3, <1>4, <1>5, <1>6 DEF TypeInv

LEMMA NextRequest ==
    ASSUME SocketTypes, c2r # <<>>
    PROVE  /\ Tail(c2r) \in Seq(RequestsNow)
           /\ Head(c2r).t = "catchup" => Head(c2r) \in CatchupsNow
           /\ Head(c2r).t = "append" => Head(c2r) \in AppendsNow
           /\ Head(c2r).t = "snapshot" => Head(c2r) \in UploadsNow
<1>1. Head(c2r) \in RequestsNow /\ Tail(c2r) \in Seq(RequestsNow)
  BY HeadTailProperties DEF SocketTypes
<1> QED
  BY <1>1 DEF RequestsNow, CatchupsNow, AppendsNow, UploadsNow

LEMMA PageTyped ==
    ASSUME TypeInv, NEW after \in UpTo
    PROVE  Page(after) \in PagesNow
<1> DEFINE base == IF FromSnapshot(after) THEN snap.through ELSE after
           last == IF base + PageRows < Len(log) THEN base + PageRows ELSE Len(log)
           size == IF last > base THEN last - base ELSE 0
           rows == [i \in 1..size |-> UpdateAt(base + i)]
           shot == [seq |-> snap.through, epoch |-> snap.epoch, snap |-> TRUE, holds |-> snap.holds]
           snaps == IF FromSnapshot(after) THEN <<shot>> ELSE <<>>
<1>1. Len(log) \in Nat /\ PageRows \in Nat
  BY LenProperties, Limits DEF TypeInv, LogTypes
<1>2. base \in UpTo
  BY DEF TypeInv, SnapTypes
<1> HIDE DEF base
<1>3. last \in UpTo /\ base \in Nat
  BY <1>1, <1>2 DEF UpTo
<1> HIDE DEF last
<1>4. size \in Nat /\ \A i \in 1..size : base + i \in Stored
  BY <1>1, <1>3 DEF UpTo, Stored
<1> HIDE DEF size
<1>5. rows \in Seq(EnvelopesNow)
  <2>1. \A i \in 1..size : UpdateAt(base + i) \in EnvelopesNow
    BY <1>4, UpdateTyped DEF TypeInv
  <2> QED
    BY <1>4, <2>1
<1>6. snaps \in AtMostOne(EnvelopesNow)
  <2>1. FromSnapshot(after) => shot \in EnvelopesNow
    <3>1. FromSnapshot(after) => snap.through \in Stored /\ snap.through \in Seqs
      BY Lengths DEF FromSnapshot, TypeInv, SnapTypes, UpTo, Stored
    <3> QED
      BY <3>1 DEF EnvelopesNow, Envelope, TypeInv, SnapTypes
  <2> QED
    BY <2>1 DEF AtMostOne
<1>7. Page(after) = [t |-> "page", more |-> last < Len(log), last |-> last, rows |-> rows, snap |-> snaps]
  BY DEF Page, base, last, size
<1>8. (last < Len(log)) \in BOOLEAN
  OBVIOUS
<1> HIDE DEF rows, snaps
<1> QED
  BY <1>3, <1>5, <1>6, <1>7, <1>8 DEF PagesNow

LEMMA RelayTakesTypes == ASSUME TypeInv, RelayTakes PROVE TypeInv'
<1> DEFINE m == Head(c2r)
<1>1. Tail(c2r) \in Seq(RequestsNow) /\ c2r' = Tail(c2r)
  BY NextRequest DEF RelayTakes, TypeInv
<1>2. UNCHANGED <<engine, lastSeq, held, future, health, missing, tasks, op, sealed, refused, captured, pending, open,
                  asks, keyEpoch, row, told, drops>>
  BY DEF RelayTakes, engine, bounds
<1>3. ASSUME NEW a \in AnswersNow, Answer(a), UNCHANGED relay
      PROVE  TypeInv'
  <2>1. UNCHANGED <<log, ownAt, graphEpoch, snap, floor>>
    BY <1>3 DEF relay
  <2>2. r2c' \in Seq(AnswersNow)
    BY <1>3, AppendProperties DEF Answer, TypeInv, SocketTypes
  <2>3. SocketTypes'
    BY <1>1, <1>2, <2>1, <2>2, SameNow DEF TypeInv, SocketTypes
  <2> QED
    BY <1>2, <2>1, <2>3, Kept DEF TypeInv
<1>4. CASE m.t = "catchup" /\ Answer(Page(m.after)) /\ UNCHANGED relay
  <2>1. m.after \in UpTo
    BY <1>4, NextRequest DEF RelayTakes, TypeInv, CatchupsNow
  <2>2. Page(m.after) \in AnswersNow
    BY <2>1, PageTyped DEF AnswersNow
  <2> QED
    BY <1>3, <1>4, <2>2
<1>5. m.t = "append" => m \in AppendsNow /\ m.n \in 1..MaxOwn /\ (ownAt[m.n] # 0 => m.n \in Delivered)
  <2>1. m.t = "append" => m \in AppendsNow
    BY NextRequest DEF RelayTakes, TypeInv
  <2>2. m \in AppendsNow => m.n \in 1..MaxOwn
    BY DEF AppendsNow, Delivered, TypeInv, OwnTypes
  <2> QED
    BY <2>1, <2>2 DEF Delivered
<1>6. CASE m.t = "append" /\ ownAt[m.n] # 0 /\ Answer([t |-> "ack", n |-> m.n, seq |-> ownAt[m.n]]) /\ UNCHANGED relay
  <2>1. m.n \in Delivered /\ ownAt[m.n] \in Stored
    BY <1>5, <1>6 DEF TypeInv, LogTypes, UpTo, Stored
  <2>2. [t |-> "ack", n |-> m.n, seq |-> ownAt[m.n]] \in AnswersNow
    BY <2>1 DEF AnswersNow, ReceiptsNow
  <2> QED
    BY <1>3, <1>6, <2>2
<1>7. CASE m.t = "append" /\ Answer([t |-> "stale_epoch", n |-> m.n]) /\ UNCHANGED relay
  <2>1. [t |-> "stale_epoch", n |-> m.n] \in AnswersNow
    BY <1>5, <1>7 DEF AnswersNow, StalesNow
  <2> QED
    BY <1>3, <1>7, <2>1
<1>8. CASE /\ m.t = "append" /\ ownAt[m.n] = 0 /\ m.epoch = graphEpoch
           /\ log' = Append(log, m.epoch)
           /\ ownAt' = [ownAt EXCEPT ![m.n] = Len(log')]
           /\ Answer([t |-> "ack", n |-> m.n, seq |-> Len(log')])
           /\ UNCHANGED <<graphEpoch, snap, floor>>
  <2>1. m.n = op /\ op # 0 /\ m.epoch \in Epochs
    BY <1>5, <1>8 DEF AppendsNow, Delivered
  <2>2. Len(log) < MaxLog
    BY <1>8, <2>1 DEF TypeInv, OwnTypes
  <2>3. ownAt' = [ownAt EXCEPT ![op] = Len(log')]
    BY <1>8, <2>1
  <2>4. /\ LogTypes' /\ Len(log') = Len(log) + 1 /\ Len(log) \in Nat
        /\ Stored \subseteq Stored' /\ UpTo \subseteq UpTo' /\ Delivered \subseteq Delivered'
        /\ Len(log') \in Stored' /\ AsksNow \subseteq AsksNow'
    BY <1>8, <2>1, <2>2, <2>3, Grown
  <2>5. /\ DocTypes' /\ HealthTypes' /\ FutureTypes' /\ TaskTypes' /\ AskTypes' /\ CaptureTypes'
        /\ SnapTypes' /\ EpochTypes'
        /\ Seq(RequestsNow) \subseteq Seq(RequestsNow') /\ Seq(AnswersNow) \subseteq Seq(AnswersNow')
    BY <1>2, <1>8, <2>4, GrownKeeps
  <2>6. op \in 1..MaxOwn /\ ownAt'[op] = Len(log') /\ Len(log') # 0
    BY <1>5, <1>8, <2>1, <2>3, <2>4 DEF TypeInv, LogTypes
  <2>7. OwnTypes'
    BY <1>2, <2>6 DEF TypeInv, OwnTypes, Epochs
  <2>8. SocketTypes'
    <3>1. op \in Delivered'
      BY <1>2, <2>6 DEF Delivered
    <3>2. [t |-> "ack", n |-> op, seq |-> Len(log')] \in AnswersNow'
      BY <2>4, <3>1 DEF AnswersNow, ReceiptsNow
    <3>3. r2c \in Seq(AnswersNow') /\ c2r' \in Seq(RequestsNow')
      BY <1>1, <2>5 DEF TypeInv, SocketTypes
    <3>4. r2c' = Append(r2c, [t |-> "ack", n |-> op, seq |-> Len(log')])
      BY <1>8, <2>1 DEF Answer
    <3>5. r2c' \in Seq(AnswersNow')
      BY <3>2, <3>3, <3>4, AppendProperties
    <3> QED
      BY <1>2, <3>3, <3>5 DEF TypeInv, SocketTypes
  <2> QED
    BY <2>4, <2>5, <2>7, <2>8 DEF TypeInv
<1>9. CASE m.t = "snapshot" /\ snap' = Latest(m) /\ UNCHANGED <<log, ownAt, graphEpoch, floor, r2c>>
  <2>1. m \in UploadsNow
    BY <1>9, NextRequest DEF RelayTakes, TypeInv
  <2>2. m.through \in Stored /\ m.through \in UpTo /\ m.through \in Nat /\ m.epoch \in Epochs /\ m.holds \in SUBSET Seqs
    BY <2>1, Lengths DEF UploadsNow, TypeInv, Stored
  <2>3. snap \in [through: UpTo, epoch: Epochs, holds: SUBSET Seqs, verified: BOOLEAN] /\ floor \in 0..snap.through
    BY DEF TypeInv, SnapTypes
  <2>4. floor \in Nat
    BY <2>3 DEF UpTo
  <2>5. m.through < floor => SnapTypes'
    BY <1>9, <2>3, SameNow DEF Latest, SnapTypes, Epochs, Seqs
  <2> HIDE DEF m
  <2>6. ASSUME ~(m.through < floor) PROVE SnapTypes'
    <3>1. snap' = [through |-> m.through, epoch |-> m.epoch, holds |-> m.holds, verified |-> FALSE]
      BY <1>9, <2>6 DEF Latest, m
    <3>2. snap' \in [through: UpTo, epoch: Epochs, holds: SUBSET Seqs, verified: BOOLEAN]
      BY <2>2, <3>1
    <3>3. snap'.through = m.through
      BY <3>1
    <3>4. floor \in 0..snap'.through
      BY <2>2, <2>4, <2>6, <3>3
    <3> QED
      BY <1>9, <3>2, <3>4, SameNow DEF SnapTypes, Epochs, Seqs
  <2>7. SnapTypes'
    BY <2>5, <2>6
  <2>8. SocketTypes'
    BY <1>1, <1>2, <1>9, SameNow DEF TypeInv, SocketTypes
  <2> QED
    BY <1>2, <1>9, <2>7, <2>8, Kept DEF TypeInv
<1> QED
  BY <1>4, <1>6, <1>7, <1>8, <1>9 DEF RelayTakes, TakeCatchup, TakeAppend, TakeSnapshot

-----------------------------------------------------------------------------

LEMMA InitTypes == Init => TypeInv
<1> SUFFICES ASSUME Init PROVE TypeInv
  OBVIOUS
<1>1. log = <<>> /\ Len(log) = 0 /\ log \in Seq(Epochs)
  BY DEF Init
<1>2. UpTo = {0}
  BY <1>1 DEF UpTo
<1>3. LogTypes /\ OwnTypes
  <2>1. ownAt \in [1..MaxOwn -> UpTo]
    BY <1>2 DEF Init
  <2>2. Len(log) <= MaxLog
    BY <1>1, Limits
  <2>3. op = 0 /\ sealed = 1 /\ refused = FALSE
    BY DEF Init
  <2>4. OwnTypes
    <3>1. op \in 0..MaxOwn /\ sealed \in Epochs
      BY <2>3, Limits
    <3> QED
      BY <2>3, <3>1 DEF OwnTypes
  <2> QED
    BY <1>1, <2>1, <2>2, <2>4 DEF LogTypes
<1>4. DocTypes /\ HealthTypes /\ SnapTypes /\ EpochTypes /\ CaptureTypes
  BY <1>2, Limits DEF Init, DocTypes, HealthTypes, SnapTypes, EpochTypes, CaptureTypes, AtMostOne
<1>5. FutureTypes
  BY FS_EmptySet, Limits DEF Init, FutureTypes
<1>6. <<>> \in Seq(TasksNow) /\ <<>> \in Seq(RequestsNow) /\ <<>> \in Seq(AnswersNow)
  OBVIOUS
<1>7. TaskTypes /\ SocketTypes
  <2>1. tasks = <<>> /\ c2r = <<>> /\ r2c = <<>> /\ open = FALSE /\ drops = 0
    BY DEF Init
  <2>2. drops \in 0..MaxDrops
    BY <2>1, Limits
  <2> QED
    BY <1>6, <2>1, <2>2 DEF TaskTypes, SocketTypes
<1>8. AskTypes
  BY <1>1 DEF Init, AskTypes, AsksNow, None
<1> QED
  BY <1>3, <1>4, <1>5, <1>7, <1>8 DEF TypeInv

LEMMA StutterTypes == ASSUME TypeInv, UNCHANGED vars PROVE TypeInv'
<1>1. UNCHANGED <<lastSeq, held, future, health, missing, tasks, op, sealed, refused, captured, pending, open, asks, keyEpoch,
                  row, c2r, r2c, log, ownAt, graphEpoch, snap, floor, told, drops>>
  BY DEF vars, engine, session, relay, bounds
<1> QED
  BY <1>1, Kept DEF TypeInv

LEMMA StepTypes == TypeInv /\ [Next]_vars => TypeInv'
<1> SUFFICES ASSUME TypeInv, [Next]_vars PROVE TypeInv'
  OBVIOUS
<1>1. CASE Device
  <2>1. CASE Calls
    BY <2>1, TakeEnvelopeTypes, OpenedTypes, EndUpdateTypes, EndPageTypes, AckCommittedTypes DEF Calls
  <2> QED
    BY <1>1, <2>1, OnUpdateTypes, OnPageTypes, OnAckTypes, OnStaleEpochTypes DEF Device
<1>2. CASE Connect \/ RelayTakes \/ KeysChanged \/ Edit \/ Drop \/ Restart
  BY <1>2, ConnectTypes, RelayTakesTypes, KeysChangedTypes, EditTypes, DropTypes, RestartTypes
<1>3. CASE CaptureSnapshot \/ SendSnapshot \/ ReadBack \/ PeerAppends \/ PeerRotates \/ PeerSnapshots \/ Prune
  BY <1>3, CaptureSnapshotTypes, SendSnapshotTypes, ReadBackTypes, PeerAppendsTypes, PeerRotatesTypes,
     PeerSnapshotsTypes, PruneTypes
<1>4. CASE UNCHANGED vars
  BY <1>4, StutterTypes
<1> QED
  BY <1>1, <1>2, <1>3, <1>4 DEF Next

LEMMA TypesFollow == TypeInv => TypeOK
<1> SUFFICES ASSUME TypeInv PROVE TypeOK
  OBVIOUS
<1>1. Stored \subseteq Seqs /\ UpTo \subseteq 0..MaxLog /\ Len(log) \in 0..MaxLog
  BY Lengths DEF TypeInv
<1>2. {lastSeq, row.seq, told, snap.through, floor} \subseteq 0..MaxLog /\ floor <= snap.through
  <2>1. lastSeq \in UpTo /\ told \in UpTo /\ row.seq \in UpTo /\ snap.through \in UpTo
    BY DEF TypeInv, DocTypes, SnapTypes
  <2>2. floor \in 0..snap.through /\ snap.through \in 0..MaxLog
    BY <1>1, <2>1 DEF TypeInv, SnapTypes
  <2>3. floor \in 0..MaxLog /\ floor <= snap.through
    BY <2>2, Limits
  <2> QED
    BY <1>1, <2>1, <2>3
<1>3. {held, future, row.holds, snap.holds} \subseteq SUBSET Seqs /\ Cardinality(future) <= FutureLimit
  BY <1>1 DEF TypeInv, DocTypes, SnapTypes, FutureTypes
<1>4. tasks \in Seq(Task)
  <2>1. EnvelopesNow \subseteq Envelope
    BY DEF EnvelopesNow
  <2>2. Seq(EnvelopesNow) \subseteq Seq(Envelope) /\ AtMostOne(EnvelopesNow) \subseteq Seq(EnvelopesNow)
    BY <2>1, WiderSeq, OneIsSeq
  <2>3. CallsNow \subseteq Task
    BY <2>2 DEF CallsNow, Task
  <2>4. AcksNow \subseteq Task
    BY <1>1 DEF AcksNow, Task, Delivered
  <2>5. TasksNow \subseteq Task
    BY <2>3, <2>4 DEF TasksNow
  <2> QED
    BY <2>5, WiderSeq DEF TypeInv, TaskTypes
<1>5. {asks.fly, asks.again, asks.wait} \subseteq None..MaxLog
  <2>1. None..Len(log) \subseteq None..MaxLog
    BY <1>1, Limits DEF None
  <2> QED
    BY <2>1 DEF TypeInv, AskTypes, AsksNow
<1>6. /\ health \in {"healthy", "sequence-gap", "key-unavailable"}
      /\ missing \in 0..MaxEpoch /\ {keyEpoch, graphEpoch, sealed} \subseteq Epochs
      /\ op \in 0..MaxOwn /\ refused \in BOOLEAN /\ open \in BOOLEAN
      /\ log \in Seq(Epochs) /\ Len(log) <= MaxLog
  BY DEF TypeInv, HealthTypes, EpochTypes, OwnTypes, SocketTypes, LogTypes
<1> QED
  BY <1>2, <1>3, <1>4, <1>5, <1>6 DEF TypeOK

\* The inductive invariant of the types: everything in flight, in the engine, on the socket or in
\* the row names updates the log has, an acknowledgement answers an operation the relay has
\* stored, and the log has room for the one that it has not.
THEOREM CatchupInvariant == Spec => []TypeInv
<1>1. Init => TypeInv
  BY InitTypes
<1>2. TypeInv /\ [Next]_vars => TypeInv'
  BY StepTypes
<1> QED
  BY <1>1, <1>2, PTL DEF Spec

\* Every variable of the catch-up keeps its type: an update held for a gap is one of the log, no
\* more of them are held than FutureLimit, and the relay prunes no further than its snapshot.
THEOREM CatchupTypeCorrect == Spec => []TypeOK
<1>1. TypeInv => TypeOK
  BY TypesFollow
<1> QED
  BY <1>1, CatchupInvariant, PTL

-----------------------------------------------------------------------------
(* What the watermark stands for.                                          *)

\* No snapshots: what the device has came as updates.
Plain == OwnSnaps = 0 /\ PeerSnaps = 0

\* Snapshots, with nothing edited or captured while one is opened, one key, and no tab killed.
Calm == Undisturbed /\ MaxEpoch = 1 /\ MaxRestarts = 0

\* Updates as they are stored.
Updates == {e \in Envelope : ~e.snap /\ e.seq \in e.holds}

\* The snapshots being opened.
Opening(k)    == k.t # "ack" /\ k.opening # <<>>
SnapCalls     == {k \in Range(tasks) : Opening(k) /\ k.opening[1].snap}

\* What the document contains, or will when the snapshots being opened are applied.
Covered == held \cup UNION {k.opening[1].holds : k \in SnapCalls}

\* What a call brings continues what the document contains.
Continues(k, h) ==
    /\ k.todo \in Seq(Updates)
    /\ k.opening # <<>> => k.opening[1].seq \in k.opening[1].holds /\ 1..(k.opening[1].seq - 1) \subseteq h

CoveredInv ==
    /\ 1..lastSeq \subseteq Covered
    /\ \A k \in Range(tasks) : k.t # "ack" => Continues(k, Covered)

\* Every snapshot, wherever it is, contains all it stands for.
WholeInv ==
    /\ {restarts, ownSnaps, peerSnaps} \subseteq Nat
    /\ \A c \in Range(captured) \cup Range(pending) : 1..c.through \subseteq c.holds
    /\ \A m \in Range(c2r) : m.t = "snapshot" => 1..m.through \subseteq m.holds
    /\ 1..snap.through \subseteq snap.holds
    /\ \A m \in Range(r2c) : m.t = "page" =>
           m.rows \in Seq(Updates) /\ \A s \in Range(m.snap) : s.snap /\ 1..s.seq \subseteq s.holds

\* An acknowledgement saves no more than the document contains; a call opens no snapshot.
IsPlain(k, h) ==
    IF k.t = "ack" THEN 1..k.mark \subseteq h \cup {k.seq} ELSE k.opening # <<>> => ~k.opening[1].snap

\* Without snapshots the row is as honest as the document.
RowInv ==
    /\ captured = <<>> /\ pending = <<>> /\ snap.through = 0
    /\ \A m \in Range(c2r) : m.t # "snapshot"
    /\ \A m \in Range(r2c) : m.t = "page" => m.snap = <<>>
    /\ \A k \in Range(tasks) : IsPlain(k, held)
    /\ 1..row.seq \subseteq row.holds

-----------------------------------------------------------------------------
(* What a step adds to a sequence.                                         *)

LEMMA Added ==
    ASSUME NEW S, NEW s \in Seq(S), NEW x \in S
    PROVE  Range(Append(s, x)) = Range(s) \cup {x}
<1>1. /\ Len(s) \in Nat /\ DOMAIN s = 1..Len(s)
      /\ DOMAIN Append(s, x) = 1..(Len(s) + 1)
      /\ \A i \in 1..Len(s) : Append(s, x)[i] = s[i]
      /\ Append(s, x)[Len(s) + 1] = x
  BY AppendProperties, LenProperties
<1> QED
  BY <1>1 DEF Range

LEMMA Shortened ==
    ASSUME NEW S, NEW s \in Seq(S), s # <<>>
    PROVE  Range(Tail(s)) \subseteq Range(s) /\ Head(s) \in Range(s)
<1>1. /\ Len(s) \in Nat /\ DOMAIN s = 1..Len(s) /\ Len(s) # 0
      /\ DOMAIN Tail(s) = 1..(Len(s) - 1)
      /\ \A i \in 1..(Len(s) - 1) : Tail(s)[i] = s[i + 1]
  BY HeadTailProperties, LenProperties, EmptySeq
<1>2. \A i \in 1..(Len(s) - 1) : i + 1 \in 1..Len(s)
  BY <1>1
<1>3. Head(s) = s[1] /\ 1 \in 1..Len(s)
  BY <1>1
<1> QED
  BY <1>1, <1>2, <1>3 DEF Range

LEMMA Joined ==
    ASSUME NEW S, NEW s \in Seq(S), NEW t \in Seq(S)
    PROVE  Range(s \o t) \subseteq Range(s) \cup Range(t)
<1>1. /\ Len(s) \in Nat /\ DOMAIN s = 1..Len(s) /\ Len(t) \in Nat /\ DOMAIN t = 1..Len(t)
      /\ DOMAIN (s \o t) = 1..(Len(s) + Len(t))
      /\ \A i \in 1..(Len(s) + Len(t)) : (s \o t)[i] = IF i <= Len(s) THEN s[i] ELSE t[i - Len(s)]
  BY ConcatProperties, LenProperties
<1>2. ASSUME NEW i \in 1..(Len(s) + Len(t)) PROVE (s \o t)[i] \in Range(s) \cup Range(t)
  <2>1. CASE i <= Len(s)
    BY <1>1, <2>1 DEF Range
  <2>2. CASE ~(i <= Len(s))
    <3>1. i - Len(s) \in 1..Len(t)
      BY <1>1, <2>2
    <3> QED
      BY <1>1, <2>2, <3>1 DEF Range
  <2> QED
    BY <2>1, <2>2
<1> QED
  BY <1>1, <1>2 DEF Range

LEMMA Members ==
    ASSUME NEW S, NEW s \in Seq(S)
    PROVE  Range(s) \subseteq S /\ DOMAIN s = 1..Len(s) /\ Range(<<>>) = {} /\ \A x \in S : Range(<<x>>) = {x}
<1>1. DOMAIN s = 1..Len(s) /\ \A i \in 1..Len(s) : s[i] \in S
  BY LenProperties
<1>2. Range(<<>>) = {} /\ \A x : Range(<<x>>) = {x}
  BY DEF Range
<1> QED
  BY <1>1, <1>2 DEF Range

LEMMA PutMembers ==
    ASSUME TypeInv, NEW i \in 0..Len(tasks), NEW k \in TasksNow, PutTask(i, k)
    PROVE  /\ Range(tasks') \subseteq Range(tasks) \cup {k} /\ k \in Range(tasks')
           /\ \A x \in Range(tasks) : x \in Range(tasks') \/ (i # 0 /\ x = tasks[i])
<1>1. tasks \in Seq(TasksNow) /\ Len(tasks) \in Nat /\ DOMAIN tasks = 1..Len(tasks)
  BY LenProperties DEF TypeInv, TaskTypes
<1>2. CASE i = 0
  <2>1. tasks' = Append(tasks, k)
    BY <1>2 DEF PutTask, NewTask
  <2>2. Range(tasks') = Range(tasks) \cup {k}
    BY <1>1, <2>1, Added
  <2> QED
    BY <2>2
<1>3. CASE i # 0
  <2>1. tasks' = [tasks EXCEPT ![i] = k] /\ i \in 1..Len(tasks)
    BY <1>1, <1>3 DEF PutTask, SetTask
  <2>2. DOMAIN tasks' = 1..Len(tasks) /\ \A j \in 1..Len(tasks) : tasks'[j] = IF j = i THEN k ELSE tasks[j]
    BY <1>1, <2>1
  <2> QED
    BY <1>1, <1>3, <2>1, <2>2 DEF Range
<1> QED
  BY <1>2, <1>3

LEMMA EndMembers ==
    ASSUME TypeInv, NEW i \in DOMAIN tasks, EndTask(i)
    PROVE  /\ Range(tasks') \subseteq Range(tasks)
           /\ \A x \in Range(tasks) : x \in Range(tasks') \/ x = tasks[i]
<1>1. tasks \in Seq(TasksNow) /\ Len(tasks) \in Nat /\ DOMAIN tasks = 1..Len(tasks)
  BY LenProperties DEF TypeInv, TaskTypes
<1>2. /\ tasks' \in Seq(TasksNow) /\ Len(tasks') = Len(tasks) - 1
      /\ \A j \in 1..(Len(tasks) - 1) : tasks'[j] = IF j < i THEN tasks[j] ELSE tasks[j + 1]
  BY <1>1, Removed DEF EndTask
<1>3. DOMAIN tasks' = 1..(Len(tasks) - 1)
  BY <1>2, LenProperties
<1>4. Range(tasks') \subseteq Range(tasks)
  <2>1. ASSUME NEW j \in 1..(Len(tasks) - 1) PROVE tasks'[j] \in Range(tasks)
    <3>1. j \in 1..Len(tasks) /\ j + 1 \in 1..Len(tasks)
      BY <1>1
    <3> QED
      BY <1>1, <1>2, <3>1 DEF Range
  <2> QED
    BY <1>3, <2>1 DEF Range
<1>5. ASSUME NEW j \in 1..Len(tasks), j # i PROVE tasks[j] \in Range(tasks')
  <2>1. CASE j < i
    <3>1. j \in 1..(Len(tasks) - 1) /\ tasks'[j] = tasks[j]
      BY <1>1, <1>2, <2>1
    <3> QED
      BY <1>3, <3>1 DEF Range
  <2>2. CASE ~(j < i)
    <3>1. j - 1 \in 1..(Len(tasks) - 1) /\ ~(j - 1 < i) /\ (j - 1) + 1 = j
      BY <1>1, <1>5, <2>2
    <3>2. tasks'[j - 1] = tasks[j]
      BY <1>2, <3>1
    <3> QED
      BY <1>3, <3>1, <3>2 DEF Range
  <2> QED
    BY <2>1, <2>2
<1> QED
  BY <1>1, <1>4, <1>5 DEF Range

LEMMA RequestsAsk ==
    ASSUME NEW q, NEW r
    PROVE  \A m \in Range(Requests(q, r)) : m.t = "catchup"
BY DEF Requests, Range

-----------------------------------------------------------------------------
(* What is on the socket after a step.                                     *)

\* No snapshot is sent, and no page is answered.
NoUpload == \A m \in Range(c2r') : m \in Range(c2r) \/ m.t # "snapshot"
NoPage   == \A m \in Range(r2c') : m \in Range(r2c) \/ m.t # "page"

LEMMA AskUploadsNone ==
    ASSUME TypeInv, NEW after \in UpTo, RequestCatchup(after)
    PROVE  NoUpload
<1>1. asks' \in AsksNow
  BY AskStep DEF TypeInv
<1>2. Requests(asks, asks') \in Seq(RequestsNow) /\ c2r \in Seq(RequestsNow)
  BY <1>1, RequestsTyped DEF TypeInv, SocketTypes
<1>3. Range(c2r') \subseteq Range(c2r) \cup Range(Requests(asks, asks'))
  BY <1>2, Joined DEF RequestCatchup
<1> QED
  BY <1>3, RequestsAsk DEF NoUpload

LEMMA TakeUploadsNone ==
    ASSUME TypeInv, NEW k, NEW i, Take(k, i)
    PROVE  NoUpload
<1>1. lastSeq \in UpTo
  BY DEF TypeInv, DocTypes
<1>2. UNCHANGED c2r => NoUpload
  BY DEF NoUpload
<1>3. Gap(Head(k.todo)) => NoUpload
  BY <1>1, <1>2, AskUploadsNone DEF Gap
<1> QED
  BY <1>2, <1>3 DEF Take

LEMMA AnswerTaken ==
    ASSUME TypeInv, r2c # <<>>, r2c' = Tail(r2c)
    PROVE  NoPage /\ Head(r2c) \in Range(r2c)
BY Shortened DEF TypeInv, SocketTypes, NoPage

LEMMA QuietCalls ==
    ASSUME TypeInv, NEW i \in DOMAIN tasks,
           TakeEnvelope(i) \/ Opened(i) \/ EndUpdate(i) \/ EndPage(i) \/ AckCommitted(i)
    PROVE  NoUpload /\ NoPage
<1>1. NoPage
  BY DEF NoPage, TakeEnvelope, Opened, EndUpdate, EndPage, AckCommitted, session
<1>2. UNCHANGED c2r => NoUpload
  BY DEF NoUpload
<1>3. TakeEnvelope(i) => NoUpload
  BY TakeUploadsNone DEF TakeEnvelope
<1>4. Opened(i) \/ EndUpdate(i) => NoUpload
  BY <1>2 DEF Opened, EndUpdate, session
<1>5. ASSUME EndPage(i) PROVE NoUpload
  <2> DEFINE from == IF OfThisSocket(tasks[i]) THEN [asks EXCEPT !.fly = None] ELSE asks
  <2>1. asks' \in AsksNow /\ c2r \in Seq(RequestsNow)
    BY <1>5, EndPageTypes, SameNow DEF TypeInv, AskTypes, SocketTypes, EndPage, relay
  <2>2. c2r' = c2r \o Requests(from, asks')
    BY <1>5 DEF EndPage
  <2>3. Requests(from, asks') \in Seq(RequestsNow)
    BY <2>1, RequestsTyped DEF TypeInv
  <2>4. Range(c2r') \subseteq Range(c2r) \cup Range(Requests(from, asks'))
    BY <2>1, <2>2, <2>3, Joined
  <2> HIDE DEF from
  <2> QED
    BY <2>4, RequestsAsk DEF NoUpload
<1>6. AckCommitted(i) => NoUpload
  <2>1. lastSeq \in UpTo
    BY DEF TypeInv, DocTypes
  <2> QED
    BY <1>2, <2>1, AskUploadsNone DEF AckCommitted
<1> QED
  BY <1>1, <1>3, <1>4, <1>5, <1>6

LEMMA QuietMessages ==
    ASSUME TypeInv, OnUpdate \/ OnPage \/ OnAck \/ OnStaleEpoch
    PROVE  NoUpload /\ NoPage
<1>1. NoPage
  BY AnswerTaken DEF OnUpdate, OnPage, OnAck, OnStaleEpoch
<1>2. UNCHANGED c2r => NoUpload
  BY DEF NoUpload
<1>3. OnUpdate \/ OnPage => NoUpload
  BY <1>2, TakeUploadsNone DEF OnUpdate, OnPage
<1>4. OnAck \/ OnStaleEpoch => NoUpload
  BY <1>2 DEF OnAck, OnStaleEpoch
<1> QED
  BY <1>1, <1>3, <1>4

LEMMA QuietKeys ==
    ASSUME TypeInv, KeysChanged
    PROVE  NoUpload /\ NoPage
<1> DEFINE resent == IF refused /\ open THEN <<AppendMsg(op, graphEpoch)>> ELSE <<>>
<1>1. NoPage
  BY DEF KeysChanged, NoPage
<1>2. resent \in Seq(RequestsNow) /\ c2r \in Seq(RequestsNow)
  <2>1. refused => <<AppendMsg(op, graphEpoch)>> \in Seq(RequestsNow)
    BY AppendTyped, OneIsSeq DEF TypeInv, OwnTypes, EpochTypes
  <2>2. <<>> \in Seq(RequestsNow)
    OBVIOUS
  <2> QED
    BY <2>1, <2>2 DEF TypeInv, SocketTypes
<1>3. \A m \in Range(resent) : m.t = "append"
  BY DEF Range, AppendMsg
<1>4. c2r' = c2r \o resent \/ c2r' = c2r \o resent \o Requests(asks, asks')
  BY DEF KeysChanged
<1> HIDE DEF resent
<1>5. asks' \in AsksNow
  BY KeysChangedTypes, SameNow DEF TypeInv, AskTypes, KeysChanged, relay
<1>6. Requests(asks, asks') \in Seq(RequestsNow) /\ c2r \o resent \in Seq(RequestsNow)
  BY <1>2, <1>5, RequestsTyped, Extended DEF TypeInv
<1>7. /\ Range(c2r \o resent) \subseteq Range(c2r) \cup Range(resent)
      /\ Range(c2r \o resent \o Requests(asks, asks')) \subseteq Range(c2r \o resent) \cup Range(Requests(asks, asks'))
  BY <1>2, <1>6, Joined
<1>8. NoUpload
  BY <1>3, <1>4, <1>7, RequestsAsk DEF NoUpload
<1> QED
  BY <1>1, <1>8

LEMMA QuietSocket ==
    ASSUME TypeInv, Connect \/ Drop \/ Restart
    PROVE  NoUpload /\ NoPage
<1>1. Drop \/ Restart => c2r' = <<>> /\ r2c' = <<>>
  BY DEF Drop, Restart
<1>2. Range(<<>>) = {}
  BY DEF Range
<1>3. ASSUME Connect PROVE NoUpload /\ NoPage
  <2> DEFINE ask   == <<[t |-> "catchup", after |-> lastSeq]>>
             again == IF op = 0 THEN <<>> ELSE <<AppendMsg(op, sealed)>>
  <2>1. ask \in Seq(RequestsNow) /\ again \in Seq(RequestsNow) /\ c2r \in Seq(RequestsNow)
    <3>1. [t |-> "catchup", after |-> lastSeq] \in RequestsNow
      BY Lengths DEF RequestsNow, CatchupsNow, TypeInv, DocTypes
    <3>2. ask \in Seq(RequestsNow)
      BY <3>1, OneIsSeq
    <3>3. op # 0 => <<AppendMsg(op, sealed)>> \in Seq(RequestsNow)
      BY AppendTyped, OneIsSeq DEF TypeInv, OwnTypes
    <3>4. <<>> \in Seq(RequestsNow)
      OBVIOUS
    <3> QED
      BY <3>2, <3>3, <3>4 DEF TypeInv, SocketTypes
  <2>2. \A m \in Range(ask) \cup Range(again) : m.t # "snapshot"
    BY DEF Range, AppendMsg
  <2>3. c2r' = c2r \o ask \o again
    BY <1>3 DEF Connect
  <2> HIDE DEF ask, again
  <2>4. c2r \o ask \in Seq(RequestsNow)
    BY <2>1, Extended
  <2>5. Range(c2r') \subseteq Range(c2r) \cup Range(ask) \cup Range(again)
    BY <2>1, <2>3, <2>4, Joined
  <2> QED
    BY <1>3, <2>2, <2>5 DEF Connect, NoUpload, NoPage
<1> QED
  BY <1>1, <1>2, <1>3 DEF NoUpload, NoPage

LEMMA QuietEdit ==
    ASSUME TypeInv, Edit
    PROVE  NoUpload /\ NoPage
<1>1. NoPage
  BY DEF Edit, NoPage
<1>2. c2r' = c2r \/ c2r' = Append(c2r, AppendMsg(op', keyEpoch))
  BY DEF Edit
<1>3. op' \in 1..MaxOwn /\ keyEpoch \in Epochs
  <2>1. op' = MadeSoFar + 1 /\ MadeSoFar < MaxOwn
    BY DEF Edit
  <2> QED
    BY <2>1, OwnMade, Limits DEF TypeInv, EpochTypes
<1> DEFINE S == RequestsNow \cup {AppendMsg(op', keyEpoch)}
<1>4. Seq(RequestsNow) \subseteq Seq(S)
  BY WiderSeq
<1>5. c2r \in Seq(S) /\ AppendMsg(op', keyEpoch) \in S
  BY <1>4 DEF TypeInv, SocketTypes
<1> HIDE DEF S
<1>6. Range(Append(c2r, AppendMsg(op', keyEpoch))) = Range(c2r) \cup {AppendMsg(op', keyEpoch)}
  BY <1>5, Added
<1>7. AppendMsg(op', keyEpoch).t = "append"
  BY DEF AppendMsg
<1>8. NoUpload
  BY <1>2, <1>6, <1>7 DEF NoUpload
<1> QED
  BY <1>1, <1>8

-----------------------------------------------------------------------------
(* Every snapshot contains what it stands for.                             *)

LEMMA NoneOpening ==
    ASSUME TypeInv, ~OpeningSnapshot
    PROVE  SnapCalls = {} /\ Covered = held
<1>1. ASSUME NEW k \in SnapCalls PROVE FALSE
  <2>1. PICK i \in DOMAIN tasks : k = tasks[i]
    BY <1>1 DEF SnapCalls, Range
  <2>2. k.t # "ack" /\ k.opening # <<>> /\ k.opening[1].snap
    BY <1>1 DEF SnapCalls, Opening
  <2>3. k.opening \in AtMostOne(EnvelopesNow)
    BY <2>1, <2>2, CallAt DEF TypeInv, CallsNow
  <2>4. 1 \in DOMAIN k.opening
    BY <2>2, <2>3 DEF AtMostOne
  <2> QED
    BY <2>1, <2>2, <2>4 DEF OpeningSnapshot
<1>2. SnapCalls = {}
  BY <1>1
<1> QED
  BY <1>2 DEF Covered

LEMMA WholeKept ==
    ASSUME WholeInv, NoUpload, NoPage, {restarts', ownSnaps', peerSnaps'} \subseteq Nat,
           Range(captured') \subseteq Range(captured), Range(pending') \subseteq Range(pending),
           snap'.through = snap.through, snap'.holds = snap.holds
    PROVE  WholeInv'
BY DEF WholeInv, NoUpload, NoPage, Updates, Envelope, Seqs, Epochs

LEMMA WholeDevice ==
    ASSUME TypeInv, WholeInv,
           Device \/ Connect \/ KeysChanged \/ Edit \/ Drop \/ Restart
    PROVE  WholeInv'
<1>1. NoUpload /\ NoPage
  <2>1. CASE Device
    BY <2>1, QuietMessages, QuietCalls DEF Device, Calls
  <2> QED
    BY <2>1, QuietSocket, QuietKeys, QuietEdit
<1>2. Range(<<>>) = {}
  BY DEF Range
<1>3. Range(captured') \subseteq Range(captured) /\ Range(pending') \subseteq Range(pending) /\ UNCHANGED snap
  <2>1. CASE Calls
    <3>1. PICK i \in DOMAIN tasks : TakeEnvelope(i) \/ Opened(i) \/ EndUpdate(i) \/ EndPage(i) \/ AckCommitted(i)
      BY <2>1 DEF Calls
    <3> QED
      BY <3>1 DEF TakeEnvelope, Opened, EndUpdate, EndPage, AckCommitted, relay
  <2>2. CASE OnUpdate \/ OnPage \/ OnAck \/ OnStaleEpoch
    BY <2>2 DEF OnUpdate, OnPage, OnAck, OnStaleEpoch, relay
  <2>3. CASE Connect \/ KeysChanged \/ Edit \/ Drop
    BY <2>3 DEF Connect, KeysChanged, Edit, Drop, engine, relay
  <2>4. CASE Restart
    BY <1>2, <2>4 DEF Restart, relay
  <2> QED
    BY <2>1, <2>2, <2>3, <2>4 DEF Device
<1>4. {restarts', ownSnaps', peerSnaps'} \subseteq Nat
  <2>1. {restarts, ownSnaps, peerSnaps} \subseteq Nat
    BY DEF WholeInv
  <2>2. UNCHANGED <<ownSnaps, peerSnaps>> /\ (restarts' = restarts \/ restarts' = restarts + 1)
    <3>1. CASE Calls
      <4>1. PICK i \in DOMAIN tasks : TakeEnvelope(i) \/ Opened(i) \/ EndUpdate(i) \/ EndPage(i) \/ AckCommitted(i)
        BY <3>1 DEF Calls
      <4> QED
        BY <4>1 DEF TakeEnvelope, Opened, EndUpdate, EndPage, AckCommitted, bounds
    <3>2. CASE OnUpdate \/ OnPage \/ OnAck \/ OnStaleEpoch
      BY <3>2 DEF OnUpdate, OnPage, OnAck, OnStaleEpoch, bounds
    <3>3. CASE Connect \/ KeysChanged \/ Edit \/ Drop \/ Restart
      BY <3>3 DEF Connect, KeysChanged, Edit, Drop, Restart, bounds
    <3> QED
      BY <3>1, <3>2, <3>3 DEF Device
  <2> QED
    BY <2>1, <2>2
<1> QED
  BY <1>1, <1>3, <1>4, WholeKept

LEMMA WholeCaptured ==
    ASSUME TypeInv, WholeInv, CaptureSnapshot, 1..lastSeq \subseteq held
    PROVE  WholeInv'
<1>1. captured' = <<[through |-> lastSeq, holds |-> held]>> /\ ownSnaps' = ownSnaps + 1
  BY DEF CaptureSnapshot
<1>2. UNCHANGED <<pending, c2r, r2c, snap, restarts, peerSnaps>>
  BY DEF CaptureSnapshot, session, relay
<1>3. \A c \in Range(captured') : c.through = lastSeq /\ c.holds = held
  BY <1>1 DEF Range
<1>4. \A c \in Range(captured') \cup Range(pending') : 1..c.through \subseteq c.holds
  BY <1>2, <1>3 DEF WholeInv
<1>5. {restarts', ownSnaps', peerSnaps'} \subseteq Nat
  BY <1>1, <1>2 DEF WholeInv
<1> QED
  BY <1>2, <1>4, <1>5 DEF WholeInv, Updates, Envelope, Seqs, Epochs

LEMMA WholeSent ==
    ASSUME TypeInv, WholeInv, SendSnapshot
    PROVE  WholeInv'
<1> DEFINE c == captured[1]
           m == [t |-> "snapshot", through |-> c.through, holds |-> c.holds, epoch |-> keyEpoch]
<1>1. captured' = <<>> /\ pending' = <<c>> /\ c2r' = Append(c2r, m)
  BY DEF SendSnapshot, AsCaptured
<1>2. c \in Range(captured) /\ c \in CapturesNow
  BY DEF SendSnapshot, TypeInv, CaptureTypes, AtMostOne, Range
<1>3. m \in RequestsNow
  BY <1>2 DEF CapturesNow, RequestsNow, UploadsNow, TypeInv, EpochTypes
<1>4. 1..c.through \subseteq c.holds
  BY <1>2 DEF WholeInv
<1>5. m.t = "snapshot" /\ m.through = c.through /\ m.holds = c.holds
  OBVIOUS
<1> HIDE DEF c, m
<1>6. Range(captured') = {} /\ Range(pending') = {c}
  BY <1>1 DEF Range
<1>7. Range(c2r') \subseteq Range(c2r) \cup {m}
  BY <1>1, <1>3, Added DEF TypeInv, SocketTypes
<1>8. \A x \in Range(c2r') : x.t = "snapshot" => 1..x.through \subseteq x.holds
  BY <1>4, <1>5, <1>7 DEF WholeInv
<1>9. UNCHANGED <<r2c, snap, restarts, ownSnaps, peerSnaps>>
  BY DEF SendSnapshot, relay, bounds
<1> QED
  BY <1>4, <1>6, <1>8, <1>9 DEF WholeInv, Updates, Envelope, Seqs, Epochs

LEMMA UpdateIsUpdate ==
    ASSUME LogTypes, NEW s \in Stored
    PROVE  UpdateAt(s) \in Updates
<1>1. UpdateAt(s) \in Envelope
  BY UpdateTyped DEF EnvelopesNow
<1> QED
  BY <1>1 DEF UpdateAt, Updates

LEMMA PageWhole ==
    ASSUME TypeInv, WholeInv, NEW after \in UpTo
    PROVE  /\ Page(after).rows \in Seq(Updates)
           /\ \A s \in Range(Page(after).snap) : s.snap /\ 1..s.seq \subseteq s.holds
<1> DEFINE base == IF FromSnapshot(after) THEN snap.through ELSE after
           last == IF base + PageRows < Len(log) THEN base + PageRows ELSE Len(log)
           size == IF last > base THEN last - base ELSE 0
           rows == [i \in 1..size |-> UpdateAt(base + i)]
           shot == [seq |-> snap.through, epoch |-> snap.epoch, snap |-> TRUE, holds |-> snap.holds]
           snaps == IF FromSnapshot(after) THEN <<shot>> ELSE <<>>
<1>1. Len(log) \in Nat /\ PageRows \in Nat
  BY LenProperties, Limits DEF TypeInv, LogTypes
<1>2. base \in UpTo
  BY DEF TypeInv, SnapTypes
<1>3. Page(after) = [t |-> "page", more |-> last < Len(log), last |-> last, rows |-> rows, snap |-> snaps]
  BY DEF Page
<1> HIDE DEF base
<1>4. last \in UpTo /\ base \in Nat
  BY <1>1, <1>2 DEF UpTo
<1> HIDE DEF last
<1>5. size \in Nat /\ \A i \in 1..size : base + i \in Stored
  BY <1>1, <1>4 DEF UpTo, Stored
<1> HIDE DEF size
<1>6. rows \in Seq(Updates)
  <2>1. \A i \in 1..size : UpdateAt(base + i) \in Updates
    BY <1>5, UpdateIsUpdate DEF TypeInv
  <2> QED
    BY <1>5, <2>1
<1>7. \A s \in Range(snaps) : s = shot
  BY DEF Range
<1>8. shot.snap /\ 1..shot.seq \subseteq shot.holds
  BY DEF WholeInv
<1>9. Page(after).rows = rows /\ Page(after).snap = snaps
  BY <1>3
<1> HIDE DEF rows, snaps, shot
<1> QED
  BY <1>6, <1>7, <1>8, <1>9

LEMMA WholeAnswered ==
    ASSUME TypeInv, WholeInv, RelayTakes
    PROVE  WholeInv'
<1> DEFINE m == Head(c2r)
<1>1. c2r' = Tail(c2r) /\ c2r # <<>> /\ UNCHANGED <<captured, pending, restarts, ownSnaps, peerSnaps>>
  BY DEF RelayTakes, engine, bounds
<1>2. Range(c2r') \subseteq Range(c2r) /\ m \in Range(c2r)
  BY <1>1, Shortened DEF TypeInv, SocketTypes
<1>3. NoUpload
  BY <1>2 DEF NoUpload
<1>4. ASSUME UNCHANGED snap, NEW a \in AnswersNow', r2c \in Seq(AnswersNow'), Answer(a),
             a.t = "page" => a.rows \in Seq(Updates) /\ \A s \in Range(a.snap) : s.snap /\ 1..s.seq \subseteq s.holds
      PROVE  WholeInv'
  <2>1. Range(r2c') = Range(r2c) \cup {a}
    BY <1>4, Added DEF Answer
  <2>2. \A x \in Range(r2c') : x.t = "page" =>
           x.rows \in Seq(Updates) /\ \A s \in Range(x.snap) : s.snap /\ 1..s.seq \subseteq s.holds
    BY <1>4, <2>1 DEF WholeInv
  <2> QED
    BY <1>1, <1>2, <1>4, <2>2 DEF WholeInv, Updates, Envelope, Seqs, Epochs
<1>5. r2c' \in Seq(AnswersNow') /\ r2c \in Seq(AnswersNow)
  BY RelayTakesTypes DEF TypeInv, SocketTypes
<1>6. CASE m.t = "catchup" /\ Answer(Page(m.after)) /\ UNCHANGED relay
  <2>1. m.after \in UpTo
    BY <1>6, NextRequest DEF RelayTakes, TypeInv, CatchupsNow
  <2>2. Page(m.after) \in PagesNow /\ UNCHANGED <<log, ownAt, snap>>
    BY <1>6, <2>1, PageTyped DEF relay
  <2>3. Page(m.after) \in AnswersNow' /\ r2c \in Seq(AnswersNow')
    BY <1>5, <2>2, SameNow DEF AnswersNow
  <2>4. /\ Page(m.after).rows \in Seq(Updates)
        /\ \A s \in Range(Page(m.after).snap) : s.snap /\ 1..s.seq \subseteq s.holds
    BY <2>1, PageWhole
  <2> QED
    BY <1>4, <1>6, <2>2, <2>3, <2>4
<1>7. ASSUME UNCHANGED snap, NEW a, a.t # "page", Answer(a)
      PROVE  WholeInv'
  <2> DEFINE S == AnswersNow \cup {a}
  <2>1. Seq(AnswersNow) \subseteq Seq(S)
    BY WiderSeq
  <2>2. r2c \in Seq(S) /\ a \in S
    BY <1>5, <2>1
  <2> HIDE DEF S
  <2>3. Range(r2c') = Range(r2c) \cup {a}
    BY <1>7, <2>2, Added DEF Answer
  <2>4. NoPage
    BY <1>7, <2>3 DEF NoPage
  <2>5. {restarts', ownSnaps', peerSnaps'} \subseteq Nat
    BY <1>1 DEF WholeInv
  <2> QED
    BY <1>1, <1>3, <1>7, <2>4, <2>5, WholeKept
<1>8. CASE m.t = "append"
  <2>1. UNCHANGED snap
    BY <1>8 DEF RelayTakes, TakeCatchup, TakeAppend, TakeSnapshot, relay
  <2>2. \E a : a.t # "page" /\ Answer(a)
    <3>1. \/ Answer([t |-> "ack", n |-> m.n, seq |-> ownAt[m.n]])
          \/ Answer([t |-> "stale_epoch", n |-> m.n])
          \/ Answer([t |-> "ack", n |-> m.n, seq |-> Len(log')])
      BY <1>8 DEF RelayTakes, TakeCatchup, TakeAppend, TakeSnapshot
    <3>2. /\ [t |-> "ack", n |-> m.n, seq |-> ownAt[m.n]].t # "page"
          /\ [t |-> "stale_epoch", n |-> m.n].t # "page"
          /\ [t |-> "ack", n |-> m.n, seq |-> Len(log')].t # "page"
      OBVIOUS
    <3> QED
      BY <3>1, <3>2, Zenon
  <2> QED
    BY <1>7, <2>1, <2>2
<1>9. CASE m.t = "snapshot" /\ snap' = Latest(m) /\ UNCHANGED r2c
  <2>1. 1..m.through \subseteq m.holds
    BY <1>2, <1>9 DEF WholeInv
  <2>2. 1..snap.through \subseteq snap.holds
    BY DEF WholeInv
  <2> HIDE DEF m
  <2>3. 1..snap'.through \subseteq snap'.holds
    BY <1>9, <2>1, <2>2 DEF Latest
  <2> QED
    BY <1>1, <1>2, <1>9, <2>3 DEF WholeInv, Updates, Envelope, Seqs, Epochs
<1> QED
  BY <1>6, <1>8, <1>9 DEF RelayTakes, TakeCatchup, TakeAppend, TakeSnapshot

LEMMA WholeRelay ==
    ASSUME TypeInv, WholeInv, ReadBack \/ PeerAppends \/ PeerRotates \/ PeerSnapshots \/ Prune
    PROVE  WholeInv'
<1>1. Range(<<>>) = {}
  BY DEF Range
<1>2. CASE ReadBack \/ PeerRotates \/ Prune
  <2>1. /\ UNCHANGED <<c2r, r2c, restarts, ownSnaps, peerSnaps, captured>>
        /\ pending' = pending \/ pending' = <<>>
    BY <1>2 DEF ReadBack, PeerRotates, Prune, engine, session, bounds
  <2>2. snap'.through = snap.through /\ snap'.holds = snap.holds
    BY <1>2 DEF ReadBack, PeerRotates, Prune, TypeInv, SnapTypes
  <2>3. NoUpload /\ NoPage /\ {restarts', ownSnaps', peerSnaps'} \subseteq Nat
    BY <2>1 DEF NoUpload, NoPage, WholeInv
  <2>4. Range(captured') \subseteq Range(captured) /\ Range(pending') \subseteq Range(pending)
    BY <1>1, <2>1
  <2> QED
    BY <2>2, <2>3, <2>4, WholeKept
<1>3. CASE PeerSnapshots
  <2>1. UNCHANGED <<c2r, r2c, captured, pending, restarts, ownSnaps>> /\ peerSnaps' = peerSnaps + 1
    BY <1>3 DEF PeerSnapshots, engine, session
  <2>2. \E read \in BOOLEAN :
          snap' = [through |-> Len(log), epoch |-> graphEpoch, holds |-> 1..Len(log), verified |-> read]
    BY <1>3 DEF PeerSnapshots
  <2>3. snap'.through = Len(log) /\ snap'.holds = 1..Len(log)
    BY <2>2
  <2>4. {restarts', ownSnaps', peerSnaps'} \subseteq Nat
    BY <2>1 DEF WholeInv
  <2> QED
    BY <2>1, <2>3, <2>4 DEF WholeInv, Updates, Envelope, Seqs, Epochs
<1>4. CASE PeerAppends
  <2>1. UNCHANGED <<c2r, captured, pending, snap, restarts, ownSnaps, peerSnaps>>
    BY <1>4 DEF PeerAppends, engine, bounds
  <2> DEFINE a == [t |-> "update", seq |-> Len(log')]
             S == AnswersNow \cup {a}
  <2>2. r2c' = r2c \/ r2c' = Append(r2c, a)
    BY <1>4 DEF PeerAppends
  <2>3. Seq(AnswersNow) \subseteq Seq(S) /\ a \in S /\ a.t # "page"
    BY WiderSeq
  <2>4. r2c \in Seq(S)
    BY <2>3 DEF TypeInv, SocketTypes
  <2> HIDE DEF a, S
  <2>5. Range(r2c') \subseteq Range(r2c) \cup {a}
    <3>1. Range(Append(r2c, a)) = Range(r2c) \cup {a}
      BY <2>3, <2>4, Added
    <3> QED
      BY <2>2, <3>1
  <2>6. NoPage /\ NoUpload /\ {restarts', ownSnaps', peerSnaps'} \subseteq Nat
    BY <2>1, <2>3, <2>5 DEF NoPage, NoUpload, WholeInv
  <2> QED
    BY <2>1, <2>6, WholeKept
<1> QED
  BY <1>2, <1>3, <1>4

LEMMA WholeInit == Init => WholeInv
<1>1. Range(<<>>) = {}
  BY DEF Range
<1>2. 1..0 = {}
  OBVIOUS
<1> QED
  BY <1>1, <1>2 DEF Init, WholeInv

LEMMA WholeStutter == ASSUME WholeInv, UNCHANGED vars PROVE WholeInv'
<1>1. UNCHANGED <<captured, pending, c2r, r2c, snap, restarts, ownSnaps, peerSnaps>>
  BY DEF vars, engine, session, relay, bounds
<1> QED
  BY <1>1 DEF WholeInv, Updates, Envelope, Seqs, Epochs

LEMMA WholeStep ==
    ASSUME TypeInv, WholeInv, [Next]_vars, CaptureSnapshot => 1..lastSeq \subseteq held
    PROVE  WholeInv'
BY WholeDevice, WholeCaptured, WholeSent, WholeAnswered, WholeRelay, WholeStutter DEF Next

-----------------------------------------------------------------------------
(* The watermark and the snapshots being opened.                           *)

LEMMA CoveredGrows ==
    ASSUME held \subseteq held',
           \A k \in SnapCalls : k \in Range(tasks') \/ k.opening[1].holds \subseteq held'
    PROVE  Covered \subseteq Covered'
<1>1. ASSUME NEW k \in SnapCalls PROVE k.opening[1].holds \subseteq Covered'
  <2>1. CASE k \in Range(tasks')
    BY <1>1, <2>1 DEF SnapCalls, Covered, Opening
  <2>2. CASE k.opening[1].holds \subseteq held'
    BY <2>2 DEF Covered
  <2> QED
    BY <1>1, <2>1, <2>2
<1> QED
  BY <1>1 DEF Covered

LEMMA CoveredStep ==
    ASSUME CoveredInv, Covered \subseteq Covered', 1..lastSeq' \subseteq Covered',
           \A k \in Range(tasks') : k.t # "ack" => k \in Range(tasks) \/ Continues(k, Covered')
    PROVE  CoveredInv'
<1>1. \A k : Continues(k, Covered) => Continues(k, Covered')
  BY DEF Continues
<1>2. \A k \in Range(tasks') : k.t # "ack" => Continues(k, Covered')
  BY <1>1 DEF CoveredInv
<1>3. Updates' = Updates
  BY DEF Updates, Envelope, Seqs, Epochs
<1> QED
  BY <1>2, <1>3 DEF CoveredInv, Continues

LEMMA CoveredKept ==
    ASSUME CoveredInv, UNCHANGED <<lastSeq, held>>, Range(tasks') \subseteq Range(tasks),
           \A k \in Range(tasks) : k \in Range(tasks') \/ ~Opening(k)
    PROVE  CoveredInv'
<1>1. Covered \subseteq Covered'
  BY CoveredGrows DEF SnapCalls
<1>2. 1..lastSeq' \subseteq Covered'
  BY <1>1 DEF CoveredInv
<1> QED
  BY <1>1, <1>2, CoveredStep

LEMMA Taken ==
    ASSUME NEW k \in CallsNow, k.todo \in Seq(Updates), k.todo # <<>>, k.opening = <<>>, NEW i, Take(k, i)
    PROVE  \E j \in CallsNow :
               /\ PutTask(i, j) /\ j.todo \in Seq(Updates) /\ j.t = k.t
               /\ j.opening # <<>> => j.opening[1] \in Updates /\ j.opening[1].seq = lastSeq + 1
<1> DEFINE e == Head(k.todo)
<1>1. e \in EnvelopesNow /\ Tail(k.todo) \in Seq(EnvelopesNow)
  BY CallTyped, HeadTailProperties
<1>2. e \in Updates /\ Tail(k.todo) \in Seq(Updates)
  BY HeadTailProperties
<1>3. /\ Rest(k) \in CallsNow /\ [Rest(k) EXCEPT !.applied = TRUE] \in CallsNow
      /\ [Rest(k) EXCEPT !.opening = <<e>>] \in CallsNow
  BY <1>1, CallTyped DEF Rest
<1> DEFINE j1 == Rest(k)
           j2 == [Rest(k) EXCEPT !.applied = TRUE]
           j3 == [Rest(k) EXCEPT !.opening = <<e>>]
<1>4. /\ j1.todo = Tail(k.todo) /\ j1.opening = <<>> /\ j1.t = k.t
      /\ j2.todo = Tail(k.todo) /\ j2.opening = <<>> /\ j2.t = k.t
      /\ j3.todo = Tail(k.todo) /\ j3.opening = <<e>> /\ j3.t = k.t
  BY DEF Rest, CallsNow
<1>5. \/ PutTask(i, j1) \/ PutTask(i, j2)
      \/ e.seq = lastSeq + 1 /\ PutTask(i, j3)
  BY DEF Take, Follows
<1>6. <<e>>[1] = e
  OBVIOUS
<1>7. j1 \in CallsNow /\ j2 \in CallsNow /\ j3 \in CallsNow
  BY <1>3
<1> HIDE DEF e, j1, j2, j3
<1>8. CASE PutTask(i, j1)
  BY <1>2, <1>4, <1>7, <1>8
<1>9. CASE PutTask(i, j2)
  BY <1>2, <1>4, <1>7, <1>9
<1>10. CASE e.seq = lastSeq + 1 /\ PutTask(i, j3)
  BY <1>2, <1>4, <1>6, <1>7, <1>10
<1> QED
  BY <1>5, <1>8, <1>9, <1>10

LEMMA TakeCovers ==
    ASSUME TypeInv, CoveredInv, NEW k \in CallsNow, k.todo \in Seq(Updates), k.todo # <<>>, k.opening = <<>>,
           NEW i \in 0..Len(tasks), i # 0 => tasks[i] = k, Take(k, i), UNCHANGED <<lastSeq, held>>
    PROVE  CoveredInv'
<1>1. PICK j \in CallsNow :
          /\ PutTask(i, j) /\ j.todo \in Seq(Updates)
          /\ j.opening # <<>> => j.opening[1] \in Updates /\ j.opening[1].seq = lastSeq + 1
  BY Taken
<1>2. /\ Range(tasks') \subseteq Range(tasks) \cup {j}
      /\ \A x \in Range(tasks) : x \in Range(tasks') \/ (i # 0 /\ x = tasks[i])
  BY <1>1, PutMembers DEF TasksNow
<1>3. \A x \in SnapCalls : x \in Range(tasks')
  BY <1>2 DEF SnapCalls, Opening
<1>4. Covered \subseteq Covered'
  BY <1>3, CoveredGrows
<1>5. 1..lastSeq \subseteq Covered' /\ 1..lastSeq' \subseteq Covered'
  BY <1>4 DEF CoveredInv
<1>6. Continues(j, Covered')
  <2>1. lastSeq \in Nat
    BY DEF TypeInv, DocTypes, UpTo
  <2>2. j.opening # <<>> => j.opening[1].seq \in j.opening[1].holds
    BY <1>1 DEF Updates
  <2>3. j.opening # <<>> => j.opening[1].seq - 1 = lastSeq
    BY <1>1, <2>1
  <2> QED
    BY <1>1, <1>5, <2>2, <2>3 DEF Continues
<1> QED
  BY <1>2, <1>4, <1>5, <1>6, CoveredStep

LEMMA CoveredUpdate == ASSUME TypeInv, CoveredInv, OnUpdate PROVE CoveredInv'
<1> DEFINE s == Head(r2c).seq
           k == Call("update", <<UpdateAt(s)>>, FALSE)
<1>1. s \in Stored
  BY NextAnswer DEF OnUpdate, TypeInv, UpdatesNow
<1>2. <<UpdateAt(s)>> \in Seq(EnvelopesNow) /\ <<UpdateAt(s)>> \in Seq(Updates)
  BY <1>1, UpdateTyped, UpdateIsUpdate, OneIsSeq DEF TypeInv
<1>3. Take(k, 0) /\ UNCHANGED <<lastSeq, held>>
  BY DEF OnUpdate
<1>4. k.todo = <<UpdateAt(s)>> /\ k.opening = <<>>
  BY DEF Call
<1>5. <<UpdateAt(s)>> # <<>> /\ "update" \in {"update", "page"} /\ FALSE \in BOOLEAN
  OBVIOUS
<1> HIDE DEF s
<1>6. k \in CallsNow
  BY <1>2, <1>5, NewCall, Zenon
<1>7. 0 \in 0..Len(tasks)
  BY LenProperties DEF TypeInv, TaskTypes
<1> HIDE DEF k
<1>8. k.todo \in Seq(Updates) /\ k.todo # <<>>
  BY <1>2, <1>4, <1>5
<1> QED
  BY <1>3, <1>4, <1>6, <1>7, <1>8, TakeCovers

LEMMA NewMembers ==
    ASSUME TypeInv, NEW k \in TasksNow, NewTask(k)
    PROVE  Range(tasks') = Range(tasks) \cup {k}
BY Added DEF NewTask, TypeInv, TaskTypes

LEMMA CoveredPage ==
    ASSUME TypeInv, WholeInv, CoveredInv, OnPage,
           \A e \in Epochs : e <= keyEpoch \/ Head(r2c).snap = <<>>
    PROVE  CoveredInv'
<1> DEFINE page == Head(r2c)
           call == Call("page", page.rows, page.more)
<1>1. page \in PagesNow /\ page \in Range(r2c) /\ page.t = "page"
  BY NextAnswer, Shortened DEF OnPage, TypeInv, SocketTypes
<1>2. /\ page.rows \in Seq(EnvelopesNow) /\ page.more \in BOOLEAN /\ page.snap \in AtMostOne(EnvelopesNow)
  BY <1>1 DEF PagesNow
<1>3. page.rows \in Seq(Updates) /\ \A s \in Range(page.snap) : s.snap /\ 1..s.seq \subseteq s.holds
  BY <1>1 DEF WholeInv
<1>4. UNCHANGED held
  BY DEF OnPage
<1>5. \/ page.snap = <<>> /\ NewTask(call) /\ UNCHANGED lastSeq
      \/ page.rows # <<>> /\ Take(call, 0) /\ UNCHANGED lastSeq
      \/ \E s \in Range(page.snap) :
           /\ lastSeq' = s.seq - 1
           /\ Unreadable(s) \/ NewTask([call EXCEPT !.opening = <<s>>])
  BY DEF OnPage, BeforeSnapshot
<1>6. \A s \in Range(page.snap) : s \in EnvelopesNow /\ page.snap # <<>>
  BY <1>2 DEF AtMostOne, Range
<1> HIDE DEF page
<1>7. "page" \in {"update", "page"}
  OBVIOUS
<1>8. /\ call \in CallsNow /\ call.todo = page.rows
      /\ \A e \in EnvelopesNow : [call EXCEPT !.opening = <<e>>] \in CallsNow
  BY <1>2, <1>7, NewCall, Zenon
<1>9. call.opening = <<>> /\ call.t = "page"
  BY DEF Call
<1>10. \A e : [call EXCEPT !.opening = <<e>>].opening = <<e>> /\ [call EXCEPT !.opening = <<e>>].todo = page.rows
              /\ [call EXCEPT !.opening = <<e>>].t = "page"
  BY DEF Call
<1> HIDE DEF call
<1>11. CASE page.snap = <<>> /\ NewTask(call) /\ UNCHANGED lastSeq
  <2>1. Range(tasks') = Range(tasks) \cup {call}
    BY <1>8, <1>11, NewMembers DEF TasksNow
  <2>2. Covered \subseteq Covered'
    BY <1>4, <2>1, CoveredGrows DEF SnapCalls
  <2>3. Continues(call, Covered')
    BY <1>3, <1>8, <1>9 DEF Continues
  <2>4. 1..lastSeq' \subseteq Covered'
    BY <1>11, <2>2 DEF CoveredInv
  <2> QED
    BY <2>1, <2>2, <2>3, <2>4, CoveredStep
<1>12. CASE page.rows # <<>> /\ Take(call, 0) /\ UNCHANGED lastSeq
  <2>1. 0 \in 0..Len(tasks)
    BY LenProperties DEF TypeInv, TaskTypes
  <2>2. call.todo \in Seq(Updates) /\ call.todo # <<>>
    BY <1>3, <1>8, <1>12
  <2> QED
    BY <1>4, <1>8, <1>9, <1>12, <2>1, <2>2, TakeCovers
<1>13. ASSUME NEW s \in Range(page.snap), lastSeq' = s.seq - 1,
              Unreadable(s) \/ NewTask([call EXCEPT !.opening = <<s>>])
       PROVE  CoveredInv'
  <2> DEFINE k == [call EXCEPT !.opening = <<s>>]
  <2>1. s.epoch \in Epochs /\ s.seq \in Seqs /\ keyEpoch \in Nat
    BY <1>6, <1>13 DEF EnvelopesNow, Envelope, TypeInv, EpochTypes, Epochs
  <2>2. ~Unreadable(s)
    <3>1. s.epoch <= keyEpoch
      BY <1>6, <1>13, <2>1 DEF page
    <3> QED
      BY <2>1, <3>1 DEF Unreadable, Epochs
  <2>3. k \in CallsNow /\ k.opening = <<s>> /\ k.todo = page.rows /\ k.t = "page"
    BY <1>6, <1>8, <1>10, <1>13
  <2>4. NewTask(k)
    BY <1>13, <2>2
  <2> HIDE DEF k
  <2>5. Range(tasks') = Range(tasks) \cup {k}
    BY <2>3, <2>4, NewMembers DEF TasksNow
  <2>6. Covered \subseteq Covered'
    BY <1>4, <2>5, CoveredGrows DEF SnapCalls
  <2>7. s.snap /\ 1..s.seq \subseteq s.holds
    BY <1>3, <1>13
  <2>8. s.holds \subseteq Covered'
    <3>1. k.opening # <<>> /\ k.opening[1] = s /\ k.t # "ack"
      BY <2>3
    <3>2. k \in SnapCalls'
      BY <2>5, <2>7, <3>1 DEF SnapCalls, Opening
    <3> QED
      BY <3>1, <3>2 DEF Covered
  <2>9. 1..(s.seq - 1) \subseteq Covered' /\ s.seq \in s.holds
    <3>1. 1..(s.seq - 1) \subseteq 1..s.seq /\ s.seq \in 1..s.seq
      BY <2>1 DEF Seqs
    <3> QED
      BY <2>7, <2>8, <3>1
  <2>10. Continues(k, Covered')
    BY <1>3, <2>3, <2>9 DEF Continues
  <2>11. 1..lastSeq' \subseteq Covered'
    BY <1>13, <2>9
  <2> QED
    BY <2>5, <2>6, <2>10, <2>11, CoveredStep
<1> QED
  BY <1>5, <1>11, <1>12, <1>13

LEMMA TaskMember ==
    ASSUME TypeInv, NEW i \in DOMAIN tasks
    PROVE  tasks[i] \in TasksNow /\ tasks[i] \in Range(tasks) /\ i \in 1..Len(tasks) /\ i \in 0..Len(tasks) /\ i # 0
<1>1. tasks \in Seq(TasksNow) /\ Len(tasks) \in Nat /\ DOMAIN tasks = 1..Len(tasks) /\ tasks[i] \in TasksNow
  BY LenProperties DEF TypeInv, TaskTypes
<1> QED
  BY <1>1 DEF Range

LEMMA CoveredTake == ASSUME TypeInv, CoveredInv, NEW i \in DOMAIN tasks, TakeEnvelope(i) PROVE CoveredInv'
<1>1. /\ tasks[i].t # "ack" /\ tasks[i].opening = <<>> /\ tasks[i].todo # <<>> /\ Take(tasks[i], i)
      /\ UNCHANGED <<lastSeq, held>>
  BY DEF TakeEnvelope
<1>2. tasks[i] \in CallsNow
  BY <1>1, CallAt DEF TypeInv
<1>3. tasks[i] \in Range(tasks) /\ i \in 0..Len(tasks)
  BY TaskMember
<1>4. tasks[i].todo \in Seq(Updates)
  BY <1>1, <1>3 DEF CoveredInv, Continues
<1> QED
  BY <1>1, <1>2, <1>3, <1>4, TakeCovers

LEMMA CoveredOpened == ASSUME TypeInv, CoveredInv, NEW i \in DOMAIN tasks, Opened(i) PROVE CoveredInv'
<1> DEFINE k == tasks[i]
           e == k.opening[1]
           seq == Larger(lastSeq, e.seq)
           todo == HeldAfter(seq) \o k.todo
           j == [k EXCEPT !.opening = <<>>, !.todo = todo, !.applied = TRUE]
<1>1. k \in CallsNow /\ k.opening # <<>> /\ k.t # "ack" /\ k \in Range(tasks) /\ i \in 0..Len(tasks) /\ i # 0
  BY CallAt, TaskMember DEF Opened, TypeInv
<1>2. e \in EnvelopesNow /\ e.seq \in Stored /\ e.seq \in UpTo /\ e.seq \in Nat
  BY <1>1, Lengths DEF CallsNow, AtMostOne, EnvelopesNow, TypeInv, Stored
<1>3. k.todo \in Seq(Updates) /\ e.seq \in e.holds /\ 1..(e.seq - 1) \subseteq Covered
  BY <1>1 DEF CoveredInv, Continues
<1>4. lastSeq \in Nat /\ seq \in UpTo
  <2>1. seq \in UpTo
    BY <1>2, Told
  <2>2. lastSeq \in Nat
    BY DEF TypeInv, DocTypes, UpTo
  <2> QED
    BY <2>1, <2>2
<1>5. todo \in Seq(Updates) /\ todo \in Seq(EnvelopesNow)
  <2>1. seq + 1 \in future => seq + 1 \in Stored
    BY DEF TypeInv, FutureTypes
  <2>2. seq + 1 \in future => <<UpdateAt(seq + 1)>> \in Seq(Updates) /\ <<UpdateAt(seq + 1)>> \in Seq(EnvelopesNow)
    BY <2>1, UpdateTyped, UpdateIsUpdate, OneIsSeq DEF TypeInv
  <2>3. <<>> \in Seq(Updates) /\ <<>> \in Seq(EnvelopesNow)
    OBVIOUS
  <2>4. HeldAfter(seq) \in Seq(Updates) /\ HeldAfter(seq) \in Seq(EnvelopesNow)
    BY <2>2, <2>3 DEF HeldAfter
  <2>5. k.todo \in Seq(EnvelopesNow)
    BY <1>1 DEF CallsNow
  <2> QED
    BY <1>3, <2>4, <2>5, Extended
<1>6. /\ lastSeq' = seq /\ held' = held \cup e.holds
      /\ tasks' = [tasks EXCEPT ![i] = [k EXCEPT !.opening = <<>>, !.todo = todo, !.applied = TRUE]]
  BY DEF Opened, SetTask
<1>7. seq = lastSeq \/ seq = e.seq
  BY DEF Larger
<1> HIDE DEF todo
<1>8. j \in CallsNow
  BY <1>1, <1>5, CallTyped
<1>9. j.opening = <<>> /\ j.todo = todo
  BY <1>1 DEF CallsNow
<1>10. PutTask(i, j)
  BY <1>1, <1>6 DEF PutTask, SetTask
<1> HIDE DEF j, seq, e
<1>11. /\ Range(tasks') \subseteq Range(tasks) \cup {j}
       /\ \A x \in Range(tasks) : x \in Range(tasks') \/ x = k
  BY <1>1, <1>8, <1>10, PutMembers DEF TasksNow
<1> HIDE DEF k
<1>12. Covered \subseteq Covered'
  <2>1. \A x \in SnapCalls : x \in Range(tasks') \/ x.opening[1].holds \subseteq held'
    BY <1>6, <1>11 DEF SnapCalls, e
  <2> QED
    BY <1>6, <2>1, CoveredGrows
<1>13. 1..lastSeq' \subseteq Covered'
  <2>1. 1..lastSeq \subseteq Covered'
    BY <1>12 DEF CoveredInv
  <2>2. 1..e.seq \subseteq Covered'
    <3>1. 1..e.seq = 1..(e.seq - 1) \cup {e.seq}
      BY <1>2 DEF Stored
    <3>2. e.seq \in Covered'
      BY <1>3, <1>6 DEF Covered
    <3> QED
      BY <1>3, <1>12, <3>1, <3>2
  <2> QED
    BY <1>6, <1>7, <2>1, <2>2
<1>14. Continues(j, Covered')
  BY <1>5, <1>9 DEF Continues
<1> QED
  BY <1>11, <1>12, <1>13, <1>14, CoveredStep

LEMMA CoveredAck ==
    ASSUME TypeInv, CoveredInv, OnAck
    PROVE  CoveredInv'
<1> DEFINE m == Head(r2c)
           k == [t |-> "ack", n |-> m.n, seq |-> m.seq, mark |-> AckedWatermark(m.seq)]
<1>1. (tasks' = tasks \/ tasks' = Append(tasks, k)) /\ UNCHANGED <<lastSeq, held>>
  BY DEF OnAck
<1>2. k \in TasksNow
  <2>1. m.n \in Delivered /\ m.seq \in Stored /\ m.seq \in UpTo
    BY NextAnswer, Lengths DEF OnAck, ReceiptsNow, TypeInv
  <2>2. AckedWatermark(m.seq) \in UpTo
    BY <2>1 DEF AckedWatermark, TypeInv, DocTypes
  <2> QED
    BY <2>1, <2>2 DEF TasksNow, AcksNow
<1>3. k.t = "ack"
  OBVIOUS
<1> HIDE DEF k
<1>4. Range(tasks) \subseteq Range(tasks') /\ Range(tasks') \subseteq Range(tasks) \cup {k}
  <2>1. Range(Append(tasks, k)) = Range(tasks) \cup {k}
    BY <1>2, Added DEF TypeInv, TaskTypes
  <2> QED
    BY <1>1, <2>1
<1>5. Covered \subseteq Covered'
  BY <1>1, <1>4, CoveredGrows DEF SnapCalls
<1>6. 1..lastSeq' \subseteq Covered'
  BY <1>1, <1>5 DEF CoveredInv
<1> QED
  BY <1>3, <1>4, <1>5, <1>6, CoveredStep

LEMMA CoveredCommitted ==
    ASSUME TypeInv, CoveredInv, NEW i \in DOMAIN tasks, AckCommitted(i)
    PROVE  CoveredInv'
<1> DEFINE k == tasks[i]
<1>1. /\ Range(tasks') \subseteq Range(tasks)
      /\ \A x \in Range(tasks) : x \in Range(tasks') \/ x = k
  BY EndMembers DEF AckCommitted
<1>2. k.t = "ack" /\ k.seq \in Stored
  BY AckAt DEF AckCommitted, TypeInv, AcksNow
<1>3. \/ UNCHANGED <<lastSeq, held>>
      \/ held' = held \cup {k.seq} /\ lastSeq' = AckedWatermark(k.seq)
  BY DEF AckCommitted
<1> HIDE DEF k
<1>4. held \subseteq held'
  BY <1>3
<1>5. Covered \subseteq Covered'
  BY <1>1, <1>2, <1>4, CoveredGrows DEF SnapCalls, Opening
<1>6. 1..lastSeq' \subseteq Covered'
  <2>1. 1..lastSeq \subseteq Covered'
    BY <1>5 DEF CoveredInv
  <2>2. CASE lastSeq' = lastSeq
    BY <2>1, <2>2
  <2>3. CASE held' = held \cup {k.seq} /\ k.seq = lastSeq + 1 /\ lastSeq' = k.seq
    <3>1. k.seq \in Covered'
      BY <2>3 DEF Covered
    <3>2. 1..lastSeq' = 1..lastSeq \cup {k.seq}
      BY <2>3 DEF TypeInv, DocTypes, UpTo
    <3> QED
      BY <2>1, <3>1, <3>2
  <2> QED
    BY <1>3, <2>2, <2>3 DEF AckedWatermark
<1> QED
  BY <1>1, <1>5, <1>6, CoveredStep

LEMMA CoveredEnds ==
    ASSUME TypeInv, CoveredInv, NEW i \in DOMAIN tasks, EndUpdate(i) \/ EndPage(i)
    PROVE  CoveredInv'
<1>1. /\ Range(tasks') \subseteq Range(tasks)
      /\ \A x \in Range(tasks) : x \in Range(tasks') \/ x = tasks[i]
  BY EndMembers DEF EndUpdate, EndPage
<1>2. UNCHANGED <<lastSeq, held>> /\ tasks[i].opening = <<>>
  BY DEF EndUpdate, EndPage
<1> QED
  BY <1>1, <1>2, CoveredKept DEF Opening

LEMMA CoveredElse ==
    ASSUME CoveredInv, UNCHANGED <<lastSeq, held, tasks>>
    PROVE  CoveredInv'
BY CoveredKept

LEMMA CoveredRestart ==
    ASSUME Restart, 1..row.seq \subseteq row.holds
    PROVE  CoveredInv'
<1>1. tasks' = <<>> /\ lastSeq' = row.seq /\ held' = row.holds
  BY DEF Restart
<1>2. Range(tasks') = {}
  BY <1>1 DEF Range
<1> QED
  BY <1>1, <1>2 DEF CoveredInv, Covered

LEMMA CoveredInit == Init => CoveredInv
<1>1. Range(<<>>) = {} /\ 1..0 = {}
  BY DEF Range
<1> QED
  BY <1>1 DEF Init, CoveredInv

LEMMA CoveredNext ==
    ASSUME TypeInv, WholeInv, CoveredInv, [Next]_vars,
           OnPage => \A e \in Epochs : e <= keyEpoch \/ Head(r2c).snap = <<>>,
           Restart => 1..row.seq \subseteq row.holds
    PROVE  CoveredInv'
<1>1. CASE Calls
  BY <1>1, CoveredTake, CoveredOpened, CoveredEnds, CoveredCommitted DEF Calls
<1>2. CASE OnUpdate \/ OnPage \/ OnAck
  BY <1>2, CoveredUpdate, CoveredPage, CoveredAck
<1>3. CASE Restart
  BY <1>3, CoveredRestart
<1>4. ASSUME OnStaleEpoch \/ Connect \/ RelayTakes \/ KeysChanged \/ Edit \/ Drop \/ CaptureSnapshot \/ SendSnapshot \/ ReadBack
             \/ PeerAppends \/ PeerRotates \/ PeerSnapshots \/ Prune \/ UNCHANGED vars
      PROVE  UNCHANGED <<lastSeq, held, tasks>>
  <2>1. CASE OnStaleEpoch \/ Connect \/ RelayTakes \/ KeysChanged \/ Edit
    BY <2>1 DEF OnStaleEpoch, Connect, RelayTakes, KeysChanged, Edit, engine
  <2>2. CASE Drop \/ CaptureSnapshot \/ SendSnapshot \/ ReadBack \/ PeerAppends
    BY <2>2 DEF Drop, CaptureSnapshot, SendSnapshot, ReadBack, PeerAppends, engine
  <2>3. CASE PeerRotates \/ PeerSnapshots \/ Prune \/ UNCHANGED vars
    BY <2>3 DEF PeerRotates, PeerSnapshots, Prune, vars, engine
  <2> QED
    BY <1>4, <2>1, <2>2, <2>3
<1> QED
  BY <1>1, <1>2, <1>3, <1>4, CoveredElse DEF Next, Device

-----------------------------------------------------------------------------
(* The row.                                                                *)

LEMMA PlainCovered == RowInv => Covered = held
<1> SUFFICES ASSUME RowInv PROVE SnapCalls = {}
  BY DEF Covered
<1> QED
  BY DEF RowInv, IsPlain, SnapCalls, Opening

\* No page carries a snapshot.
NoSnapAnswered == \A m \in Range(r2c') : m \in Range(r2c) \/ (m.t = "page" => m.snap = <<>>)

LEMMA RowStep ==
    ASSUME RowInv, NoUpload, NoSnapAnswered, captured' = <<>>, pending' = <<>>, snap'.through = 0, held \subseteq held',
           \A k \in Range(tasks') : k \in Range(tasks) \/ IsPlain(k, held'),
           1..row'.seq \subseteq row'.holds
    PROVE  RowInv'
<1>1. \A k : IsPlain(k, held) => IsPlain(k, held')
  BY DEF IsPlain
<1>2. \A k \in Range(tasks') : IsPlain(k, held')
  BY <1>1 DEF RowInv
<1>3. \A m \in Range(c2r') : m.t # "snapshot"
  BY DEF RowInv, NoUpload
<1>4. \A m \in Range(r2c') : m.t = "page" => m.snap = <<>>
  BY DEF RowInv, NoSnapAnswered
<1> QED
  BY <1>2, <1>3, <1>4 DEF RowInv, IsPlain

LEMMA SavedHonest ==
    ASSUME 1..row.seq \subseteq row.holds, NEW s, NEW h, Save(s, h), 1..s \subseteq h
    PROVE  1..row'.seq \subseteq row'.holds
<1>1. row'.seq = Larger(row.seq, s) /\ row'.holds = row.holds \cup h
  BY DEF Save
<1> QED
  BY <1>1 DEF Larger

LEMMA TakePlain ==
    ASSUME TypeInv, NEW k \in CallsNow, k.todo \in Seq(Updates), k.todo # <<>>, k.opening = <<>>, k.t # "ack",
           NEW i \in 0..Len(tasks), Take(k, i)
    PROVE  \A x \in Range(tasks') : x \in Range(tasks) \/ IsPlain(x, held')
<1>1. PICK j \in CallsNow :
          /\ PutTask(i, j) /\ j.t = k.t
          /\ j.opening # <<>> => j.opening[1] \in Updates
  BY Taken
<1>2. Range(tasks') \subseteq Range(tasks) \cup {j}
  BY <1>1, PutMembers DEF TasksNow
<1>3. IsPlain(j, held')
  BY <1>1 DEF IsPlain, Updates
<1> QED
  BY <1>2, <1>3

LEMMA RowMessages ==
    ASSUME TypeInv, WholeInv, CoveredInv, RowInv, OnUpdate \/ OnPage \/ OnAck \/ OnStaleEpoch
    PROVE  RowInv'
<1>1. NoUpload /\ NoSnapAnswered
  BY QuietMessages DEF NoPage, NoSnapAnswered
<1>2. UNCHANGED <<captured, pending, snap, held, row>>
  BY DEF OnUpdate, OnPage, OnAck, OnStaleEpoch, relay
<1>3. /\ captured' = <<>> /\ pending' = <<>> /\ snap'.through = 0 /\ held \subseteq held'
      /\ 1..row'.seq \subseteq row'.holds
  BY <1>2 DEF RowInv
<1>4. 0 \in 0..Len(tasks)
  BY LenProperties DEF TypeInv, TaskTypes
<1>5. OnUpdate => \A x \in Range(tasks') : x \in Range(tasks) \/ IsPlain(x, held')
  <2> SUFFICES ASSUME OnUpdate PROVE \A x \in Range(tasks') : x \in Range(tasks) \/ IsPlain(x, held')
    OBVIOUS
  <2> DEFINE s == Head(r2c).seq
             k == Call("update", <<UpdateAt(s)>>, FALSE)
  <2>1. s \in Stored
    BY NextAnswer DEF OnUpdate, TypeInv, UpdatesNow
  <2>2. <<UpdateAt(s)>> \in Seq(EnvelopesNow) /\ <<UpdateAt(s)>> \in Seq(Updates)
    BY <2>1, UpdateTyped, UpdateIsUpdate, OneIsSeq DEF TypeInv
  <2>3. Take(k, 0)
    BY DEF OnUpdate
  <2>4. k.todo = <<UpdateAt(s)>> /\ k.opening = <<>> /\ k.t = "update"
    BY DEF Call
  <2>5. <<UpdateAt(s)>> # <<>> /\ "update" \in {"update", "page"} /\ FALSE \in BOOLEAN
    OBVIOUS
  <2> HIDE DEF s
  <2>6. k \in CallsNow
    BY <2>2, <2>5, NewCall, Zenon
  <2> HIDE DEF k
  <2>7. k.todo \in Seq(Updates) /\ k.todo # <<>> /\ k.t # "ack"
    BY <2>2, <2>4, <2>5
  <2> QED
    BY <1>4, <2>3, <2>4, <2>6, <2>7, TakePlain
<1>6. OnPage => \A x \in Range(tasks') : x \in Range(tasks) \/ IsPlain(x, held')
  <2> SUFFICES ASSUME OnPage PROVE \A x \in Range(tasks') : x \in Range(tasks) \/ IsPlain(x, held')
    OBVIOUS
  <2> DEFINE page == Head(r2c)
             call == Call("page", page.rows, page.more)
  <2>1. page \in PagesNow /\ page \in Range(r2c) /\ page.t = "page"
    BY NextAnswer, Shortened DEF OnPage, TypeInv, SocketTypes
  <2>2. page.rows \in Seq(EnvelopesNow) /\ page.more \in BOOLEAN /\ page.rows \in Seq(Updates) /\ page.snap = <<>>
    BY <2>1 DEF PagesNow, WholeInv, RowInv
  <2>3. Range(<<>>) = {}
    BY DEF Range
  <2>4. NewTask(call) \/ (page.rows # <<>> /\ Take(call, 0))
    BY <2>2, <2>3 DEF OnPage
  <2> HIDE DEF page
  <2>5. "page" \in {"update", "page"}
    OBVIOUS
  <2>6. call \in CallsNow /\ call.todo = page.rows
    BY <2>2, <2>5, NewCall, Zenon
  <2>7. call.opening = <<>> /\ call.t = "page"
    BY DEF Call
  <2> HIDE DEF call
  <2>8. IsPlain(call, held')
    BY <2>7 DEF IsPlain
  <2>9. CASE NewTask(call)
    BY <2>6, <2>8, <2>9, NewMembers DEF TasksNow
  <2>10. CASE page.rows # <<>> /\ Take(call, 0)
    <3>1. call.todo \in Seq(Updates) /\ call.todo # <<>> /\ call.t # "ack"
      BY <2>2, <2>6, <2>7, <2>10
    <3> QED
      BY <1>4, <2>6, <2>7, <2>10, <3>1, TakePlain
  <2> QED
    BY <2>4, <2>9, <2>10
<1>7. OnAck => \A x \in Range(tasks') : x \in Range(tasks) \/ IsPlain(x, held')
  <2> SUFFICES ASSUME OnAck PROVE \A x \in Range(tasks') : x \in Range(tasks) \/ IsPlain(x, held')
    OBVIOUS
  <2> DEFINE m == Head(r2c)
             k == [t |-> "ack", n |-> m.n, seq |-> m.seq, mark |-> AckedWatermark(m.seq)]
  <2>1. tasks' = tasks \/ tasks' = Append(tasks, k)
    BY DEF OnAck
  <2>2. m.n \in Delivered /\ m.seq \in Stored /\ m.seq \in UpTo
    BY NextAnswer, Lengths DEF OnAck, ReceiptsNow, TypeInv
  <2>3. AckedWatermark(m.seq) \in UpTo
    BY <2>2 DEF AckedWatermark, TypeInv, DocTypes
  <2>4. k \in TasksNow
    BY <2>2, <2>3 DEF TasksNow, AcksNow
  <2>5. 1..lastSeq \subseteq held /\ lastSeq \in Nat
    BY PlainCovered DEF CoveredInv, TypeInv, DocTypes, UpTo
  <2>6. 1..AckedWatermark(m.seq) \subseteq held \cup {m.seq}
    <3>1. CASE m.seq = lastSeq + 1
      <4>1. 1..m.seq = 1..lastSeq \cup {m.seq}
        BY <2>5, <3>1
      <4> QED
        BY <2>5, <3>1, <4>1 DEF AckedWatermark
    <3>2. CASE m.seq # lastSeq + 1
      BY <2>5, <3>2 DEF AckedWatermark
    <3> QED
      BY <3>1, <3>2
  <2>7. k.t = "ack" /\ k.mark = AckedWatermark(m.seq) /\ k.seq = m.seq
    OBVIOUS
  <2> HIDE DEF k, m
  <2>8. IsPlain(k, held')
    BY <1>2, <2>6, <2>7 DEF IsPlain
  <2>9. Range(Append(tasks, k)) = Range(tasks) \cup {k}
    BY <2>4, Added DEF TypeInv, TaskTypes
  <2> QED
    BY <2>1, <2>8, <2>9
<1>8. OnStaleEpoch => \A x \in Range(tasks') : x \in Range(tasks)
  BY DEF OnStaleEpoch
<1> QED
  BY <1>1, <1>3, <1>5, <1>6, <1>7, <1>8, RowStep

LEMMA RowEnds ==
    ASSUME TypeInv, CoveredInv, RowInv, NEW i \in DOMAIN tasks, EndUpdate(i) \/ EndPage(i)
    PROVE  RowInv'
<1>1. NoUpload /\ NoSnapAnswered
  BY QuietCalls DEF NoPage, NoSnapAnswered
<1>2. UNCHANGED <<captured, pending, snap, held>> /\ (UNCHANGED row \/ Save(lastSeq, held))
  BY DEF EndUpdate, EndPage, relay
<1>3. 1..lastSeq \subseteq held
  BY PlainCovered DEF CoveredInv
<1>4. 1..row'.seq \subseteq row'.holds
  <2>1. 1..row.seq \subseteq row.holds
    BY DEF RowInv
  <2> QED
    BY <1>2, <1>3, <2>1, SavedHonest
<1>5. Range(tasks') \subseteq Range(tasks)
  BY EndMembers DEF EndUpdate, EndPage
<1>6. captured' = <<>> /\ pending' = <<>> /\ snap'.through = 0 /\ held \subseteq held'
  BY <1>2 DEF RowInv
<1> QED
  BY <1>1, <1>4, <1>5, <1>6, RowStep

LEMMA RowCommitted ==
    ASSUME TypeInv, RowInv, NEW i \in DOMAIN tasks, AckCommitted(i)
    PROVE  RowInv'
<1> DEFINE k == tasks[i]
<1>1. NoUpload /\ NoSnapAnswered
  BY QuietCalls DEF NoPage, NoSnapAnswered
<1>2. /\ UNCHANGED <<captured, pending, snap>>
      /\ UNCHANGED <<row, held>> \/ (Save(k.mark, held \cup {k.seq}) /\ held' = held \cup {k.seq})
  BY DEF AckCommitted, relay
<1>3. 1..k.mark \subseteq held \cup {k.seq}
  <2>1. k.t = "ack" /\ IsPlain(k, held)
    BY TaskMember DEF AckCommitted, RowInv
  <2> QED
    BY <2>1 DEF IsPlain
<1>4. 1..row'.seq \subseteq row'.holds
  <2>1. 1..row.seq \subseteq row.holds
    BY DEF RowInv
  <2> HIDE DEF k
  <2> QED
    BY <1>2, <1>3, <2>1, SavedHonest
<1>5. Range(tasks') \subseteq Range(tasks)
  BY EndMembers DEF AckCommitted
<1>6. captured' = <<>> /\ pending' = <<>> /\ snap'.through = 0 /\ held \subseteq held'
  BY <1>2 DEF RowInv
<1> QED
  BY <1>1, <1>4, <1>5, <1>6, RowStep

LEMMA RowOpens ==
    ASSUME TypeInv, CoveredInv, RowInv, NEW i \in DOMAIN tasks, TakeEnvelope(i) \/ Opened(i)
    PROVE  RowInv'
<1>1. NoUpload /\ NoSnapAnswered
  BY QuietCalls DEF NoPage, NoSnapAnswered
<1>2. UNCHANGED <<captured, pending, snap, row>> /\ held \subseteq held'
  BY DEF TakeEnvelope, Opened, relay, session
<1>3. captured' = <<>> /\ pending' = <<>> /\ snap'.through = 0 /\ 1..row'.seq \subseteq row'.holds
  BY <1>2 DEF RowInv
<1>4. tasks[i] \in CallsNow /\ tasks[i].t # "ack" /\ tasks[i] \in Range(tasks) /\ i \in 0..Len(tasks) /\ i # 0
  BY CallAt, TaskMember DEF TakeEnvelope, Opened, TypeInv
<1>5. TakeEnvelope(i) => \A x \in Range(tasks') : x \in Range(tasks) \/ IsPlain(x, held')
  <2> SUFFICES ASSUME TakeEnvelope(i) PROVE \A x \in Range(tasks') : x \in Range(tasks) \/ IsPlain(x, held')
    OBVIOUS
  <2>1. Take(tasks[i], i) /\ tasks[i].opening = <<>> /\ tasks[i].todo # <<>>
    BY DEF TakeEnvelope
  <2>2. tasks[i].todo \in Seq(Updates)
    BY <1>4 DEF CoveredInv, Continues
  <2> QED
    BY <1>4, <2>1, <2>2, TakePlain
<1>6. Opened(i) => \A x \in Range(tasks') : x \in Range(tasks) \/ IsPlain(x, held')
  <2> SUFFICES ASSUME Opened(i) PROVE \A x \in Range(tasks') : x \in Range(tasks) \/ IsPlain(x, held')
    OBVIOUS
  <2> DEFINE k == tasks[i]
             seq == Larger(lastSeq, k.opening[1].seq)
             j == [k EXCEPT !.opening = <<>>, !.todo = HeldAfter(seq) \o k.todo, !.applied = TRUE]
  <2>1. tasks' = [tasks EXCEPT ![i] = j]
    BY DEF Opened, SetTask
  <2>2. j.t = k.t /\ j.opening = <<>>
    BY <1>4 DEF CallsNow
  <2> HIDE DEF j
  <2>3. IsPlain(j, held')
    BY <1>4, <2>2 DEF IsPlain
  <2>4. DOMAIN tasks' = DOMAIN tasks /\ \A x \in DOMAIN tasks : tasks'[x] = tasks[x] \/ tasks'[x] = j
    BY <2>1 DEF TypeInv, TaskTypes
  <2> QED
    BY <2>3, <2>4 DEF Range
<1> QED
  BY <1>1, <1>2, <1>3, <1>5, <1>6, RowStep

LEMMA RowDevice ==
    ASSUME TypeInv, CoveredInv, RowInv, Connect \/ Drop \/ KeysChanged \/ Edit
    PROVE  RowInv'
<1>1. NoUpload /\ NoSnapAnswered
  BY QuietSocket, QuietKeys, QuietEdit DEF NoPage, NoSnapAnswered
<1>2. UNCHANGED <<captured, pending, snap, held, tasks>> /\ (UNCHANGED row \/ Save(lastSeq, held))
  BY DEF Connect, Drop, KeysChanged, Edit, engine, relay
<1>3. 1..lastSeq \subseteq held
  BY PlainCovered DEF CoveredInv
<1>4. 1..row'.seq \subseteq row'.holds
  <2>1. 1..row.seq \subseteq row.holds
    BY DEF RowInv
  <2> QED
    BY <1>2, <1>3, <2>1, SavedHonest
<1>5. captured' = <<>> /\ pending' = <<>> /\ snap'.through = 0 /\ held \subseteq held' /\ tasks' = tasks
  BY <1>2 DEF RowInv
<1> QED
  BY <1>1, <1>4, <1>5, RowStep

LEMMA RowRestart ==
    ASSUME RowInv, Restart
    PROVE  RowInv'
<1>1. /\ captured' = <<>> /\ pending' = <<>> /\ tasks' = <<>> /\ c2r' = <<>> /\ r2c' = <<>>
      /\ UNCHANGED <<snap, row>>
  BY DEF Restart, relay
<1>2. Range(<<>>) = {}
  BY DEF Range
<1> QED
  BY <1>1, <1>2 DEF RowInv

LEMMA RowAnswered ==
    ASSUME TypeInv, RowInv, RelayTakes
    PROVE  RowInv'
<1> DEFINE m == Head(c2r)
<1>1. c2r' = Tail(c2r) /\ c2r # <<>> /\ UNCHANGED <<captured, pending, held, tasks, row>>
  BY DEF RelayTakes, engine
<1>2. Range(c2r') \subseteq Range(c2r) /\ m \in Range(c2r)
  BY <1>1, Shortened DEF TypeInv, SocketTypes
<1>3. NoUpload /\ m.t # "snapshot"
  BY <1>2 DEF NoUpload, RowInv
<1>4. UNCHANGED snap /\ \E a : Answer(a) /\ (a.t = "page" => a.snap = <<>>)
  <2>1. \A after : ~FromSnapshot(after)
    BY DEF FromSnapshot, RowInv
  <2>2. \A after : Page(after).snap = <<>>
    BY <2>1 DEF Page
  <2>3. /\ [t |-> "ack", n |-> m.n, seq |-> ownAt[m.n]].t # "page"
        /\ [t |-> "stale_epoch", n |-> m.n].t # "page"
        /\ [t |-> "ack", n |-> m.n, seq |-> Len(log')].t # "page"
    OBVIOUS
  <2>4. UNCHANGED snap
    BY <1>3 DEF RelayTakes, TakeCatchup, TakeAppend, TakeSnapshot, relay
  <2>5. \/ Answer(Page(m.after))
        \/ Answer([t |-> "ack", n |-> m.n, seq |-> ownAt[m.n]])
        \/ Answer([t |-> "stale_epoch", n |-> m.n])
        \/ Answer([t |-> "ack", n |-> m.n, seq |-> Len(log')])
    BY <1>3 DEF RelayTakes, TakeCatchup, TakeAppend, TakeSnapshot
  <2> HIDE DEF m
  <2> QED
    BY <2>2, <2>3, <2>4, <2>5, Zenon
<1>5. PICK a : Answer(a) /\ (a.t = "page" => a.snap = <<>>)
  BY <1>4
<1> DEFINE S == AnswersNow \cup {a}
<1>6. Seq(AnswersNow) \subseteq Seq(S)
  BY WiderSeq
<1>7. r2c \in Seq(S) /\ a \in S
  BY <1>6 DEF TypeInv, SocketTypes
<1> HIDE DEF S
<1>8. Range(r2c') = Range(r2c) \cup {a}
  BY <1>5, <1>7, Added DEF Answer
<1>9. NoSnapAnswered
  BY <1>5, <1>8 DEF NoSnapAnswered
<1>10. /\ captured' = <<>> /\ pending' = <<>> /\ snap'.through = 0 /\ held \subseteq held' /\ tasks' = tasks
       /\ 1..row'.seq \subseteq row'.holds
  BY <1>1, <1>4 DEF RowInv
<1> QED
  BY <1>3, <1>9, <1>10, RowStep

LEMMA RowPeers ==
    ASSUME TypeInv, RowInv, PeerAppends \/ PeerRotates \/ Prune
    PROVE  RowInv'
<1> DEFINE a == [t |-> "update", seq |-> Len(log')]
           S == AnswersNow \cup {a}
<1>1. UNCHANGED <<captured, pending, held, tasks, row, c2r>> /\ (r2c' = r2c \/ r2c' = Append(r2c, a))
  BY DEF PeerAppends, PeerRotates, Prune, engine, session
<1>2. snap'.through = 0
  BY DEF PeerAppends, PeerRotates, Prune, RowInv
<1>3. Seq(AnswersNow) \subseteq Seq(S) /\ a \in S /\ a.t # "page"
  BY WiderSeq
<1>4. r2c \in Seq(S)
  BY <1>3 DEF TypeInv, SocketTypes
<1> HIDE DEF a, S
<1>5. Range(r2c') \subseteq Range(r2c) \cup {a}
  <2>1. Range(Append(r2c, a)) = Range(r2c) \cup {a}
    BY <1>3, <1>4, Added
  <2> QED
    BY <1>1, <2>1
<1>6. NoSnapAnswered /\ NoUpload
  BY <1>1, <1>3, <1>5 DEF NoSnapAnswered, NoUpload
<1>7. /\ captured' = <<>> /\ pending' = <<>> /\ held \subseteq held' /\ tasks' = tasks
      /\ 1..row'.seq \subseteq row'.holds
  BY <1>1 DEF RowInv
<1> QED
  BY <1>2, <1>6, <1>7, RowStep

\* Without snapshots, none is captured, sent or read back.
LEMMA PlainNever ==
    ASSUME Plain, WholeInv, RowInv
    PROVE  ~CaptureSnapshot /\ ~SendSnapshot /\ ~ReadBack /\ ~PeerSnapshots
<1>1. ownSnaps \in Nat /\ peerSnaps \in Nat
  BY DEF WholeInv
<1>2. ~(ownSnaps < OwnSnaps) /\ ~(peerSnaps < PeerSnaps)
  BY <1>1 DEF Plain
<1> QED
  BY <1>2 DEF CaptureSnapshot, SendSnapshot, ReadBack, PeerSnapshots, RowInv

LEMMA RowInit == Init => RowInv
<1>1. Range(<<>>) = {} /\ 1..0 = {}
  BY DEF Range
<1> QED
  BY <1>1 DEF Init, RowInv

LEMMA RowNext ==
    ASSUME Plain, TypeInv, WholeInv, CoveredInv, RowInv, [Next]_vars
    PROVE  RowInv'
<1>1. CASE Calls
  BY <1>1, RowOpens, RowEnds, RowCommitted DEF Calls
<1>2. CASE OnUpdate \/ OnPage \/ OnAck \/ OnStaleEpoch
  BY <1>2, RowMessages
<1>3. CASE Connect \/ Drop \/ KeysChanged \/ Edit \/ Restart
  BY <1>3, RowDevice, RowRestart
<1>4. CASE RelayTakes \/ PeerAppends \/ PeerRotates \/ Prune
  BY <1>4, RowAnswered, RowPeers
<1>5. CASE UNCHANGED vars
  BY <1>5 DEF vars, engine, session, relay, RowInv, IsPlain
<1> QED
  BY <1>1, <1>2, <1>3, <1>4, <1>5, PlainNever DEF Next, Device

-----------------------------------------------------------------------------
(* The theorems.                                                           *)

LEMMA PlainStep ==
    ASSUME Plain, TypeInv, WholeInv, CoveredInv, RowInv, [Next]_vars
    PROVE  WholeInv' /\ CoveredInv' /\ RowInv'
<1>1. ~CaptureSnapshot
  BY PlainNever
<1>2. WholeInv'
  BY <1>1, WholeStep
<1>3. OnPage => Head(r2c).snap = <<>>
  <2>1. OnPage => Head(r2c) \in Range(r2c) /\ Head(r2c).t = "page"
    BY Shortened DEF OnPage, TypeInv, SocketTypes
  <2> QED
    BY <2>1 DEF RowInv
<1>4. 1..row.seq \subseteq row.holds
  BY DEF RowInv
<1>5. CoveredInv'
  BY <1>3, <1>4, CoveredNext
<1> QED
  BY <1>2, <1>5, RowNext

\* What the watermark of a document without snapshots rests on: what is being opened or waits
\* in a call continues what the document contains, and an acknowledgement saves no more than that.
THEOREM PlainInvariant == ASSUME Plain PROVE Spec => [](TypeInv /\ WholeInv /\ CoveredInv /\ RowInv)
<1>1. Init => TypeInv /\ WholeInv /\ CoveredInv /\ RowInv
  BY InitTypes, WholeInit, CoveredInit, RowInit
<1>2. TypeInv /\ WholeInv /\ CoveredInv /\ RowInv /\ [Next]_vars
      => TypeInv' /\ WholeInv' /\ CoveredInv' /\ RowInv'
  BY StepTypes, PlainStep
<1> QED
  BY <1>1, <1>2, PTL DEF Spec

\* Without snapshots the watermark, and the one in the cache row, pass only over updates the
\* document contains: applyEnvelope, receive and persist of the engine, whatever gaps, repeated
\* pages, key epochs, lost sockets and killed tabs overlap.
THEOREM WatermarkIsHonest == ASSUME Plain PROVE Spec => []WatermarkHonest
<1>1. CoveredInv /\ RowInv => WatermarkHonest
  <2> SUFFICES ASSUME CoveredInv, RowInv PROVE WatermarkHonest
    OBVIOUS
  <2>1. 1..lastSeq \subseteq held
    BY PlainCovered DEF CoveredInv
  <2> QED
    BY <2>1 DEF WatermarkHonest, RowInv
<1> QED
  BY <1>1, PlainInvariant, PTL

LEMMA CalmStep ==
    ASSUME Calm, TypeInv, WholeInv, CoveredInv, [Next]_vars
    PROVE  WholeInv' /\ CoveredInv'
<1>1. CaptureSnapshot => 1..lastSeq \subseteq held
  <2>1. CaptureSnapshot => ~OpeningSnapshot
    BY DEF CaptureSnapshot, MayDisturb, Calm
  <2> QED
    BY <2>1, NoneOpening DEF CoveredInv
<1>2. \A e \in Epochs : e <= keyEpoch
  BY DEF Calm, Epochs, TypeInv, EpochTypes
<1>3. ~Restart
  BY DEF Calm, Restart, WholeInv
<1> QED
  BY <1>1, <1>2, <1>3, WholeStep, CoveredNext

\* What the watermark rests on with snapshots: every snapshot, captured, sent, stored or being
\* opened, contains all it stands for, and the watermark passes only over what the document
\* contains or will when the snapshots being opened are applied.
THEOREM CalmInvariant == ASSUME Calm PROVE Spec => [](TypeInv /\ WholeInv /\ CoveredInv)
<1>1. Init => TypeInv /\ WholeInv /\ CoveredInv
  BY InitTypes, WholeInit, CoveredInit
<1>2. TypeInv /\ WholeInv /\ CoveredInv /\ [Next]_vars => TypeInv' /\ WholeInv' /\ CoveredInv'
  BY StepTypes, CalmStep
<1> QED
  BY <1>1, <1>2, PTL DEF Spec

\* The live watermark passes only over updates the document contains, but while a received
\* snapshot is being opened.
LiveWatermarkHonest == OpeningSnapshot \/ 1..lastSeq \subseteq held

\* With snapshots, one key and no tab killed, applyActivePage may set the watermark before the
\* snapshot it brings is opened: nothing the document lacks is passed over for good.
THEOREM LiveWatermarkIsHonest == ASSUME Calm PROVE Spec => []LiveWatermarkHonest
<1>1. TypeInv /\ CoveredInv => LiveWatermarkHonest
  BY NoneOpening DEF CoveredInv, LiveWatermarkHonest
<1> QED
  BY <1>1, CalmInvariant, PTL

LEMMA PrunedKept == ASSUME TypeInv, WholeInv PROVE PruneLosesNothing
<1>1. 1..snap.through \subseteq snap.holds
  BY DEF WholeInv
<1>2. floor \in Nat /\ snap.through \in Nat /\ floor <= snap.through
  BY DEF TypeInv, SnapTypes, UpTo
<1>3. 1..floor \subseteq 1..snap.through
  BY <1>2
<1> QED
  BY <1>1, <1>3 DEF PruneLosesNothing

\* The snapshots of other devices are all the relay prunes behind.
LEMMA PeersWhole == ASSUME OwnSnaps = 0 PROVE Spec => [](TypeInv /\ WholeInv)
<1>1. Init => TypeInv /\ WholeInv
  BY InitTypes, WholeInit
<1>2. ASSUME TypeInv, WholeInv, [Next]_vars PROVE TypeInv' /\ WholeInv'
  <2>1. ~CaptureSnapshot
    BY <1>2 DEF CaptureSnapshot, WholeInv
  <2> QED
    BY <1>2, <2>1, StepTypes, WholeStep
<1> QED
  BY <1>1, <1>2, PTL DEF Spec

\* What the relay pruned is in its newest snapshot: whatever a snapshot meets between the moment it
\* is captured and its read-back, it was captured from a document that contained all of it.
THEOREM PruneLosesNothingHolds == ASSUME OwnSnaps = 0 \/ Calm PROVE Spec => []PruneLosesNothing
<1>1. Spec => [](TypeInv /\ WholeInv)
  <2>1. CASE OwnSnaps = 0
    BY <2>1, PeersWhole
  <2>2. CASE Calm
    BY <2>2, CalmInvariant, PTL
  <2> QED
    BY <2>1, <2>2
<1>2. TypeInv /\ WholeInv => PruneLosesNothing
  BY PrunedKept
<1> QED
  BY <1>1, <1>2, PTL

-----------------------------------------------------------------------------
(* Gaps are pursued.                                                       *)

\* A device that writes nothing, under one key, with room for every update held for a gap.
Reader == MaxOwn = 0 /\ MaxEpoch = 1 /\ MaxLog <= FutureLimit

\* The catch-up requests and pages on the socket, and the calls that apply a page of it.
CatchUpsAt == {i \in DOMAIN c2r : c2r[i].t = "catchup"}
PagesAt    == {i \in DOMAIN r2c : r2c[i].t = "page"}
PagesHere  == {i \in DOMAIN tasks : tasks[i].t = "page" /\ OfThisSocket(tasks[i])}
MoreHere   == \E i \in PagesHere : tasks[i].more

OneAt(I) == \A i, j \in I : i = j

\* One catch-up is in flight: its request, its page, or the call that applies it.
OneAsked ==
    /\ OneAt(CatchUpsAt) /\ OneAt(PagesAt) /\ OneAt(PagesHere)
    /\ CatchUpsAt = {} \/ (PagesAt = {} /\ PagesHere = {})
    /\ PagesAt = {} \/ PagesHere = {}
    /\ asks.fly = None => CatchUpsAt = {} /\ PagesAt = {} /\ PagesHere = {}
    /\ asks.again \in {None, asks.fly} /\ asks.fly <= lastSeq
    /\ \A i \in CatchUpsAt : c2r[i].after = asks.fly
    /\ \A i \in DOMAIN tasks : tasks[i].conn <= drops

Shut == ~open => /\ CatchUpsAt = {} /\ r2c = <<>> /\ PagesHere = {}
                 /\ asks = [fly |-> None, again |-> None, wait |-> None]

\* The last update an answer names.
Value(m) == IF m.t = "page" THEN m.last ELSE m.seq

\* A page goes on from what was asked for, or from its snapshot, without a hole.
PageFrom(p, b, fly) ==
    /\ b <= p.last /\ (p.more => b < p.last)
    /\ Len(p.rows) = p.last - b /\ \A j \in 1..Len(p.rows) : p.rows[j].seq = b + j
    /\ IF p.snap = <<>> THEN b = fly ELSE p.snap[1].seq = b /\ b > fly

\* The last page reaches as far as anything named before it.
LastPage(i) ==
    ~r2c[i].more => told <= r2c[i].last /\ \A j \in 1..(i - 1) : Value(r2c[j]) <= r2c[i].last

PagesSound == \A i \in PagesAt : LastPage(i) /\ \E b \in UpTo : PageFrom(r2c[i], b, asks.fly)

\* The updates a call brings.
Brings(k) == {e.seq : e \in Range(k.opening) \cup Range(k.todo)}

\* Nothing the device knows of is beyond what was named to it.
Within ==
    /\ lastSeq <= told /\ row.seq <= told /\ \A u \in future : u <= told
    /\ \A k \in Range(tasks) : \A u \in Brings(k) : u <= told

\* A page's call finds no gap, and ends beyond what was asked for, or what waits to be asked for.
Top(k, s) == IF k.opening = <<>> THEN s ELSE Larger(s, k.opening[1].seq)
Steady(k, s) ==
    /\ k.todo # <<>> => k.todo[1].seq <= Top(k, s) + 1
    /\ \A j \in 1..(Len(k.todo) - 1) : k.todo[j + 1].seq <= k.todo[j].seq + 1
Reaches(k, n, s) == n <= s \/ \E u \in Brings(k) : n <= u
Climbs ==
    /\ \A i \in PagesHere :
          /\ Steady(tasks[i], lastSeq)
          /\ Reaches(tasks[i], IF tasks[i].more THEN asks.fly + 1 ELSE asks.wait, lastSeq)
    /\ PagesHere = {} => asks.wait <= lastSeq

NextFree == lastSeq + 1 \notin future

\* Every update beyond the watermark that was named is held, in a call, or will be in a page.
Sought(u) == u \in future \/ \E k \in Range(tasks) : u \in Brings(k)
Known     == \A u \in (lastSeq + 1)..told : Sought(u)
Requested == CatchUpsAt # {} \/ PagesAt # {} \/ MoreHere
Pursued   == open => Requested \/ Known

\* But for what pages will bring, updates come one after the other.
MoreComes == CatchUpsAt # {} \/ (\E i \in PagesAt : r2c[i].more) \/ MoreHere
Reached(s, t, i, n) == t >= n \/ \E j \in 1..(i - 1) : Value(s[j]) >= n
InOrder ==
    open /\ ~MoreComes =>
        /\ \A i \in DOMAIN r2c : r2c[i].t = "update" =>
              Reached(r2c, told, i, r2c[i].seq - 1) \/ \E j \in PagesAt : j > i
        /\ Subscribed => Reached(r2c, told, Len(r2c) + 1, Len(log))

GapInv == OneAsked /\ Shut /\ PagesSound /\ Within /\ Climbs /\ NextFree /\ Pursued /\ InOrder

-----------------------------------------------------------------------------
(* What a device that only reads never meets.                              *)

LEMMA Alone ==
    ASSUME Reader, TypeInv
    PROVE  /\ op = 0 /\ ~refused
           /\ keyEpoch = 1 /\ graphEpoch = 1 /\ Epochs = {1}
           /\ tasks \in Seq(CallsNow) /\ c2r \in Seq(CatchupsNow \cup UploadsNow)
           /\ r2c \in Seq(PagesNow \cup UpdatesNow)
<1>1. MaxOwn = 0 /\ MaxEpoch = 1
  BY DEF Reader
<1>2. op = 0 /\ ~refused /\ Epochs = {1} /\ keyEpoch = 1 /\ graphEpoch = 1
  BY <1>1 DEF TypeInv, OwnTypes, EpochTypes, Epochs
<1>3. Delivered = {} /\ 1..MaxOwn = {}
  BY <1>1 DEF Delivered
<1>4. AcksNow = {} /\ AppendsNow = {} /\ ReceiptsNow = {} /\ StalesNow = {}
  BY <1>2, <1>3 DEF AcksNow, AppendsNow, ReceiptsNow, StalesNow
<1>5. TasksNow = CallsNow /\ RequestsNow = CatchupsNow \cup UploadsNow /\ AnswersNow = PagesNow \cup UpdatesNow
  BY <1>4 DEF TasksNow, RequestsNow, AnswersNow
<1> QED
  BY <1>2, <1>5 DEF TypeInv, TaskTypes, SocketTypes

\* The elements of a queue that takes one or gives one up.
LEMMA Pushed ==
    ASSUME NEW S, NEW s \in Seq(S), NEW x \in S
    PROVE  /\ Len(s) \in Nat /\ DOMAIN s = 1..Len(s)
           /\ Len(Append(s, x)) = Len(s) + 1 /\ DOMAIN Append(s, x) = 1..(Len(s) + 1)
           /\ \A i \in 1..Len(s) : Append(s, x)[i] = s[i] /\ s[i] \in S
           /\ Append(s, x)[Len(s) + 1] = x
BY AppendProperties, LenProperties

LEMMA Popped ==
    ASSUME NEW S, NEW s \in Seq(S), s # <<>>
    PROVE  /\ Len(s) \in Nat /\ Len(s) >= 1 /\ DOMAIN s = 1..Len(s) /\ Head(s) = s[1]
           /\ Tail(s) \in Seq(S) /\ Len(Tail(s)) = Len(s) - 1 /\ DOMAIN Tail(s) = 1..(Len(s) - 1)
           /\ \A i \in 1..(Len(s) - 1) : Tail(s)[i] = s[i + 1] /\ i + 1 \in 1..Len(s)
           /\ \A i \in 1..Len(s) : s[i] \in S
<1>1. /\ Len(s) \in Nat /\ DOMAIN s = 1..Len(s) /\ Len(s) # 0
      /\ Tail(s) \in Seq(S) /\ DOMAIN Tail(s) = 1..(Len(s) - 1) /\ Len(Tail(s)) = Len(s) - 1
      /\ \A i \in 1..(Len(s) - 1) : Tail(s)[i] = s[i + 1]
  BY HeadTailProperties, LenProperties, EmptySeq
<1>2. \A i \in 1..Len(s) : s[i] \in S
  BY LenProperties
<1> QED
  BY <1>1, <1>2

-----------------------------------------------------------------------------
(* The request in flight.                                                  *)

\* The catch-up requests on the socket stay as they are, but for their places.
CatchUpsStay ==
    /\ CatchUpsAt' = {} <=> CatchUpsAt = {}
    /\ OneAt(CatchUpsAt) => OneAt(CatchUpsAt')
    /\ \A j \in CatchUpsAt' : \E i \in CatchUpsAt : c2r'[j].after = c2r[i].after

\* The request in flight stays what it is.
AskStays ==
    /\ asks'.fly = asks.fly /\ asks'.again \in {None, asks.fly} /\ asks'.wait \in {asks.wait, lastSeq}
    /\ ~open => asks' = asks
    /\ CatchUpsStay

\* None is in flight, and one goes out.
AskGoes ==
    /\ open /\ asks.fly = None /\ asks'.fly = lastSeq /\ asks'.again = None /\ asks'.wait = None
    /\ \E n \in Nat : CatchUpsAt' = CatchUpsAt \cup {n} /\ c2r'[n].after = lastSeq

LEMMA AsksAlike ==
    ASSUME OneAsked, UNCHANGED <<asks, c2r>>
    PROVE  AskStays
BY DEF OneAsked, AskStays, CatchUpsStay, CatchUpsAt

LEMMA CatchUpsPushed ==
    ASSUME TypeInv, NEW m \in RequestsNow, c2r' = Append(c2r, m)
    PROVE  /\ m.t # "catchup" => CatchUpsAt' = CatchUpsAt
           /\ m.t = "catchup" => CatchUpsAt' = CatchUpsAt \cup {Len(c2r) + 1}
           /\ \A i \in CatchUpsAt : c2r'[i] = c2r[i]
           /\ c2r'[Len(c2r) + 1] = m /\ Len(c2r) + 1 \in Nat
<1>1. c2r \in Seq(RequestsNow)
  BY DEF TypeInv, SocketTypes
<1>2. /\ Len(c2r) \in Nat /\ DOMAIN c2r = 1..Len(c2r) /\ DOMAIN c2r' = 1..(Len(c2r) + 1)
      /\ \A i \in 1..Len(c2r) : c2r'[i] = c2r[i]
      /\ c2r'[Len(c2r) + 1] = m
  BY <1>1, Pushed
<1>3. \A i \in CatchUpsAt : c2r'[i] = c2r[i]
  BY <1>2 DEF CatchUpsAt
<1>4. m.t # "catchup" => CatchUpsAt' = CatchUpsAt
  BY <1>2 DEF CatchUpsAt
<1>5. m.t = "catchup" => CatchUpsAt' = CatchUpsAt \cup {Len(c2r) + 1}
  BY <1>2 DEF CatchUpsAt
<1>6. c2r'[Len(c2r) + 1] = m /\ Len(c2r) + 1 \in Nat
  BY <1>2
<1> QED
  BY <1>3, <1>4, <1>5, <1>6, Zenon

LEMMA Asks ==
    ASSUME TypeInv, OneAsked, RequestCatchup(lastSeq)
    PROVE  AskStays \/ AskGoes
<1> DEFINE m == [t |-> "catchup", after |-> lastSeq]
<1>1. asks \in AsksNow /\ lastSeq \in UpTo /\ lastSeq # None /\ asks.again \in {None, asks.fly}
  BY DEF TypeInv, AskTypes, DocTypes, OneAsked, UpTo, None
<1>2. asks' = Ask(asks, lastSeq) /\ c2r' = c2r \o Requests(asks, asks') /\ c2r \in Seq(RequestsNow)
  BY DEF RequestCatchup, TypeInv, SocketTypes
<1>3. CASE ~open \/ asks.fly # None
  <2>1. /\ asks'.fly = asks.fly /\ asks'.again \in {None, asks.fly} /\ asks'.wait \in {asks.wait, lastSeq}
        /\ ~open => asks' = asks
    BY <1>1, <1>2, <1>3 DEF Ask, Pump, AsksNow
  <2>2. Requests(asks, asks') = <<>>
    BY <1>3, <2>1 DEF Requests
  <2>3. c2r' = c2r
    BY <1>2, <2>2, ConcatEmptySeq
  <2> QED
    BY <2>1, <2>3 DEF AskStays, CatchUpsStay, CatchUpsAt
<1>4. CASE open /\ asks.fly = None
  <2>1. asks'.fly = lastSeq /\ asks'.again = None /\ asks'.wait = None
    BY <1>1, <1>2, <1>4 DEF Ask, Pump, AsksNow
  <2>2. Requests(asks, asks') = <<m>> /\ m \in RequestsNow /\ m.t = "catchup" /\ m.after = lastSeq
    BY <1>1, <1>4, <2>1 DEF Requests, RequestsNow, CatchupsNow
  <2> HIDE DEF m
  <2>3. c2r' = Append(c2r, m)
    BY <1>2, <2>2
  <2> QED
    BY <1>4, <2>1, <2>2, <2>3, CatchUpsPushed DEF AskGoes
<1> QED
  BY <1>3, <1>4

-----------------------------------------------------------------------------
(* The calls that apply pages.                                             *)

\* What the call k was to do with the watermark at s, j does with the watermark at r.
GoesOn(k, j, s, r) ==
    /\ j.more = k.more
    /\ Steady(k, s) => (Steady(j, r) /\ \A n \in Int : Reaches(k, n, s) => Reaches(j, n, r))

\* The calls that apply pages go on as they were.
CallsStay ==
    /\ \A j \in DOMAIN tasks' : tasks'[j].conn <= drops'
    /\ OneAt(PagesHere')
    /\ \A j \in PagesHere' : \E i \in PagesHere : GoesOn(tasks[i], tasks'[j], lastSeq, lastSeq')
    /\ \A i \in PagesHere : \E j \in PagesHere' : tasks'[j].more = tasks[i].more

LEMMA CallParts ==
    ASSUME TypeInv, NEW k \in CallsNow
    PROVE  /\ k.todo \in Seq(EnvelopesNow) /\ Len(k.todo) \in Nat /\ DOMAIN k.todo = 1..Len(k.todo)
           /\ \A i \in 1..Len(k.todo) : k.todo[i] \in EnvelopesNow /\ k.todo[i].seq \in Stored
           /\ k.opening = <<>> \/ \E e \in EnvelopesNow : k.opening = <<e>> /\ k.opening[1] = e /\ e.seq \in Stored
           /\ Stored \subseteq Nat /\ Len(log) \in Nat
<1>1. k.todo \in Seq(EnvelopesNow) /\ k.opening \in AtMostOne(EnvelopesNow)
  BY DEF CallsNow
<1>2. \A e \in EnvelopesNow : e.seq \in Stored /\ <<e>>[1] = e
  BY DEF EnvelopesNow
<1>3. Len(k.todo) \in Nat /\ DOMAIN k.todo = 1..Len(k.todo) /\ \A i \in 1..Len(k.todo) : k.todo[i] \in EnvelopesNow
  BY <1>1, LenProperties
<1>4. Stored \subseteq Nat /\ Len(log) \in Nat
  BY LenProperties DEF Stored, TypeInv, LogTypes
<1>5. k.opening = <<>> \/ \E e \in EnvelopesNow : k.opening = <<e>>
  BY <1>1 DEF AtMostOne
<1> QED
  BY <1>1, <1>2, <1>3, <1>4, <1>5

LEMMA StillGoesOn ==
    ASSUME TypeInv, NEW k \in CallsNow, NEW s \in Nat, NEW r \in Nat, s <= r
    PROVE  GoesOn(k, k, s, r)
<1>1. Top(k, s) \in Nat /\ Top(k, r) \in Nat /\ Top(k, s) <= Top(k, r)
  BY CallParts DEF Top, Larger
<1>2. Len(k.todo) \in Nat /\ (k.todo # <<>> => k.todo[1].seq \in Nat)
  <2>1. k.todo # <<>> => 1 \in 1..Len(k.todo)
    BY CallParts, EmptySeq
  <2> QED
    BY <2>1, CallParts
<1>3. Steady(k, s) => Steady(k, r)
  BY <1>1, <1>2 DEF Steady
<1>4. \A n \in Int : Reaches(k, n, s) => Reaches(k, n, r)
  BY DEF Reaches
<1> QED
  BY <1>3, <1>4 DEF GoesOn

LEMMA TaskFacts ==
    ASSUME Reader, TypeInv
    PROVE  /\ tasks \in Seq(CallsNow) /\ Len(tasks) \in Nat /\ DOMAIN tasks = 1..Len(tasks)
           /\ \A i \in 1..Len(tasks) : tasks[i] \in CallsNow
           /\ lastSeq \in Nat /\ drops \in Nat /\ told \in Nat
<1>1. tasks \in Seq(CallsNow) /\ lastSeq \in Nat /\ drops \in Nat /\ told \in Nat
  BY Alone DEF TypeInv, DocTypes, SocketTypes, UpTo
<1> QED
  BY <1>1, LenProperties

LEMMA CallsSame ==
    ASSUME Reader, TypeInv, OneAsked, UNCHANGED <<tasks, lastSeq, drops>>
    PROVE  CallsStay /\ PagesHere' = PagesHere
<1>1. PagesHere' = PagesHere
  BY DEF PagesHere, OfThisSocket
<1>2. \A i \in PagesHere : tasks[i] \in CallsNow
  BY TaskFacts DEF PagesHere
<1>3. \A i \in PagesHere : GoesOn(tasks[i], tasks[i], lastSeq, lastSeq)
  BY <1>2, TaskFacts, StillGoesOn
<1> QED
  BY <1>1, <1>3 DEF CallsStay, OneAsked

LEMMA CallsPut ==
    ASSUME Reader, TypeInv, OneAsked, NEW i \in DOMAIN tasks, NEW k \in CallsNow, SetTask(i, k),
           k.t = tasks[i].t, k.conn = tasks[i].conn, GoesOn(tasks[i], k, lastSeq, lastSeq'),
           lastSeq' \in Nat, lastSeq <= lastSeq', drops' = drops
    PROVE  CallsStay /\ PagesHere' = PagesHere
<1>1. /\ DOMAIN tasks' = DOMAIN tasks /\ tasks'[i] = k
      /\ \A j \in DOMAIN tasks : j # i => tasks'[j] = tasks[j]
  BY DEF SetTask
<1>2. PagesHere' = PagesHere
  BY <1>1 DEF PagesHere, OfThisSocket
<1>3. ASSUME NEW j \in PagesHere PROVE GoesOn(tasks[j], tasks'[j], lastSeq, lastSeq')
  <2>1. CASE j = i
    BY <1>1, <2>1
  <2>2. CASE j # i
    <3>1. tasks[j] \in CallsNow /\ tasks'[j] = tasks[j]
      BY <1>1, <2>2, TaskFacts DEF PagesHere
    <3> QED
      BY <3>1, TaskFacts, StillGoesOn
  <2> QED
    BY <2>1, <2>2
<1>4. \A j \in DOMAIN tasks' : tasks'[j].conn <= drops'
  BY <1>1 DEF OneAsked
<1>5. \A j \in PagesHere : tasks'[j].more = tasks[j].more
  BY <1>3 DEF GoesOn
<1> QED
  BY <1>2, <1>3, <1>4, <1>5 DEF CallsStay, OneAsked

LEMMA CallsNew ==
    ASSUME Reader, TypeInv, OneAsked, NEW k \in CallsNow, NewTask(k), k.t = "update", k.conn = drops,
           UNCHANGED <<lastSeq, drops>>
    PROVE  CallsStay /\ PagesHere' = PagesHere
<1>1. tasks \in Seq(CallsNow) /\ Len(tasks) \in Nat /\ DOMAIN tasks = 1..Len(tasks) /\ drops \in Nat /\ lastSeq \in Nat
  BY TaskFacts
<1>2. /\ DOMAIN tasks' = 1..(Len(tasks) + 1) /\ tasks'[Len(tasks) + 1] = k
      /\ \A j \in 1..Len(tasks) : tasks'[j] = tasks[j] /\ tasks[j] \in CallsNow
  BY <1>1, Pushed DEF NewTask
<1>3. PagesHere' = PagesHere
  BY <1>1, <1>2 DEF PagesHere, OfThisSocket
<1>4. ASSUME NEW j \in PagesHere PROVE tasks'[j] = tasks[j] /\ GoesOn(tasks[j], tasks'[j], lastSeq, lastSeq')
  <2>1. tasks[j] \in CallsNow /\ tasks'[j] = tasks[j]
    BY <1>1, <1>2 DEF PagesHere
  <2> QED
    BY <1>1, <2>1, StillGoesOn
<1>5. \A j \in DOMAIN tasks' : tasks'[j].conn <= drops'
  BY <1>1, <1>2 DEF OneAsked
<1> QED
  BY <1>3, <1>4, <1>5 DEF CallsStay, OneAsked

\* Where the calls are when one has returned.
LEMMA Ended ==
    ASSUME Reader, TypeInv, NEW i \in DOMAIN tasks, EndTask(i)
    PROVE  /\ Len(tasks) \in Nat /\ DOMAIN tasks = 1..Len(tasks) /\ DOMAIN tasks' = 1..(Len(tasks) - 1)
           /\ \A j \in 1..(Len(tasks) - 1) : tasks'[j] = tasks[IF j < i THEN j ELSE j + 1]
           /\ \A j \in 1..Len(tasks) : tasks[j] \in CallsNow
<1>1. /\ tasks \in Seq(CallsNow) /\ Len(tasks) \in Nat /\ DOMAIN tasks = 1..Len(tasks)
      /\ \A j \in 1..Len(tasks) : tasks[j] \in CallsNow
  BY TaskFacts
<1>2. /\ tasks' \in Seq(CallsNow) /\ Len(tasks') = Len(tasks) - 1
      /\ \A j \in 1..(Len(tasks) - 1) : tasks'[j] = IF j < i THEN tasks[j] ELSE tasks[j + 1]
  BY <1>1, Removed DEF EndTask
<1>3. DOMAIN tasks' = 1..(Len(tasks) - 1)
  BY <1>2, LenProperties
<1> QED
  BY <1>1, <1>2, <1>3

LEMMA CallsEnd ==
    ASSUME Reader, TypeInv, OneAsked, NEW i \in DOMAIN tasks, EndTask(i), i \notin PagesHere,
           UNCHANGED <<lastSeq, drops>>
    PROVE  CallsStay
<1>1. /\ Len(tasks) \in Nat /\ DOMAIN tasks = 1..Len(tasks) /\ DOMAIN tasks' = 1..(Len(tasks) - 1)
      /\ \A j \in 1..(Len(tasks) - 1) : tasks'[j] = tasks[IF j < i THEN j ELSE j + 1]
      /\ \A j \in 1..Len(tasks) : tasks[j] \in CallsNow
  BY Ended
<1> DEFINE from(j) == IF j < i THEN j ELSE j + 1
           to(j) == IF j < i THEN j ELSE j - 1
<1>2. \A j \in 1..(Len(tasks) - 1) : from(j) \in 1..Len(tasks) /\ tasks'[j] = tasks[from(j)]
  BY <1>1
<1>3. \A j \in 1..Len(tasks) : j # i => to(j) \in 1..(Len(tasks) - 1) /\ from(to(j)) = j
  BY <1>1
<1>4. \A j, l \in 1..(Len(tasks) - 1) : from(j) = from(l) => j = l
  BY <1>1
<1> HIDE DEF from, to
<1>5. \A j \in PagesHere' : j \in 1..(Len(tasks) - 1) /\ from(j) \in PagesHere
  BY <1>1, <1>2 DEF PagesHere, OfThisSocket
<1>6. \A j \in PagesHere : to(j) \in PagesHere' /\ tasks'[to(j)] = tasks[j]
  BY <1>1, <1>2, <1>3 DEF PagesHere, OfThisSocket
<1>7. OneAt(PagesHere')
  BY <1>4, <1>5 DEF OneAsked, OneAt
<1>8. \A j \in DOMAIN tasks' : tasks'[j].conn <= drops'
  BY <1>1, <1>2 DEF OneAsked
<1>9. ASSUME NEW j \in PagesHere' PROVE GoesOn(tasks[from(j)], tasks'[j], lastSeq, lastSeq')
  BY <1>1, <1>2, <1>5, TaskFacts, StillGoesOn
<1> QED
  BY <1>5, <1>6, <1>7, <1>8, <1>9 DEF CallsStay

-----------------------------------------------------------------------------
(* A call takes its next envelope.                                         *)

LEMMA RoomToHold ==
    ASSUME Reader, TypeInv, NEW s \in Stored
    PROVE  Hold(s) = future \cup {s}
<1>1. CASE s \in future
  BY <1>1 DEF Hold
<1>2. CASE s \notin future
  <2>1. IsFiniteSet(future) /\ Cardinality(future) \in Nat
    BY FutureIsFinite DEF TypeInv
  <2>2. Cardinality(future \cup {s}) = Cardinality(future) + 1
    BY <1>2, <2>1, FS_AddElement
  <2>3. Len(log) \in Nat /\ Len(log) <= MaxLog /\ MaxLog <= FutureLimit /\ MaxLog \in Nat /\ FutureLimit \in Nat
    BY Lengths, Limits DEF TypeInv, Reader
  <2>4. IsFiniteSet(Stored) /\ Cardinality(Stored) = Len(log)
    <3>1. 1 \in Int /\ Len(log) \in Int
      BY <2>3
    <3>2. IsFiniteSet(1..Len(log)) /\ Cardinality(1..Len(log)) = IF 1 > Len(log) THEN 0 ELSE Len(log) - 1 + 1
      BY <3>1, FS_Interval
    <3> QED
      BY <2>3, <3>2 DEF Stored
  <2>5. Cardinality(future \cup {s}) <= Cardinality(Stored)
    <3>1. future \cup {s} \subseteq Stored
      BY DEF TypeInv, FutureTypes
    <3> QED
      BY <2>4, <3>1, FS_Subset
  <2>6. Cardinality(future) < FutureLimit
    BY <2>1, <2>2, <2>3, <2>4, <2>5
  <2> QED
    BY <2>6 DEF Hold
<1> QED
  BY <1>1, <1>2

\* What a call brings is its next envelope and the rest.
LEMMA NextBrought ==
    ASSUME TypeInv, NEW k \in CallsNow, k.todo # <<>>, k.opening = <<>>
    PROVE  /\ Head(k.todo) = k.todo[1] /\ Head(k.todo) \in EnvelopesNow /\ k.todo[1].seq \in Stored
           /\ Tail(k.todo) \in Seq(EnvelopesNow) /\ Len(Tail(k.todo)) = Len(k.todo) - 1 /\ Len(k.todo) \in Nat \ {0}
           /\ \A j \in 1..(Len(k.todo) - 1) : Tail(k.todo)[j] = k.todo[j + 1]
           /\ Brings(k) = {k.todo[1].seq} \cup {e.seq : e \in Range(Tail(k.todo))}
<1>1. /\ k.todo \in Seq(EnvelopesNow) /\ Len(k.todo) \in Nat /\ DOMAIN k.todo = 1..Len(k.todo)
      /\ \A i \in 1..Len(k.todo) : k.todo[i].seq \in Stored
  BY CallParts
<1>2. /\ Len(k.todo) >= 1 /\ Head(k.todo) = k.todo[1] /\ Tail(k.todo) \in Seq(EnvelopesNow)
      /\ Len(Tail(k.todo)) = Len(k.todo) - 1 /\ DOMAIN Tail(k.todo) = 1..(Len(k.todo) - 1)
      /\ \A i \in 1..(Len(k.todo) - 1) : Tail(k.todo)[i] = k.todo[i + 1] /\ i + 1 \in 1..Len(k.todo)
      /\ k.todo[1] \in EnvelopesNow
  BY <1>1, Popped
<1>3. Range(k.todo) = {k.todo[1]} \cup Range(Tail(k.todo))
  <2>1. \A x \in Range(k.todo) : x \in {k.todo[1]} \cup Range(Tail(k.todo))
    <3>1. ASSUME NEW i \in 1..Len(k.todo) PROVE i = 1 \/ k.todo[i] \in Range(Tail(k.todo))
      <4>1. i # 1 => i - 1 \in 1..(Len(k.todo) - 1) /\ Tail(k.todo)[i - 1] = k.todo[i]
        BY <1>1, <1>2
      <4> QED
        BY <1>2, <4>1 DEF Range
    <3> QED
      BY <1>1, <3>1 DEF Range
  <2>2. \A x \in {k.todo[1]} \cup Range(Tail(k.todo)) : x \in Range(k.todo)
    BY <1>1, <1>2 DEF Range
  <2> QED
    BY <2>1, <2>2
<1>4. Range(k.opening) = {}
  BY DEF Range
<1>5. Brings(k) = {e.seq : e \in {k.todo[1]} \cup Range(Tail(k.todo))}
  BY <1>3, <1>4 DEF Brings
<1> QED
  BY <1>1, <1>2, <1>5

LEMMA TakeMoves ==
    ASSUME Reader, TypeInv, NEW k \in CallsNow, k.todo # <<>>, k.opening = <<>>, NEW i, Take(k, i)
    PROVE  \E j \in CallsNow :
              /\ PutTask(i, j) /\ j.t = k.t /\ j.conn = k.conn /\ GoesOn(k, j, lastSeq, lastSeq)
              /\ Brings(j) \subseteq Brings(k)
              /\ \A u \in Brings(k) : u <= lastSeq \/ u \in future' \/ u \in Brings(j)
              /\ future \subseteq future' /\ future' \subseteq future \cup Brings(k)
              /\ lastSeq + 1 \in future' => lastSeq + 1 \in future
              /\ UNCHANGED <<asks, c2r>> \/ RequestCatchup(lastSeq)
<1> DEFINE e == Head(k.todo)
           rest == {x.seq : x \in Range(Tail(k.todo))}
           j1 == Rest(k)
           j2 == [Rest(k) EXCEPT !.applied = TRUE]
           j3 == [Rest(k) EXCEPT !.opening = <<e>>]
<1>1. /\ e = k.todo[1] /\ e \in EnvelopesNow /\ e.seq \in Stored /\ e.seq \in Nat /\ lastSeq \in Nat
      /\ Tail(k.todo) \in Seq(EnvelopesNow) /\ Len(Tail(k.todo)) = Len(k.todo) - 1 /\ Len(k.todo) \in Nat \ {0}
      /\ \A j \in 1..(Len(k.todo) - 1) : Tail(k.todo)[j] = k.todo[j + 1]
      /\ Brings(k) = {e.seq} \cup rest
  BY NextBrought, TaskFacts, CallParts
<1>2. j1 \in CallsNow /\ j2 \in CallsNow /\ j3 \in CallsNow
  BY <1>1, CallTyped DEF Rest
<1>3. /\ j1.todo = Tail(k.todo) /\ j1.opening = <<>> /\ j1.t = k.t /\ j1.conn = k.conn /\ j1.more = k.more
      /\ j2.todo = Tail(k.todo) /\ j2.opening = <<>> /\ j2.t = k.t /\ j2.conn = k.conn /\ j2.more = k.more
      /\ j3.todo = Tail(k.todo) /\ j3.opening = <<e>> /\ j3.t = k.t /\ j3.conn = k.conn /\ j3.more = k.more
  BY DEF Rest, CallsNow
<1>4. e.epoch <= keyEpoch
  BY <1>1, Alone DEF EnvelopesNow, Envelope
<1>5. Brings(j1) = rest /\ Brings(j2) = rest /\ Brings(j3) = {e.seq} \cup rest
  <2>1. Range(<<>>) = {} /\ Range(<<e>>) = {e}
    BY DEF Range
  <2> QED
    BY <1>3, <2>1 DEF Brings
<1>6. \/ e.seq <= lastSeq /\ PutTask(i, j2) /\ UNCHANGED <<future, asks, c2r>>
      \/ Gap(e) /\ PutTask(i, j1)
      \/ e.seq = lastSeq + 1 /\ PutTask(i, j3) /\ UNCHANGED <<future, asks, c2r>>
  <2>1. ~Unreadable(e)
    BY <1>1, <1>4, Alone DEF Unreadable, EnvelopesNow, Envelope
  <2> HIDE DEF e
  <2> QED
    BY <2>1 DEF Take, e, Follows
\* No hole in what is left.
<1>7. ASSUME NEW j \in {j1, j2, j3}, Steady(k, lastSeq), e.seq <= Top(j, lastSeq)
      PROVE  Steady(j, lastSeq)
  <2>1. j.todo = Tail(k.todo) /\ Len(j.todo) = Len(k.todo) - 1 /\ j \in CallsNow
    BY <1>1, <1>2, <1>3
  <2>2. \A l \in 1..(Len(j.todo) - 1) : j.todo[l + 1].seq <= j.todo[l].seq + 1
    <3> SUFFICES ASSUME NEW l \in 1..(Len(j.todo) - 1) PROVE j.todo[l + 1].seq <= j.todo[l].seq + 1
      OBVIOUS
    <3>1. /\ l \in 1..(Len(k.todo) - 1) /\ l + 1 \in 1..(Len(k.todo) - 1)
          /\ j.todo[l] = k.todo[l + 1] /\ j.todo[l + 1] = k.todo[(l + 1) + 1]
      BY <1>1, <2>1
    <3> QED
      BY <1>7, <3>1 DEF Steady
  <2>3. j.todo # <<>> => j.todo[1].seq <= Top(j, lastSeq) + 1
    <3> SUFFICES ASSUME j.todo # <<>> PROVE j.todo[1].seq <= Top(j, lastSeq) + 1
      OBVIOUS
    <3>1. 1 \in 1..Len(j.todo)
      BY <2>1, CallParts, EmptySeq
    <3>2. 1 \in 1..(Len(k.todo) - 1) /\ j.todo[1] = k.todo[1 + 1] /\ j.todo[1].seq \in Stored
      BY <1>1, <2>1, <3>1, CallParts
    <3>3. k.todo[1 + 1].seq <= k.todo[1].seq + 1
      BY <1>7, <3>2 DEF Steady
    <3>4. Top(j, lastSeq) \in Nat /\ j.todo[1].seq \in Nat
      BY <1>1, <2>1, <3>2, CallParts DEF Top, Larger
    <3> QED
      BY <1>1, <1>7, <3>2, <3>3, <3>4
  <2> QED
    BY <2>2, <2>3 DEF Steady
<1>8. \A n \in Int : \A j \in {j1, j2, j3} :
          (e.seq <= lastSeq \/ e.seq \in Brings(j)) => (Reaches(k, n, lastSeq) => Reaches(j, n, lastSeq))
  <2> HIDE DEF e, rest, j1, j2, j3
  <2>1. \A j \in {j1, j2, j3} : rest \subseteq Brings(j) /\ Brings(k) \subseteq {e.seq} \cup rest
    BY <1>1, <1>5
  <2> QED
    BY <1>1, <2>1 DEF Reaches
<1>9. Top(j1, lastSeq) = lastSeq /\ Top(j2, lastSeq) = lastSeq /\ e.seq <= Top(j3, lastSeq)
  <2>1. j3.opening # <<>> /\ j3.opening[1] = e
    BY <1>3
  <2> QED
    BY <1>1, <1>3, <2>1 DEF Top, Larger
<1>10. Gap(e) => ~Steady(k, lastSeq)
  <2>1. Steady(k, lastSeq) => e.seq <= lastSeq + 1
    BY <1>1 DEF Steady, Top
  <2> QED
    BY <1>1, <2>1 DEF Gap, Follows
<1> HIDE DEF e, rest, j1, j2, j3
<1>11. CASE e.seq <= lastSeq /\ PutTask(i, j2) /\ UNCHANGED <<future, asks, c2r>>
  <2>1. GoesOn(k, j2, lastSeq, lastSeq)
    BY <1>3, <1>7, <1>8, <1>9, <1>11 DEF GoesOn
  <2>2. \A u \in Brings(k) : u <= lastSeq \/ u \in Brings(j2)
    BY <1>1, <1>5, <1>11
  <2> QED
    BY <1>1, <1>2, <1>3, <1>5, <1>11, <2>1, <2>2
<1>12. CASE Gap(e) /\ PutTask(i, j1)
  <2>1. GoesOn(k, j1, lastSeq, lastSeq)
    BY <1>3, <1>10, <1>12 DEF GoesOn
  <2>2. future' = future \cup {e.seq} /\ e.seq # lastSeq + 1
    BY <1>1, <1>12, RoomToHold DEF Gap, Follows
  <2>3. UNCHANGED <<asks, c2r>> \/ RequestCatchup(lastSeq)
    BY <1>12 DEF Gap
  <2> QED
    BY <1>1, <1>2, <1>3, <1>5, <1>12, <2>1, <2>2, <2>3
<1>13. CASE e.seq = lastSeq + 1 /\ PutTask(i, j3) /\ UNCHANGED <<future, asks, c2r>>
  <2>1. GoesOn(k, j3, lastSeq, lastSeq)
    BY <1>1, <1>3, <1>5, <1>7, <1>8, <1>9 DEF GoesOn
  <2> QED
    BY <1>1, <1>2, <1>3, <1>5, <1>13, <2>1
<1> QED
  BY <1>6, <1>11, <1>12, <1>13

-----------------------------------------------------------------------------
(* The parts of the invariant, while calls and requests go on.             *)

\* What comes over the socket keeps its pages.
PagesStay == (PagesAt' = {} <=> PagesAt = {}) /\ (OneAt(PagesAt) => OneAt(PagesAt'))

LEMMA OneAskedStays ==
    ASSUME TypeInv, OneAsked, AskStays \/ AskGoes, CallsStay, PagesStay, lastSeq' \in Nat, lastSeq <= lastSeq'
    PROVE  OneAsked'
<1>1. PagesHere' = {} <=> PagesHere = {}
  BY DEF CallsStay
<1>2. OneAt(PagesAt') /\ OneAt(PagesHere') /\ (PagesAt' = {} <=> PagesAt = {})
  BY DEF OneAsked, PagesStay, CallsStay
<1>3. lastSeq \in Nat /\ asks.fly \in Int /\ None # lastSeq /\ None <= lastSeq
  BY DEF TypeInv, DocTypes, UpTo, AskTypes, AsksNow, None
<1>4. \A i \in DOMAIN tasks' : tasks'[i].conn <= drops'
  BY DEF CallsStay
<1>5. CASE AskStays
  <2>1. /\ OneAt(CatchUpsAt') /\ (CatchUpsAt' = {} <=> CatchUpsAt = {})
        /\ \A j \in CatchUpsAt' : c2r'[j].after = asks.fly
    BY <1>5 DEF AskStays, CatchUpsStay, OneAsked
  <2>2. asks'.fly = asks.fly /\ asks'.again \in {None, asks'.fly} /\ asks'.fly <= lastSeq'
    BY <1>3, <1>5 DEF AskStays, OneAsked
  <2> QED
    BY <1>1, <1>2, <1>4, <2>1, <2>2 DEF OneAsked
<1>6. CASE AskGoes
  <2>1. CatchUpsAt = {} /\ PagesAt = {} /\ PagesHere = {}
    BY <1>6 DEF AskGoes, OneAsked
  <2>2. PICK n \in Nat : CatchUpsAt' = {n} /\ c2r'[n].after = lastSeq
    BY <1>6, <2>1 DEF AskGoes
  <2>3. asks'.fly = lastSeq /\ asks'.again = None
    BY <1>6 DEF AskGoes
  <2> QED
    BY <1>1, <1>2, <1>3, <1>4, <2>1, <2>2, <2>3 DEF OneAsked, OneAt
<1> QED
  BY <1>5, <1>6

LEMMA ShutStays ==
    ASSUME TypeInv, Shut, AskStays \/ AskGoes, CallsStay, open' = open, ~open /\ r2c = <<>> => r2c' = <<>>
    PROVE  Shut'
<1> SUFFICES ASSUME ~open PROVE Shut'
  BY DEF Shut
<1>1. AskStays
  BY DEF AskGoes
<1>2. CatchUpsAt' = {} /\ r2c' = <<>> /\ asks' = [fly |-> None, again |-> None, wait |-> None]
  BY <1>1 DEF Shut, AskStays, CatchUpsStay
<1>3. PagesHere' = {}
  BY DEF Shut, CallsStay
<1> QED
  BY <1>2, <1>3 DEF Shut

LEMMA ClimbsStays ==
    ASSUME TypeInv, OneAsked, Climbs, AskStays \/ AskGoes, CallsStay, lastSeq' \in Nat, lastSeq <= lastSeq'
    PROVE  Climbs'
<1>1. lastSeq \in Nat /\ asks.fly \in Int /\ asks.wait \in Int /\ None <= lastSeq'
  BY DEF TypeInv, DocTypes, UpTo, AskTypes, AsksNow, None
<1>2. ASSUME PagesHere' = {} PROVE asks'.wait <= lastSeq'
  <2>1. PagesHere = {}
    BY <1>2 DEF CallsStay
  <2>2. asks'.wait \in {asks.wait, lastSeq, None}
    BY DEF AskStays, AskGoes
  <2> QED
    BY <1>1, <2>1, <2>2 DEF Climbs
<1>3. ASSUME NEW j \in PagesHere'
      PROVE  /\ Steady(tasks'[j], lastSeq')
             /\ Reaches(tasks'[j], IF tasks'[j].more THEN asks'.fly + 1 ELSE asks'.wait, lastSeq')
  <2>1. PICK i \in PagesHere : GoesOn(tasks[i], tasks'[j], lastSeq, lastSeq')
    BY <1>3 DEF CallsStay
  <2>2. AskStays
    BY <2>1 DEF AskGoes, OneAsked
  <2>3. /\ Steady(tasks[i], lastSeq) /\ tasks'[j].more = tasks[i].more
        /\ Reaches(tasks[i], IF tasks[i].more THEN asks.fly + 1 ELSE asks.wait, lastSeq)
        /\ \A n \in Int : Reaches(tasks[i], n, lastSeq) => Reaches(tasks'[j], n, lastSeq')
        /\ Steady(tasks'[j], lastSeq')
    BY <2>1 DEF Climbs, GoesOn
  <2>4. CASE tasks[i].more
    BY <1>1, <2>2, <2>3, <2>4 DEF AskStays
  <2>5. CASE ~tasks[i].more
    <3>1. Reaches(tasks'[j], asks.wait, lastSeq') /\ Reaches(tasks'[j], lastSeq, lastSeq')
      BY <1>1, <2>3, <2>5 DEF Reaches
    <3>2. asks'.wait \in {asks.wait, lastSeq}
      BY <2>2 DEF AskStays
    <3> QED
      BY <2>3, <2>5, <3>1, <3>2
  <2> QED
    BY <2>4, <2>5
<1> QED
  BY <1>2, <1>3 DEF Climbs

\* What was sought is applied or still sought.
SoughtStays == \A u \in Stored : Sought(u) => u <= lastSeq' \/ Sought(u)'

LEMMA Between ==
    ASSUME NEW n \in Nat, NEW t \in 0..n, NEW s \in Nat, NEW r \in Nat, s <= r
    PROVE  \A u \in (r + 1)..t : u \in (s + 1)..t /\ u \in 1..n /\ ~(u <= r)
OBVIOUS

LEMMA MoreStays ==
    ASSUME CallsStay
    PROVE  MoreHere' <=> MoreHere
<1>1. MoreHere => MoreHere'
  BY DEF CallsStay, MoreHere
<1>2. MoreHere' => MoreHere
  BY DEF CallsStay, MoreHere, GoesOn
<1> QED
  BY <1>1, <1>2

LEMMA PursuedStays ==
    ASSUME TypeInv, Pursued, AskStays \/ AskGoes, CallsStay, PagesStay, SoughtStays,
           open' = open, told' = told, lastSeq' \in Nat, lastSeq <= lastSeq'
    PROVE  Pursued'
<1> SUFFICES ASSUME open PROVE Requested' \/ Known'
  BY DEF Pursued
<1>1. CASE Requested
  <2>1. CatchUpsAt # {} => CatchUpsAt' # {}
    BY DEF AskStays, AskGoes, CatchUpsStay
  <2> QED
    BY <1>1, <2>1, MoreStays DEF Requested, PagesStay
<1>2. CASE Known
  <2>1. \A u \in (lastSeq' + 1)..told : u \in (lastSeq + 1)..told /\ u \in Stored /\ ~(u <= lastSeq')
    <3>1. Len(log) \in Nat /\ told \in 0..Len(log) /\ lastSeq \in Nat /\ lastSeq' \in Nat /\ lastSeq <= lastSeq'
      BY Lengths DEF TypeInv, DocTypes, UpTo
    <3> QED
      BY <3>1, Between DEF Stored
  <2>2. \A u \in (lastSeq' + 1)..told' : Sought(u)'
    BY <1>2, <2>1 DEF Known, SoughtStays
  <2> QED
    BY <2>2 DEF Known
<1> QED
  BY <1>1, <1>2 DEF Pursued

\* Nothing came over the socket.
LEMMA QuietSocketStays ==
    ASSUME TypeInv, OneAsked, AskStays \/ AskGoes, UNCHANGED <<r2c, told, log>>
    PROVE  PagesStay /\ PagesAt' = PagesAt /\ (PagesSound => PagesSound')
<1>1. PagesAt' = PagesAt
  BY DEF PagesAt
<1>2. ASSUME PagesSound, NEW i \in PagesAt PROVE LastPage(i)' /\ \E b \in UpTo' : PageFrom(r2c[i], b, asks'.fly)
  <2>1. AskStays
    BY <1>2 DEF OneAsked, AskGoes
  <2>2. asks'.fly = asks.fly
    BY <2>1 DEF AskStays
  <2> QED
    BY <1>2, <2>2 DEF PagesSound, LastPage, UpTo
<1> QED
  BY <1>1, <1>2 DEF PagesSound, PagesStay

LEMMA InOrderStays ==
    ASSUME InOrder, AskStays \/ AskGoes, CallsStay, UNCHANGED <<r2c, told, log, open>>
    PROVE  InOrder'
<1>1. PagesAt' = PagesAt
  BY DEF PagesAt
<1>2. CatchUpsAt # {} => CatchUpsAt' # {}
  BY DEF AskStays, AskGoes, CatchUpsStay
<1>3. MoreComes => MoreComes'
  BY <1>1, <1>2, MoreStays DEF MoreComes
<1> QED
  BY <1>1, <1>3 DEF InOrder

-----------------------------------------------------------------------------
(* Steps of the calls.                                                     *)

LEMMA SoughtNext ==
    \A u : Sought(u)' <=> u \in future' \/ \E k \in Range(tasks') : u \in Brings(k)
BY DEF Sought, Brings, Range

LEMMA WithinNext ==
    ASSUME lastSeq' <= told', row'.seq <= told', \A u \in future' : u <= told',
           \A k \in Range(tasks') : \A u \in Brings(k) : u <= told'
    PROVE  Within'
BY DEF Within, Brings, Range

LEMMA TakenSought ==
    ASSUME TypeInv, NEW i \in 0..Len(tasks), NEW k \in TasksNow, i # 0 => tasks[i] = k,
           NEW j \in TasksNow, PutTask(i, j), future \subseteq future', lastSeq' = lastSeq,
           \A u \in Brings(k) : u <= lastSeq \/ u \in future' \/ u \in Brings(j)
    PROVE  SoughtStays /\ \A u \in Brings(k) : u <= lastSeq' \/ Sought(u)'
<1>1. /\ j \in Range(tasks')
      /\ \A x \in Range(tasks) : x \in Range(tasks') \/ x = k
  BY PutMembers
<1>2. \A u \in Brings(k) : u <= lastSeq' \/ Sought(u)'
  BY <1>1, SoughtNext
<1>3. ASSUME NEW u, Sought(u) PROVE u <= lastSeq' \/ Sought(u)'
  BY <1>1, <1>2, <1>3, SoughtNext DEF Sought
<1> QED
  BY <1>2, <1>3 DEF SoughtStays

LEMMA TakenWithin ==
    ASSUME TypeInv, Within, NEW i \in 0..Len(tasks), NEW k, NEW j \in TasksNow, PutTask(i, j),
           future' \subseteq future \cup Brings(k), Brings(j) \subseteq Brings(k),
           told' \in Nat, told <= told', UNCHANGED <<lastSeq, row>>, \A u \in Brings(k) : u <= told',
           \A x \in Range(tasks) : Brings(x) \subseteq Nat
    PROVE  Within'
<1>1. Range(tasks') \subseteq Range(tasks) \cup {j}
  BY PutMembers
<1>2. told \in Nat /\ lastSeq \in Nat /\ row.seq \in Nat /\ future \subseteq Nat
  BY Lengths DEF TypeInv, DocTypes, FutureTypes, UpTo, Stored
<1>3. lastSeq' <= told' /\ row'.seq <= told'
  BY <1>2 DEF Within
<1>4. ASSUME NEW u \in future' PROVE u <= told'
  <2>1. u \in future => u \in Nat /\ u <= told
    BY <1>2 DEF Within
  <2> QED
    BY <1>2, <2>1
<1>5. ASSUME NEW x \in Range(tasks'), NEW u \in Brings(x) PROVE u <= told'
  <2>1. x \in Range(tasks) => u \in Nat /\ u <= told
    BY DEF Within
  <2> QED
    BY <1>1, <1>2, <2>1
<1> QED
  BY <1>3, <1>4, <1>5, WithinNext

LEMMA BroughtIsStored ==
    ASSUME Reader, TypeInv
    PROVE  /\ \A k \in CallsNow : Brings(k) \subseteq Stored
           /\ \A k \in Range(tasks) : k \in CallsNow /\ Brings(k) \subseteq Stored
           /\ Stored \subseteq Nat
<1>1. ASSUME NEW k \in CallsNow PROVE Brings(k) \subseteq Stored
  <2>1. k.todo \in Seq(EnvelopesNow) /\ k.opening \in Seq(EnvelopesNow)
    BY OneIsSeq DEF CallsNow
  <2>2. Range(k.todo) \subseteq EnvelopesNow /\ Range(k.opening) \subseteq EnvelopesNow
    BY <2>1, Members
  <2> QED
    BY <2>2 DEF Brings, EnvelopesNow
<1>2. Range(tasks) \subseteq CallsNow
  BY TaskFacts, Members
<1>3. Stored \subseteq Nat
  BY Lengths DEF TypeInv, Stored
<1> QED
  BY <1>1, <1>2, <1>3

\* A step of a call, or of nobody, while the socket brings nothing.
LEMMA GapStays ==
    ASSUME TypeInv, GapInv, AskStays \/ AskGoes, CallsStay, SoughtStays, Within', NextFree',
           UNCHANGED <<r2c, told, log, open>>, lastSeq' \in Nat, lastSeq <= lastSeq'
    PROVE  GapInv'
<1>1. OneAsked /\ Shut /\ PagesSound /\ Within /\ Climbs /\ NextFree /\ Pursued /\ InOrder
  BY DEF GapInv
<1>2. PagesStay /\ PagesSound'
  BY <1>1, QuietSocketStays
<1>3. OneAsked' /\ Climbs' /\ Pursued' /\ InOrder'
  BY <1>1, <1>2, OneAskedStays, ClimbsStays, PursuedStays, InOrderStays
<1>4. Shut'
  BY <1>1, ShutStays
<1> QED
  BY <1>2, <1>3, <1>4 DEF GapInv

LEMMA TakeEnvelopeGap ==
    ASSUME Reader, TypeInv, GapInv, NEW i \in DOMAIN tasks, TakeEnvelope(i)
    PROVE  GapInv'
<1> DEFINE k == tasks[i]
<1>1. /\ k \in CallsNow /\ k \in TasksNow /\ k \in Range(tasks) /\ i \in 0..Len(tasks) /\ i # 0
      /\ k.opening = <<>> /\ k.todo # <<>> /\ Take(k, i)
  BY TaskFacts, TaskMember DEF TakeEnvelope
<1>2. OneAsked /\ Within /\ NextFree
  BY DEF GapInv
<1> HIDE DEF k
<1>3. PICK j \in CallsNow :
         /\ PutTask(i, j) /\ j.t = k.t /\ j.conn = k.conn /\ GoesOn(k, j, lastSeq, lastSeq)
         /\ Brings(j) \subseteq Brings(k)
         /\ \A u \in Brings(k) : u <= lastSeq \/ u \in future' \/ u \in Brings(j)
         /\ future \subseteq future' /\ future' \subseteq future \cup Brings(k)
         /\ lastSeq + 1 \in future' => lastSeq + 1 \in future
         /\ UNCHANGED <<asks, c2r>> \/ RequestCatchup(lastSeq)
  BY <1>1, TakeMoves
<1>4. UNCHANGED <<lastSeq, row, r2c, told, log, open, drops>>
  BY DEF TakeEnvelope, relay, bounds
<1>5. j \in TasksNow /\ SetTask(i, j) /\ k = tasks[i] /\ lastSeq \in Nat /\ told \in Nat
  BY <1>1, <1>3, TaskFacts DEF TasksNow, PutTask, k
<1>6. CallsStay
  BY <1>2, <1>3, <1>4, <1>5, CallsPut
<1>7. AskStays \/ AskGoes
  BY <1>2, <1>3, AsksAlike, Asks
<1>8. SoughtStays
  BY <1>1, <1>3, <1>4, <1>5, TakenSought
<1>9. Within'
  <2>1. \A x \in Range(tasks) : Brings(x) \subseteq Nat
    BY BroughtIsStored
  <2>2. \A u \in Brings(k) : u <= told'
    BY <1>1, <1>2, <1>4 DEF Within
  <2>3. told' \in Nat /\ told <= told'
    BY <1>4, <1>5
  <2> QED
    BY <1>1, <1>2, <1>3, <1>4, <1>5, <2>1, <2>2, <2>3, TakenWithin
<1>10. NextFree'
  BY <1>2, <1>3, <1>4 DEF NextFree
<1>11. lastSeq' \in Nat /\ lastSeq <= lastSeq'
  BY <1>4, <1>5
<1> QED
  BY <1>4, <1>6, <1>7, <1>8, <1>9, <1>10, <1>11, GapStays
LEMMA JoinedAll ==
    ASSUME NEW S, NEW s \in Seq(S), NEW t \in Seq(S)
    PROVE  Range(s) \cup Range(t) \subseteq Range(s \o t)
<1>1. /\ Len(s) \in Nat /\ DOMAIN s = 1..Len(s) /\ Len(t) \in Nat /\ DOMAIN t = 1..Len(t)
      /\ DOMAIN (s \o t) = 1..(Len(s) + Len(t))
      /\ \A i \in 1..(Len(s) + Len(t)) : (s \o t)[i] = IF i <= Len(s) THEN s[i] ELSE t[i - Len(s)]
  BY ConcatProperties, LenProperties
<1>2. \A i \in 1..Len(s) : i \in 1..(Len(s) + Len(t)) /\ (s \o t)[i] = s[i]
  BY <1>1
<1>3. \A i \in 1..Len(t) : i + Len(s) \in 1..(Len(s) + Len(t)) /\ (s \o t)[i + Len(s)] = t[i]
  BY <1>1
<1>4. Range(s) \subseteq Range(s \o t)
  BY <1>1, <1>2 DEF Range
<1>5. Range(t) \subseteq Range(s \o t)
  BY <1>1, <1>3 DEF Range
<1> QED
  BY <1>4, <1>5

\* The update held for the next place comes before what the call had left.
LEMMA OpenedGoesOn ==
    ASSUME TypeInv, NEW k \in CallsNow, NEW j \in CallsNow, k.opening # <<>>, NEW s \in Nat, NEW h \in Seq(EnvelopesNow),
           j.opening = <<>>, j.more = k.more, j.todo = h \o k.todo,
           NEW r \in Nat, r = Larger(s, k.opening[1].seq), h = <<>> \/ (Len(h) = 1 /\ h[1].seq = r + 1)
    PROVE  GoesOn(k, j, s, r)
<1>1. /\ Len(k.todo) \in Nat /\ k.todo \in Seq(EnvelopesNow) /\ Stored \subseteq Nat
      /\ \A i \in 1..Len(k.todo) : k.todo[i].seq \in Stored
      /\ k.opening[1].seq \in Nat
  BY CallParts
<1>2. s <= r /\ Top(k, s) = r /\ Top(j, r) = r /\ k.opening[1].seq <= r
  BY <1>1 DEF Top, Larger
<1>3. /\ Len(h) \in Nat /\ Len(j.todo) = Len(h) + Len(k.todo) /\ (h # <<>> => Len(h) = 1) /\ (h = <<>> => Len(h) = 0)
      /\ \A i \in 1..(Len(h) + Len(k.todo)) : j.todo[i] = IF i <= Len(h) THEN h[i] ELSE k.todo[i - Len(h)]
      /\ Len(j.todo) \in Nat
  BY <1>1, ConcatProperties, LenProperties, EmptySeq
<1>4. ASSUME Steady(k, s) PROVE Steady(j, r)
  <2>1. k.todo # <<>> => k.todo[1].seq <= r + 1 /\ Len(k.todo) >= 1
    BY <1>1, <1>2, <1>4, EmptySeq DEF Steady
  <2>2. j.todo # <<>> => j.todo[1].seq <= Top(j, r) + 1
    <3>1. CASE h = <<>>
      <4>1. j.todo = k.todo
        BY <1>1, <3>1, ConcatEmptySeq
      <4> QED
        BY <1>2, <2>1, <4>1
    <3>2. CASE h # <<>>
      <4>1. Len(h) = 1 /\ h[1].seq = r + 1
        BY <3>2
      <4>2. j.todo[1] = h[1]
        BY <1>1, <1>3, <4>1
      <4> QED
        BY <1>2, <4>1, <4>2
    <3> QED
      BY <3>1, <3>2
  <2>3. ASSUME NEW i \in 1..(Len(j.todo) - 1) PROVE j.todo[i + 1].seq <= j.todo[i].seq + 1
    <3>1. CASE h = <<>>
      <4>1. j.todo = k.todo
        BY <1>1, <3>1, ConcatEmptySeq
      <4> QED
        BY <1>4, <2>3, <4>1 DEF Steady
    <3>2. CASE h # <<>> /\ i = 1
      <4>1. Len(h) = 1 /\ h[1].seq = r + 1 /\ Len(k.todo) >= 1
        BY <1>1, <1>3, <2>3, <3>2
      <4>2. j.todo[1] = h[1] /\ j.todo[2] = k.todo[1]
        BY <1>1, <1>3, <4>1
      <4>3. k.todo[1].seq <= r + 1 /\ k.todo[1].seq \in Nat
        <5>1. 1 \in 1..Len(k.todo) /\ k.todo # <<>>
          BY <1>1, <4>1, EmptySeq
        <5> QED
          BY <1>1, <2>1, <5>1
      <4>4. j.todo[i + 1].seq = k.todo[1].seq /\ j.todo[i].seq = r + 1
        BY <3>2, <4>1, <4>2
      <4> DEFINE x == j.todo[i + 1].seq
                 y == j.todo[i].seq
      <4>5. x <= r + 1 /\ x \in Nat /\ y = r + 1
        BY <4>3, <4>4
      <4> HIDE DEF x, y
      <4>6. x <= y + 1
        BY <4>5
      <4> QED
        BY <4>6 DEF x, y
    <3>3. CASE h # <<>> /\ i # 1
      <4>0. Len(h) = 1 /\ Len(j.todo) = 1 + Len(k.todo) /\ Len(k.todo) \in Nat
        BY <1>1, <1>3, <3>3
      <4>1. Len(h) = 1 /\ i - 1 \in 1..(Len(k.todo) - 1)
        BY <2>3, <3>3, <4>0
      <4>2. /\ i \in 1..(Len(h) + Len(k.todo)) /\ i + 1 \in 1..(Len(h) + Len(k.todo))
            /\ ~(i <= Len(h)) /\ ~(i + 1 <= Len(h))
            /\ i - Len(h) = i - 1 /\ (i + 1) - Len(h) = (i - 1) + 1
        BY <1>1, <2>3, <3>3, <4>0
      <4>3. j.todo[i] = k.todo[i - 1]
        BY <1>3, <4>2
      <4>4. j.todo[i + 1] = k.todo[(i - 1) + 1]
        BY <1>3, <4>2
      <4> QED
        BY <1>4, <4>1, <4>3, <4>4 DEF Steady
    <3> QED
      BY <3>1, <3>2, <3>3
  <2> QED
    BY <2>2, <2>3 DEF Steady
<1>5. Brings(k) \subseteq {k.opening[1].seq} \cup {e.seq : e \in Range(k.todo)}
  <2>1. Range(k.opening) = {k.opening[1]}
    <3>1. PICK e \in EnvelopesNow : k.opening = <<e>>
      BY CallParts
    <3> QED
      BY <3>1 DEF Range
  <2> QED
    BY <2>1 DEF Brings
<1>6. Range(k.todo) \subseteq Range(j.todo)
  <2>1. DOMAIN k.todo = 1..Len(k.todo) /\ DOMAIN j.todo = 1..Len(j.todo)
    BY CallParts
  <2>2. \A i \in 1..Len(k.todo) : i + Len(h) \in 1..Len(j.todo) /\ j.todo[i + Len(h)] = k.todo[i]
    BY <1>1, <1>3
  <2> QED
    BY <2>1, <2>2 DEF Range
<1>7. {e.seq : e \in Range(k.todo)} \subseteq Brings(j)
  BY <1>6 DEF Brings
<1>8. \A n \in Int : Reaches(k, n, s) => Reaches(j, n, r)
  BY <1>1, <1>2, <1>5, <1>7 DEF Reaches
<1> QED
  BY <1>4, <1>8 DEF GoesOn

LEMMA OpenedGap ==
    ASSUME Reader, TypeInv, GapInv, NEW i \in DOMAIN tasks, Opened(i)
    PROVE  GapInv'
<1> DEFINE k == tasks[i]
           e == k.opening[1]
           seq == Larger(lastSeq, e.seq)
           h == HeldAfter(seq)
           j == [k EXCEPT !.opening = <<>>, !.todo = h \o k.todo, !.applied = TRUE]
<1>1. /\ k \in CallsNow /\ k \in TasksNow /\ k \in Range(tasks) /\ i \in 0..Len(tasks) /\ i # 0 /\ k.opening # <<>>
      /\ k.todo \in Seq(EnvelopesNow) /\ k.opening = <<e>> /\ e \in EnvelopesNow /\ e.seq \in Stored /\ e.seq \in UpTo
  <2>1. k \in CallsNow /\ k \in TasksNow /\ k \in Range(tasks) /\ i \in 0..Len(tasks) /\ i # 0 /\ k.opening # <<>>
    BY TaskFacts, TaskMember DEF Opened
  <2> QED
    BY <2>1, CallParts, Lengths DEF TypeInv
<1>2. seq \in UpTo /\ seq \in Nat /\ lastSeq \in Nat /\ e.seq \in Nat /\ lastSeq <= seq /\ e.seq <= seq
      /\ (seq = lastSeq \/ seq = e.seq)
  <2>1. seq \in UpTo
    BY <1>1, Told
  <2>2. lastSeq \in Nat /\ e.seq \in Nat
    BY <1>1 DEF TypeInv, DocTypes, UpTo
  <2> QED
    BY <2>1, <2>2 DEF UpTo, Larger
<1>3. /\ h \in Seq(EnvelopesNow)
      /\ h = <<>> \/ (Len(h) = 1 /\ h[1].seq = seq + 1)
      /\ {x.seq : x \in Range(h)} = IF seq + 1 \in future THEN {seq + 1} ELSE {}
  <2>1. CASE seq + 1 \in future
    <3>1. seq + 1 \in Stored /\ h = <<UpdateAt(seq + 1)>>
      BY <2>1 DEF TypeInv, FutureTypes, HeldAfter
    <3>2. UpdateAt(seq + 1) \in EnvelopesNow /\ UpdateAt(seq + 1).seq = seq + 1
      BY <3>1, UpdateTyped DEF TypeInv, UpdateAt
    <3>3. Range(h) = {UpdateAt(seq + 1)} /\ Len(h) = 1 /\ h[1] = UpdateAt(seq + 1)
      BY <3>1 DEF Range
    <3> QED
      BY <2>1, <3>1, <3>2, <3>3, OneIsSeq
  <2>2. CASE seq + 1 \notin future
    <3>1. h = <<>>
      BY <2>2 DEF HeldAfter
    <3>2. Range(h) = {}
      BY <3>1 DEF Range
    <3> QED
      BY <2>2, <3>1, <3>2
  <2> QED
    BY <2>1, <2>2
<1>4. /\ lastSeq' = seq /\ future' = future \ {seq + 1} /\ SetTask(i, j)
      /\ UNCHANGED <<asks, c2r, row, r2c, told, log, open, drops>>
  BY DEF Opened, session, relay, bounds
<1> HIDE DEF seq, h
<1>5. /\ j \in CallsNow /\ j.opening = <<>> /\ j.todo = h \o k.todo /\ j.t = k.t /\ j.conn = k.conn /\ j.more = k.more
  <2>1. h \o k.todo \in Seq(EnvelopesNow)
    BY <1>1, <1>3, Extended
  <2> QED
    BY <1>1, <2>1, CallTyped DEF CallsNow
<1> HIDE DEF j, k
<1>6. GoesOn(k, j, lastSeq, seq)
  BY <1>1, <1>2, <1>3, <1>5, OpenedGoesOn DEF seq
<1>7. /\ Brings(k) \subseteq {e.seq} \cup Brings(j)
      /\ Brings(j) \subseteq Brings(k) \cup {x.seq : x \in Range(h)}
      /\ {x.seq : x \in Range(h)} \subseteq Brings(j)
  <2>1. Range(k.opening) = {e} /\ Range(j.opening) = {}
    BY <1>1, <1>5 DEF Range
  <2>2. Range(j.todo) = Range(h) \cup Range(k.todo)
    <3>1. Range(j.todo) \subseteq Range(h) \cup Range(k.todo)
      BY <1>1, <1>3, <1>5, Joined
    <3>2. Range(h) \cup Range(k.todo) \subseteq Range(j.todo)
      BY <1>1, <1>3, <1>5, JoinedAll
    <3> QED
      BY <3>1, <3>2
  <2> QED
    BY <2>1, <2>2 DEF Brings
<1>8. OneAsked /\ Within
  BY DEF GapInv
<1>9. k = tasks[i] /\ j \in TasksNow
  BY <1>5 DEF k, TasksNow
<1>10. CallsStay
  BY <1>2, <1>4, <1>5, <1>6, <1>8, <1>9, CallsPut
<1>11. AskStays
  BY <1>4, <1>8, AsksAlike
<1>12. /\ Range(tasks') \subseteq Range(tasks) \cup {j} /\ j \in Range(tasks')
       /\ \A x \in Range(tasks) : x \in Range(tasks') \/ x = k
  <2>1. PutTask(i, j)
    BY <1>1, <1>4 DEF PutTask
  <2> QED
    BY <1>1, <1>9, <2>1, PutMembers
<1>13. SoughtStays
  <2>1. ASSUME NEW u \in Stored, Sought(u) PROVE u <= lastSeq' \/ Sought(u)'
    <3>1. CASE u \in future
      BY <1>3, <1>4, <1>7, <1>12, <3>1, SoughtNext
    <3>2. CASE \E x \in Range(tasks) : u \in Brings(x)
      BY <1>2, <1>4, <1>7, <1>12, <3>2, SoughtNext
    <3> QED
      BY <2>1, <3>1, <3>2 DEF Sought
  <2> QED
    BY <2>1 DEF SoughtStays
<1>14. Within'
  <2>1. e.seq \in Brings(k) /\ lastSeq' <= told' /\ row'.seq <= told'
    <3>1. e.seq \in Brings(k)
      BY <1>1 DEF Brings, Range
    <3> QED
      BY <1>1, <1>2, <1>4, <1>8, <3>1 DEF Within
  <2>2. \A u \in future' : u <= told'
    BY <1>4, <1>8 DEF Within
  <2>3. \A u \in Brings(j) : u <= told'
    BY <1>1, <1>3, <1>4, <1>7, <1>8 DEF Within
  <2>4. \A x \in Range(tasks') : \A u \in Brings(x) : u <= told'
    BY <1>4, <1>8, <1>12, <2>3 DEF Within
  <2> QED
    BY <2>1, <2>2, <2>4, WithinNext
<1>15. NextFree'
  BY <1>4 DEF NextFree
<1> QED
  BY <1>2, <1>4, <1>10, <1>11, <1>13, <1>14, <1>15, GapStays

\* A call that returns has nothing left to bring.
LEMMA EndsSought ==
    ASSUME TypeInv, Within, NEW i \in DOMAIN tasks, EndTask(i), tasks[i].opening = <<>>, tasks[i].todo = <<>>,
           UNCHANGED <<future, lastSeq, told>>, row'.seq \in {row.seq, Larger(row.seq, lastSeq)}
    PROVE  SoughtStays /\ Within'
<1>1. Range(tasks') \subseteq Range(tasks) /\ \A x \in Range(tasks) : x \in Range(tasks') \/ x = tasks[i]
  BY EndMembers
<1>2. Brings(tasks[i]) = {}
  BY DEF Brings, Range
<1>3. SoughtStays
  BY <1>1, <1>2, SoughtNext DEF SoughtStays, Sought
<1>4. Within'
  BY <1>1, WithinNext DEF Within, Larger
<1> QED
  BY <1>3, <1>4

LEMMA EndUpdateGap ==
    ASSUME Reader, TypeInv, GapInv, NEW i \in DOMAIN tasks, EndUpdate(i)
    PROVE  GapInv'
<1>1. /\ EndTask(i) /\ tasks[i].t = "update" /\ tasks[i].opening = <<>> /\ tasks[i].todo = <<>>
      /\ UNCHANGED <<lastSeq, future, asks, c2r, r2c, told, log, open, drops>>
      /\ row'.seq \in {row.seq, Larger(row.seq, lastSeq)}
  BY DEF EndUpdate, Save, relay, bounds
<1>2. OneAsked /\ Within /\ NextFree
  BY DEF GapInv
<1>3. i \notin PagesHere
  BY <1>1 DEF PagesHere
<1>4. CallsStay
  BY <1>1, <1>2, <1>3, CallsEnd
<1>5. AskStays
  BY <1>1, <1>2, AsksAlike
<1>6. SoughtStays /\ Within'
  BY <1>1, <1>2, EndsSought
<1>7. NextFree'
  BY <1>1, <1>2 DEF NextFree
<1>8. lastSeq' \in Nat /\ lastSeq <= lastSeq'
  BY <1>1, TaskFacts
<1> QED
  BY <1>1, <1>4, <1>5, <1>6, <1>7, <1>8, GapStays

\* The page came over an earlier socket: its call ends, and asks as any other.
LEMMA EndOldPageGap ==
    ASSUME Reader, TypeInv, GapInv, NEW i \in DOMAIN tasks, EndPage(i), i \notin PagesHere
    PROVE  GapInv'
<1>1. /\ EndTask(i) /\ tasks[i].t = "page" /\ tasks[i].opening = <<>> /\ tasks[i].todo = <<>>
      /\ UNCHANGED <<lastSeq, future, r2c, told, log, open, drops>>
      /\ row'.seq \in {row.seq, Larger(row.seq, lastSeq)}
  BY DEF EndPage, Save, relay, bounds
<1>2. OneAsked /\ Within /\ NextFree
  BY DEF GapInv
<1>3. ~OfThisSocket(tasks[i])
  BY <1>1 DEF PagesHere
<1>4. /\ asks' = IF tasks[i].more THEN Ask(asks, lastSeq) ELSE asks
      /\ c2r' = c2r \o Requests(asks, asks')
  BY <1>3 DEF EndPage
<1>5. AskStays \/ AskGoes
  <2>1. CASE tasks[i].more
    BY <1>2, <1>4, <2>1, Asks DEF RequestCatchup
  <2>2. CASE ~tasks[i].more
    <3>1. asks' = asks /\ Requests(asks, asks') = <<>>
      BY <1>4, <2>2 DEF Requests
    <3>2. c2r' = c2r
      BY <1>4, <3>1, ConcatEmptySeq DEF TypeInv, SocketTypes
    <3> QED
      BY <1>2, <3>1, <3>2, AsksAlike
  <2> QED
    BY <2>1, <2>2
<1>6. CallsStay
  BY <1>1, <1>2, CallsEnd
<1>7. SoughtStays /\ Within'
  BY <1>1, <1>2, EndsSought
<1>8. NextFree'
  BY <1>1, <1>2 DEF NextFree
<1>9. lastSeq' \in Nat /\ lastSeq <= lastSeq'
  BY <1>1, TaskFacts
<1> QED
  BY <1>1, <1>5, <1>6, <1>7, <1>8, <1>9, GapStays

\* The queue when the page asked for has been applied: the request that waited, the page that
\* follows or the repeat of this one goes out, or nothing was left to ask for.
AsksOn ==
    /\ asks'.fly # None /\ asks'.fly <= lastSeq /\ asks'.again = None /\ asks'.wait = None
    /\ \E n \in Nat : CatchUpsAt' = {n} /\ c2r'[n].after = asks'.fly
AsksNoMore == asks' = [fly |-> None, again |-> None, wait |-> None] /\ c2r' = c2r

LEMMA IdleQueue ==
    ASSUME NEW q \in AsksNow
    PROVE  /\ [q EXCEPT !.fly = None, !.again = None].fly = None
           /\ [q EXCEPT !.fly = None, !.again = None].again = None
           /\ [q EXCEPT !.fly = None, !.again = None].wait = q.wait
           /\ LogTypes => [q EXCEPT !.fly = None, !.again = None] \in AsksNow
<1>1. LogTypes => None \in None..Len(log)
  BY Lengths
<1> QED
  BY <1>1 DEF AsksNow

LEMMA PumpIdle ==
    ASSUME NEW q \in AsksNow, q.fly = None, q.again = None
    PROVE  Pump(q).again = None /\ Pump(q).wait = None /\ Pump(q).fly = q.wait
BY DEF AsksNow, Pump

LEMMA NoQueue ==
    ASSUME NEW q \in AsksNow, q.fly = None, q.again = None, q.wait = None
    PROVE  q = [fly |-> None, again |-> None, wait |-> None]
BY DEF AsksNow

LEMMA FinishAsks ==
    ASSUME Reader, TypeInv, GapInv, NEW i \in PagesHere, EndPage(i)
    PROVE  AsksOn \/ (AsksNoMore /\ ~tasks[i].more)
<1> DEFINE k == tasks[i]
           asked == IF k.more THEN Ask(asks, lastSeq) ELSE asks
           m == [t |-> "catchup", after |-> asks'.fly]
<1>1. OneAsked /\ Shut /\ Climbs
  BY DEF GapInv
<1>2. open /\ asks.fly # None /\ CatchUpsAt = {} /\ asks.again \in {None, asks.fly} /\ asks.fly <= lastSeq
  BY <1>1 DEF OneAsked, Shut
<1>3. asks \in AsksNow /\ lastSeq \in UpTo /\ lastSeq \in Nat /\ asks.fly \in Int /\ asks.wait \in Int /\ lastSeq # None
  BY DEF TypeInv, AskTypes, DocTypes, AsksNow, UpTo, None
<1>4. k.opening = <<>> /\ k.todo = <<>> /\ OfThisSocket(k)
  BY DEF EndPage, PagesHere
<1>5. asks' = Finish(asked, health) /\ c2r' = c2r \o Requests([asks EXCEPT !.fly = None], asks')
  BY <1>4 DEF EndPage
<1>6. (IF k.more THEN asks.fly + 1 ELSE asks.wait) <= lastSeq
  <2>1. Brings(k) = {}
    BY <1>4 DEF Brings, Range
  <2> QED
    BY <1>1, <2>1 DEF Climbs, Reaches
<1> HIDE DEF k
<1>7. asked = IF k.more THEN [asks EXCEPT !.wait = lastSeq] ELSE asks
  <2>1. k.more => asks.fly # lastSeq
    BY <1>3, <1>6
  <2> QED
    BY <1>2, <1>3, <2>1 DEF Ask, Pump, AsksNow
<1>8. /\ asks'.fly \in {asks.fly, asked.wait} /\ asks'.again = None /\ asks'.wait = None
      /\ asks'.fly = None => asks' = [fly |-> None, again |-> None, wait |-> None] /\ asked.wait = None
  <2>1. asked \in AsksNow /\ asked.fly = asks.fly /\ asked.again = asks.again
    BY <1>3, <1>7, Lengths DEF AsksNow, TypeInv
  <2> HIDE DEF asked
  <2> DEFINE idle == [asked EXCEPT !.fly = None, !.again = None]
  <2>2. idle \in AsksNow /\ idle.fly = None /\ idle.again = None /\ idle.wait = asked.wait
    BY <2>1, IdleQueue DEF TypeInv
  <2>3. asks' = Pump(IF asked.again # None /\ health = "sequence-gap" THEN [idle EXCEPT !.wait = asked.again] ELSE idle)
    BY <1>5 DEF Finish
  <2> HIDE DEF idle
  <2>4. CASE asked.again # None /\ health = "sequence-gap"
    <3> DEFINE q == [idle EXCEPT !.wait = asked.again]
    <3>1. q \in AsksNow /\ q.fly = None /\ q.again = None /\ q.wait = asks.fly
      BY <1>2, <2>1, <2>2, <2>4 DEF AsksNow
    <3>2. asks' = Pump(q)
      BY <2>3, <2>4
    <3> HIDE DEF q
    <3> QED
      BY <1>2, <3>1, <3>2, PumpIdle
  <2>5. CASE ~(asked.again # None /\ health = "sequence-gap")
    <3>1. asks' = Pump(idle)
      BY <2>3, <2>5
    <3>2. asks'.again = None /\ asks'.wait = None /\ asks'.fly = asked.wait
      BY <2>2, <3>1, PumpIdle
    <3>3. asks' \in AsksNow
      BY <2>2, <3>1, Pumped DEF TypeInv
    <3> QED
      BY <3>2, <3>3, NoQueue
  <2> QED
    BY <2>4, <2>5
<1>9. asked.wait = IF k.more THEN lastSeq ELSE asks.wait
  BY <1>3, <1>7 DEF AsksNow
<1> HIDE DEF asked
<1>10. CASE asks'.fly # None
  <2>1. asks'.fly <= lastSeq /\ asks'.fly \in UpTo
    <3>1. asks'.fly <= lastSeq /\ asks'.fly \in Int /\ asks'.fly >= None
      BY <1>2, <1>3, <1>6, <1>8, <1>9 DEF AsksNow, None
    <3>2. asks'.fly \in UpTo
      BY <1>3, <1>10, <3>1, Lengths DEF UpTo, None, TypeInv
    <3> QED
      BY <3>1, <3>2
  <2>2. Requests([asks EXCEPT !.fly = None], asks') = <<m>> /\ m.t = "catchup" /\ m.after = asks'.fly
    BY <1>3, <1>10 DEF Requests, AsksNow
  <2>3. m \in RequestsNow
    BY <2>1 DEF RequestsNow, CatchupsNow
  <2> HIDE DEF m
  <2>4. c2r' = Append(c2r, m)
    <3>1. c2r' = c2r \o <<m>>
      BY <1>5, <2>2
    <3>2. c2r \in Seq(RequestsNow)
      BY DEF TypeInv, SocketTypes
    <3> QED
      BY <2>3, <3>1, <3>2
  <2>5. CatchUpsAt' = CatchUpsAt \cup {Len(c2r) + 1} /\ c2r'[Len(c2r) + 1] = m /\ Len(c2r) + 1 \in Nat
    BY <2>2, <2>3, <2>4, CatchUpsPushed
  <2> QED
    BY <1>2, <1>8, <1>10, <2>1, <2>2, <2>5 DEF AsksOn
<1>11. CASE asks'.fly = None
  <2>1. Requests([asks EXCEPT !.fly = None], asks') = <<>>
    BY <1>11 DEF Requests
  <2>2. c2r' = c2r
    BY <1>5, <2>1, ConcatEmptySeq DEF TypeInv, SocketTypes
  <2> QED
    BY <1>3, <1>8, <1>9, <1>11, <2>2 DEF AsksNoMore, k
<1> QED
  BY <1>10, <1>11

LEMMA EndThisPageGap ==
    ASSUME Reader, TypeInv, GapInv, NEW i \in PagesHere, EndPage(i)
    PROVE  GapInv'
<1>1. /\ EndTask(i) /\ i \in DOMAIN tasks /\ tasks[i].opening = <<>> /\ tasks[i].todo = <<>>
      /\ UNCHANGED <<lastSeq, future, r2c, told, log, open, drops>>
      /\ row'.seq \in {row.seq, Larger(row.seq, lastSeq)}
  BY DEF EndPage, Save, PagesHere, relay, bounds
<1>2. OneAsked /\ Shut /\ Within /\ NextFree /\ Pursued /\ InOrder
  BY DEF GapInv
<1>3. open /\ CatchUpsAt = {} /\ PagesAt = {} /\ PagesAt' = {}
  BY <1>1, <1>2 DEF OneAsked, Shut, PagesAt
<1>4. PagesHere' = {} /\ \A j \in DOMAIN tasks' : tasks'[j].conn <= drops'
  <2>1. /\ Len(tasks) \in Nat /\ DOMAIN tasks = 1..Len(tasks) /\ DOMAIN tasks' = 1..(Len(tasks) - 1)
        /\ \A j \in 1..(Len(tasks) - 1) : tasks'[j] = tasks[IF j < i THEN j ELSE j + 1]
    BY <1>1, Ended
  <2>2. ASSUME NEW j \in DOMAIN tasks' PROVE tasks'[j].conn <= drops' /\ j \notin PagesHere'
    <3> DEFINE l == IF j < i THEN j ELSE j + 1
    <3>1. l \in DOMAIN tasks /\ l # i /\ tasks'[j] = tasks[l]
      BY <1>1, <2>1
    <3> HIDE DEF l
    <3>2. l \notin PagesHere
      BY <1>2, <3>1 DEF OneAsked, OneAt
    <3> QED
      BY <1>1, <1>2, <3>1, <3>2 DEF PagesHere, OfThisSocket, OneAsked
  <2> QED
    BY <2>2 DEF PagesHere
<1>5. AsksOn \/ (AsksNoMore /\ ~tasks[i].more)
  BY FinishAsks
<1>6. SoughtStays /\ Within'
  BY <1>1, <1>2, EndsSought
<1>7. NextFree'
  BY <1>1, <1>2 DEF NextFree
<1>8. Shut' /\ PagesSound'
  BY <1>1, <1>3 DEF Shut, PagesSound
<1>9. lastSeq \in Nat /\ None <= lastSeq /\ None # lastSeq
  BY TaskFacts DEF None
<1>10. CASE AsksOn
  <2>1. PICK n \in Nat : CatchUpsAt' = {n} /\ c2r'[n].after = asks'.fly
    BY <1>10 DEF AsksOn
  <2>2. OneAsked'
    BY <1>1, <1>3, <1>4, <1>10, <2>1 DEF OneAsked, AsksOn, OneAt
  <2>3. Climbs'
    BY <1>1, <1>4, <1>9, <1>10 DEF Climbs, AsksOn
  <2>4. Pursued' /\ InOrder'
    BY <2>1 DEF Pursued, Requested, InOrder, MoreComes
  <2> QED
    BY <1>6, <1>7, <1>8, <2>2, <2>3, <2>4 DEF GapInv
<1>11. CASE AsksNoMore /\ ~tasks[i].more
  <2>1. CatchUpsAt' = {} /\ asks'.fly = None /\ asks'.again = None /\ asks'.wait = None
    BY <1>3, <1>11 DEF AsksNoMore, CatchUpsAt
  <2>2. OneAsked' /\ Climbs'
    BY <1>1, <1>3, <1>4, <1>9, <2>1 DEF OneAsked, OneAt, Climbs
  <2>3. ~MoreHere
    BY <1>2, <1>11 DEF MoreHere, OneAsked, OneAt
  <2>4. Known
    BY <1>2, <1>3, <2>3 DEF Pursued, Requested
  <2>5. Known'
    <3>1. \A u \in (lastSeq + 1)..told : u \in Stored /\ ~(u <= lastSeq)
      BY Lengths, Between, <1>9 DEF TypeInv, DocTypes, UpTo, Stored
    <3> QED
      BY <1>1, <1>6, <2>4, <3>1 DEF Known, SoughtStays
  <2>6. InOrder'
    <3>1. ~MoreComes
      BY <1>3, <2>3 DEF MoreComes
    <3> QED
      BY <1>1, <1>2, <1>3, <3>1 DEF InOrder
  <2> QED
    BY <1>6, <1>7, <1>8, <2>2, <2>5, <2>6 DEF GapInv, Pursued
<1> QED
  BY <1>5, <1>10, <1>11

-----------------------------------------------------------------------------
(* Steps of the device beside its calls.                                   *)

\* Nothing that the invariant speaks of moves, but for requests that are no catch-ups.
LEMMA StillGap ==
    ASSUME Reader, TypeInv, GapInv, AskStays, UNCHANGED <<lastSeq, future, tasks, row, r2c, told, log, open, drops>>
    PROVE  GapInv'
<1>1. OneAsked /\ Within /\ NextFree
  BY DEF GapInv
<1>2. CallsStay
  BY <1>1, CallsSame
<1>3. SoughtStays
  BY SoughtNext DEF SoughtStays, Sought
<1>4. Within' /\ NextFree'
  BY <1>1, WithinNext DEF Within, NextFree
<1>5. lastSeq' \in Nat /\ lastSeq <= lastSeq'
  BY TaskFacts
<1> QED
  BY <1>2, <1>3, <1>4, <1>5, GapStays

LEMMA QuietGap ==
    ASSUME Reader, TypeInv, GapInv, UNCHANGED vars \/ CaptureSnapshot \/ ReadBack \/ PeerSnapshots \/ Prune
    PROVE  GapInv'
<1>1. UNCHANGED <<lastSeq, future, tasks, row, r2c, told, log, open, drops, asks, c2r>>
  BY DEF CaptureSnapshot, ReadBack, PeerSnapshots, Prune, vars, engine, session, relay, bounds
<1>2. AskStays
  BY <1>1, AsksAlike DEF GapInv
<1> QED
  BY <1>1, <1>2, StillGap

LEMMA SendSnapshotGap ==
    ASSUME Reader, TypeInv, GapInv, SendSnapshot
    PROVE  GapInv'
<1> DEFINE c == captured[1]
           m == [t |-> "snapshot", through |-> c.through, holds |-> c.holds, epoch |-> keyEpoch]
<1>1. UNCHANGED <<lastSeq, future, tasks, row, r2c, told, log, open, drops, asks>>
  BY DEF SendSnapshot, relay, bounds
<1>2. c2r' = Append(c2r, m)
  BY DEF SendSnapshot, AsCaptured
<1>3. m \in RequestsNow /\ m.t # "catchup"
  <2>1. PICK x \in CapturesNow : captured = <<x>>
    BY DEF SendSnapshot, TypeInv, CaptureTypes, AtMostOne
  <2>2. c = x
    BY <2>1
  <2>3. c.through \in Stored /\ c.holds \in SUBSET Seqs /\ keyEpoch \in Epochs
    BY <2>2 DEF CapturesNow, TypeInv, EpochTypes
  <2> HIDE DEF c
  <2> QED
    BY <2>3 DEF RequestsNow, UploadsNow
<1> HIDE DEF m
<1>4. AskStays
  <2>1. CatchUpsAt' = CatchUpsAt /\ \A i \in CatchUpsAt : c2r'[i] = c2r[i]
    BY <1>2, <1>3, CatchUpsPushed
  <2> QED
    BY <1>1, <2>1 DEF AskStays, CatchUpsStay, GapInv, OneAsked
<1> QED
  BY <1>1, <1>4, StillGap

\* While the socket is shut the invariant is about the device only.
LEMMA ShutGap ==
    ASSUME ~open', c2r' = <<>>, r2c' = <<>>, PagesHere' = {}, asks' = [fly |-> None, again |-> None, wait |-> None],
           \A i \in DOMAIN tasks' : tasks'[i].conn <= drops', Within', NextFree', lastSeq' \in Nat
    PROVE  GapInv'
<1>1. CatchUpsAt' = {} /\ PagesAt' = {}
  BY DEF CatchUpsAt, PagesAt
<1>2. OneAsked'
  BY <1>1 DEF OneAsked, OneAt, None
<1>3. Shut' /\ PagesSound' /\ Climbs'
  BY <1>1 DEF Shut, PagesSound, Climbs, None
<1>4. Pursued' /\ InOrder'
  BY DEF Pursued, InOrder
<1> QED
  BY <1>2, <1>3, <1>4 DEF GapInv

LEMMA DropGap == ASSUME Reader, TypeInv, GapInv, Drop PROVE GapInv'
<1>1. /\ ~open' /\ drops' = drops + 1 /\ c2r' = <<>> /\ r2c' = <<>>
      /\ asks' = [fly |-> None, again |-> None, wait |-> None]
      /\ UNCHANGED <<lastSeq, future, tasks, row, told>>
  BY DEF Drop, NoAsks, engine
<1>2. \A i \in DOMAIN tasks : tasks[i].conn \in Nat /\ tasks[i].conn <= drops /\ drops \in Nat
  BY TaskFacts DEF CallsNow, GapInv, OneAsked
<1>3. PagesHere' = {} /\ \A i \in DOMAIN tasks' : tasks'[i].conn <= drops'
  BY <1>1, <1>2 DEF PagesHere, OfThisSocket
<1>4. Within' /\ NextFree'
  BY <1>1, WithinNext DEF GapInv, Within, NextFree
<1>5. lastSeq' \in Nat
  BY <1>1, TaskFacts
<1> QED
  BY <1>1, <1>3, <1>4, <1>5, ShutGap

LEMMA RestartGap == ASSUME Reader, TypeInv, GapInv, Restart PROVE GapInv'
<1>1. /\ ~open' /\ c2r' = <<>> /\ r2c' = <<>> /\ asks' = [fly |-> None, again |-> None, wait |-> None]
      /\ lastSeq' = row.seq /\ future' = {} /\ tasks' = <<>> /\ UNCHANGED <<row, told>>
  BY DEF Restart, NoAsks
<1>2. PagesHere' = {} /\ \A i \in DOMAIN tasks' : tasks'[i].conn <= drops'
  BY <1>1 DEF PagesHere
<1>3. Within' /\ NextFree'
  <2>1. Range(tasks') = {}
    BY <1>1 DEF Range
  <2> QED
    BY <1>1, <2>1, WithinNext DEF GapInv, Within, NextFree
<1>4. lastSeq' \in Nat
  BY <1>1 DEF TypeInv, DocTypes, UpTo
<1> QED
  BY <1>1, <1>2, <1>3, <1>4, ShutGap

LEMMA ConnectGap == ASSUME Reader, TypeInv, GapInv, Connect PROVE GapInv'
<1> DEFINE m == [t |-> "catchup", after |-> lastSeq]
<1>1. OneAsked /\ Shut /\ Within /\ NextFree
  BY DEF GapInv
<1>2. /\ ~open /\ open' /\ r2c = <<>> /\ CatchUpsAt = {} /\ PagesHere = {}
      /\ asks'.fly = lastSeq /\ asks'.again = None /\ asks'.wait = None
      /\ UNCHANGED <<lastSeq, future, tasks, row, r2c, told, log, drops>>
  BY <1>1 DEF Connect, Shut, engine, relay, bounds
<1>3. c2r' = Append(c2r, m) /\ m \in RequestsNow /\ m.t = "catchup" /\ m.after = lastSeq
  <2>1. c2r \in Seq(RequestsNow) /\ op = 0 /\ lastSeq \in UpTo
    BY Alone DEF TypeInv, SocketTypes, DocTypes
  <2>2. m \in RequestsNow
    BY <2>1 DEF RequestsNow, CatchupsNow
  <2>3. c2r' = c2r \o <<m>> \o <<>>
    BY <2>1 DEF Connect
  <2>4. c2r \o <<m>> = Append(c2r, m) /\ Append(c2r, m) \in Seq(RequestsNow)
    BY <2>1, <2>2, AppendProperties
  <2>5. m.t = "catchup" /\ m.after = lastSeq
    OBVIOUS
  <2> HIDE DEF m
  <2> QED
    BY <2>2, <2>3, <2>4, <2>5, ConcatEmptySeq
<1> HIDE DEF m
<1>4. CatchUpsAt' = {Len(c2r) + 1} /\ c2r'[Len(c2r) + 1].after = lastSeq /\ PagesAt' = {} /\ PagesHere' = {}
  <2>1. CatchUpsAt' = {Len(c2r) + 1} /\ c2r'[Len(c2r) + 1].after = lastSeq
    BY <1>2, <1>3, CatchUpsPushed
  <2> QED
    BY <1>2, <2>1 DEF PagesAt, PagesHere, OfThisSocket
<1>5. lastSeq \in Nat
  BY TaskFacts
<1>6. OneAsked'
  BY <1>1, <1>2, <1>4, <1>5 DEF OneAsked, OneAt, None
<1>7. Shut' /\ PagesSound' /\ Climbs'
  BY <1>2, <1>4, <1>5 DEF Shut, PagesSound, Climbs, None
<1>8. Pursued' /\ InOrder'
  BY <1>4 DEF Pursued, Requested, InOrder, MoreComes
<1>9. Within' /\ NextFree'
  BY <1>1, <1>2, WithinNext DEF Within, NextFree
<1> QED
  BY <1>6, <1>7, <1>8, <1>9 DEF GapInv

-----------------------------------------------------------------------------
(* The socket brings an update.                                            *)

LEMMA AnswerFacts ==
    ASSUME Reader, TypeInv
    PROVE  /\ r2c \in Seq(AnswersNow) /\ Len(r2c) \in Nat /\ DOMAIN r2c = 1..Len(r2c)
           /\ \A i \in 1..Len(r2c) : /\ r2c[i] \in AnswersNow /\ r2c[i].t \in {"page", "update"}
                                     /\ Value(r2c[i]) \in UpTo
                                     /\ r2c[i].t = "update" => r2c[i].seq \in Stored
           /\ UpTo \subseteq Nat /\ told \in Nat /\ Len(log) \in Nat
<1>1. r2c \in Seq(PagesNow \cup UpdatesNow) /\ r2c \in Seq(AnswersNow)
  BY Alone DEF TypeInv, SocketTypes
<1>2. Len(r2c) \in Nat /\ DOMAIN r2c = 1..Len(r2c) /\ \A i \in 1..Len(r2c) : r2c[i] \in PagesNow \cup UpdatesNow
  BY <1>1, LenProperties
<1>3. \A m \in PagesNow : m.t = "page" /\ Value(m) \in UpTo /\ m \in AnswersNow
  BY DEF PagesNow, Value, AnswersNow
<1>4. \A m \in UpdatesNow : m.t = "update" /\ Value(m) \in UpTo /\ m.seq \in Stored /\ m \in AnswersNow
  BY Lengths DEF UpdatesNow, Value, AnswersNow, TypeInv
<1>5. UpTo \subseteq Nat /\ told \in Nat /\ Len(log) \in Nat
  BY Lengths DEF TypeInv, DocTypes, UpTo
<1> QED
  BY <1>1, <1>2, <1>3, <1>4, <1>5

LEMMA AnswersPopped ==
    ASSUME Reader, TypeInv, r2c # <<>>, r2c' = Tail(r2c)
    PROVE  /\ Len(r2c) \in Nat /\ Len(r2c) >= 1 /\ Head(r2c) = r2c[1]
           /\ Len(r2c') = Len(r2c) - 1 /\ DOMAIN r2c' = 1..(Len(r2c) - 1)
           /\ \A i \in 1..(Len(r2c) - 1) : r2c'[i] = r2c[i + 1]
           /\ \A i \in PagesAt' : i \in 1..(Len(r2c) - 1) /\ i + 1 \in PagesAt
           /\ \A i \in PagesAt : i = 1 \/ i - 1 \in PagesAt'
<1>1. /\ Len(r2c) \in Nat /\ Len(r2c) >= 1 /\ DOMAIN r2c = 1..Len(r2c) /\ Head(r2c) = r2c[1]
      /\ Len(r2c') = Len(r2c) - 1 /\ DOMAIN r2c' = 1..(Len(r2c) - 1)
      /\ \A i \in 1..(Len(r2c) - 1) : r2c'[i] = r2c[i + 1] /\ i + 1 \in 1..Len(r2c)
  BY AnswerFacts, Popped
<1>2. \A i \in PagesAt' : i \in 1..(Len(r2c) - 1) /\ i + 1 \in PagesAt
  BY <1>1 DEF PagesAt
<1>3. ASSUME NEW i \in PagesAt, i # 1 PROVE i - 1 \in PagesAt'
  <2>1. i \in 1..Len(r2c) /\ r2c[i].t = "page"
    BY <1>1 DEF PagesAt
  <2>2. i - 1 \in 1..(Len(r2c) - 1) /\ (i - 1) + 1 = i
    BY <1>1, <1>3, <2>1
  <2>3. r2c'[i - 1] = r2c[i]
    BY <1>1, <2>2
  <2> QED
    BY <1>1, <2>1, <2>2, <2>3 DEF PagesAt
<1> QED
  BY <1>1, <1>2, <1>3

\* What was reached before an answer is reached before the one that takes its place.
LEMMA ReachedPopped ==
    ASSUME Reader, TypeInv, r2c # <<>>, r2c' = Tail(r2c), told' = Larger(told, Value(Head(r2c))),
           NEW i \in 1..Len(r2c), NEW n \in Int, Reached(r2c, told, i + 1, n)
    PROVE  Reached(r2c', told', i, n)
<1>1. /\ Len(r2c) \in Nat /\ Head(r2c) = r2c[1] /\ Value(r2c[1]) \in Nat /\ told \in Nat /\ DOMAIN r2c = 1..Len(r2c)
      /\ \A l \in 1..(Len(r2c) - 1) : r2c'[l] = r2c[l + 1]
  BY AnswersPopped, AnswerFacts
<1>2. told' >= told /\ told' >= Value(r2c[1]) /\ told' \in Nat
  BY <1>1 DEF Larger
<1>3. CASE told >= n
  BY <1>1, <1>2, <1>3 DEF Reached
<1>4. CASE \E j \in 1..((i + 1) - 1) : Value(r2c[j]) >= n
  <2>1. PICK j \in 1..i : Value(r2c[j]) >= n
    BY <1>4
  <2>2. CASE j = 1
    BY <1>1, <1>2, <2>1, <2>2 DEF Reached
  <2>3. CASE j # 1
    <3>1. j - 1 \in 1..(i - 1) /\ j - 1 \in 1..(Len(r2c) - 1) /\ (j - 1) + 1 = j
      BY <1>1, <2>3
    <3>2. r2c'[j - 1] = r2c[j]
      BY <1>1, <3>1
    <3>3. Value(r2c'[j - 1]) >= n
      BY <2>1, <3>2
    <3> QED
      BY <3>1, <3>3 DEF Reached, Value
  <2> QED
    BY <2>2, <2>3
<1> QED
  BY <1>3, <1>4 DEF Reached

LEMMA InOrderPopped ==
    ASSUME Reader, TypeInv, InOrder, r2c # <<>>, r2c' = Tail(r2c), told' = Larger(told, Value(Head(r2c))),
           UNCHANGED <<open, log>>, MoreComes => MoreComes'
    PROVE  InOrder'
<1> SUFFICES ASSUME open, ~MoreComes
    PROVE  /\ \A i \in DOMAIN r2c' : r2c'[i].t = "update" =>
                  Reached(r2c', told', i, r2c'[i].seq - 1) \/ \E j \in PagesAt' : j > i
           /\ Subscribed => Reached(r2c', told', Len(r2c') + 1, Len(log'))
  BY DEF InOrder
<1>1. /\ Len(r2c) \in Nat /\ Len(r2c) >= 1 /\ Len(r2c') = Len(r2c) - 1 /\ DOMAIN r2c' = 1..(Len(r2c) - 1)
      /\ DOMAIN r2c = 1..Len(r2c) /\ \A i \in 1..(Len(r2c) - 1) : r2c'[i] = r2c[i + 1] /\ i + 1 \in 1..Len(r2c)
      /\ Len(log) \in Nat
  BY AnswersPopped, AnswerFacts
<1>2. ASSUME NEW i \in DOMAIN r2c', r2c'[i].t = "update"
      PROVE  Reached(r2c', told', i, r2c'[i].seq - 1) \/ \E j \in PagesAt' : j > i
  <2>1. i \in 1..Len(r2c) /\ i + 1 \in DOMAIN r2c /\ r2c'[i] = r2c[i + 1]
    BY <1>1
  <2>2. r2c[i + 1].t = "update" /\ r2c[i + 1].seq \in Stored
    BY <1>1, <1>2, <2>1, AnswerFacts
  <2>3. r2c[i + 1].seq - 1 \in Int
    BY <2>2 DEF Stored
  <2>4. Reached(r2c, told, i + 1, r2c[i + 1].seq - 1) \/ \E j \in PagesAt : j > i + 1
    BY <2>1, <2>2 DEF InOrder
  <2>5. CASE Reached(r2c, told, i + 1, r2c[i + 1].seq - 1)
    <3> DEFINE n == r2c[i + 1].seq - 1
    <3>1. n \in Int /\ Reached(r2c, told, i + 1, n)
      BY <2>3, <2>5
    <3> HIDE DEF n
    <3>2. Reached(r2c', told', i, n)
      BY <2>1, <3>1, ReachedPopped
    <3> QED
      BY <2>1, <3>2 DEF n
  <2>6. CASE \E j \in PagesAt : j > i + 1
    <3>1. PICK j \in PagesAt : j > i + 1
      BY <2>6
    <3>2. j \in Nat /\ j # 1 /\ j - 1 > i
      BY <1>1, <2>1, <3>1 DEF PagesAt
    <3>3. j - 1 \in PagesAt'
      BY <3>1, <3>2, AnswersPopped
    <3> QED
      BY <3>2, <3>3
  <2> QED
    BY <2>4, <2>5, <2>6
<1>3. ASSUME Subscribed PROVE Reached(r2c', told', Len(r2c') + 1, Len(log'))
  <2>1. Reached(r2c, told, Len(r2c) + 1, Len(log)) /\ Len(r2c) \in 1..Len(r2c) /\ Len(log) \in Int
    BY <1>1, <1>3 DEF InOrder
  <2>2. Reached(r2c', told', Len(r2c), Len(log'))
    BY <2>1, ReachedPopped
  <2> QED
    BY <1>1, <2>2
<1> QED
  BY <1>2, <1>3

\* The pages behind an update.
LEMMA UpdatePopped ==
    ASSUME Reader, TypeInv, OneAsked, PagesSound, r2c # <<>>, Head(r2c).t = "update", r2c' = Tail(r2c),
           told' = Larger(told, Value(Head(r2c))), UNCHANGED log, AskStays \/ AskGoes, CallsStay
    PROVE  PagesStay /\ PagesSound' /\ (MoreComes => MoreComes')
<1>1. /\ Len(r2c) \in Nat /\ Len(r2c) >= 1 /\ Head(r2c) = r2c[1] /\ DOMAIN r2c' = 1..(Len(r2c) - 1)
      /\ \A i \in 1..(Len(r2c) - 1) : r2c'[i] = r2c[i + 1]
      /\ \A i \in PagesAt' : i \in 1..(Len(r2c) - 1) /\ i + 1 \in PagesAt
      /\ \A i \in PagesAt : i = 1 \/ i - 1 \in PagesAt'
  BY AnswersPopped
<1>2. \A i \in PagesAt : i # 1 /\ i \in 1..Len(r2c)
  BY <1>1, AnswerFacts DEF PagesAt
<1>3. PagesStay
  <2>1. OneAt(PagesAt')
    BY <1>1 DEF OneAsked, OneAt
  <2> QED
    BY <1>1, <1>2, <2>1 DEF PagesStay
<1>4. MoreComes => MoreComes'
  <2>1. CatchUpsAt # {} => CatchUpsAt' # {}
    BY DEF AskStays, AskGoes, CatchUpsStay
  <2>2. ASSUME NEW i \in PagesAt, r2c[i].more PROVE \E j \in PagesAt' : r2c'[j].more
    <3>1. i - 1 \in PagesAt' /\ i - 1 \in 1..(Len(r2c) - 1) /\ (i - 1) + 1 = i
      BY <1>1, <1>2
    <3> QED
      BY <1>1, <2>2, <3>1
  <2> QED
    BY <2>1, <2>2, MoreStays DEF MoreComes
<1>5. ASSUME NEW i \in PagesAt' PROVE LastPage(i)' /\ \E b \in UpTo' : PageFrom(r2c'[i], b, asks'.fly)
  <2>1. i + 1 \in PagesAt /\ r2c'[i] = r2c[i + 1] /\ i \in 1..(Len(r2c) - 1) /\ (i + 1) - 1 = i
    BY <1>1, <1>5
  <2>2. asks'.fly = asks.fly
    BY <2>1 DEF OneAsked, AskGoes, AskStays
  <2>3. LastPage(i + 1) /\ \E b \in UpTo : PageFrom(r2c[i + 1], b, asks.fly)
    BY <2>1 DEF PagesSound
  <2>4. \E b \in UpTo' : PageFrom(r2c'[i], b, asks'.fly)
    BY <2>1, <2>2, <2>3 DEF UpTo
  <2>5. ASSUME ~r2c[i + 1].more
        PROVE  told' <= r2c[i + 1].last /\ \A j \in 1..(i - 1) : Value(r2c'[j]) <= r2c[i + 1].last
    <3>1. told <= r2c[i + 1].last /\ \A j \in 1..i : Value(r2c[j]) <= r2c[i + 1].last
      BY <2>1, <2>3, <2>5 DEF LastPage
    <3>2. told' <= r2c[i + 1].last
      BY <1>1, <2>1, <3>1 DEF Larger
    <3>3. ASSUME NEW j \in 1..(i - 1) PROVE Value(r2c'[j]) <= r2c[i + 1].last
      <4>1. j \in 1..(Len(r2c) - 1) /\ j + 1 \in 1..i /\ r2c'[j] = r2c[j + 1]
        BY <1>1, <2>1
      <4> QED
        BY <3>1, <4>1
    <3> QED
      BY <3>2, <3>3
  <2> QED
    BY <2>1, <2>4, <2>5 DEF LastPage, Value
<1> QED
  BY <1>3, <1>4, <1>5 DEF PagesSound

LEMMA OnUpdateGap ==
    ASSUME Reader, TypeInv, GapInv, OnUpdate
    PROVE  GapInv'
<1> DEFINE s == Head(r2c).seq
           k == Call("update", <<UpdateAt(s)>>, FALSE)
<1>1. /\ r2c # <<>> /\ Head(r2c).t = "update" /\ r2c' = Tail(r2c) /\ Take(k, 0) /\ told' = Larger(told, s)
      /\ UNCHANGED <<lastSeq, open, row, log, drops>>
  BY DEF OnUpdate, relay, bounds
<1>2. OneAsked /\ Shut /\ PagesSound /\ Within /\ Climbs /\ NextFree /\ Pursued /\ InOrder
  BY DEF GapInv
<1>3. s \in Stored /\ s \in Nat /\ Head(r2c) = r2c[1] /\ Len(r2c) \in Nat /\ Len(r2c) >= 1 /\ DOMAIN r2c = 1..Len(r2c)
  BY <1>1, AnswerFacts, AnswersPopped, Lengths DEF TypeInv, Stored
<1>4. /\ k \in CallsNow /\ k.todo # <<>> /\ k.opening = <<>> /\ k.t = "update" /\ k.conn = drops /\ Brings(k) = {s}
      /\ k \in TasksNow
  <2>1. UpdateAt(s) \in EnvelopesNow /\ UpdateAt(s).seq = s
    BY <1>3, UpdateTyped DEF TypeInv, UpdateAt
  <2>2. <<UpdateAt(s)>> \in Seq(EnvelopesNow) /\ <<UpdateAt(s)>> # <<>> /\ Range(<<UpdateAt(s)>>) = {UpdateAt(s)}
    BY <2>1, OneIsSeq DEF Range
  <2>3. "update" \in {"update", "page"} /\ FALSE \in BOOLEAN /\ Range(<<>>) = {}
    BY DEF Range
  <2>4. k \in CallsNow
    <3> HIDE DEF s
    <3> QED
      BY <2>2, <2>3, NewCall, Zenon
  <2>5. k.todo = <<UpdateAt(s)>> /\ k.opening = <<>> /\ k.t = "update" /\ k.conn = drops
    BY DEF Call
  <2>6. Brings(k) = {e.seq : e \in {UpdateAt(s)}}
    BY <2>2, <2>3, <2>5 DEF Brings
  <2> QED
    BY <2>1, <2>2, <2>4, <2>5, <2>6 DEF TasksNow
<1> HIDE DEF k
<1>5. PICK j \in CallsNow :
         /\ PutTask(0, j) /\ j.t = k.t /\ j.conn = k.conn /\ GoesOn(k, j, lastSeq, lastSeq)
         /\ Brings(j) \subseteq Brings(k)
         /\ \A u \in Brings(k) : u <= lastSeq \/ u \in future' \/ u \in Brings(j)
         /\ future \subseteq future' /\ future' \subseteq future \cup Brings(k)
         /\ lastSeq + 1 \in future' => lastSeq + 1 \in future
         /\ UNCHANGED <<asks, c2r>> \/ RequestCatchup(lastSeq)
  BY <1>1, <1>4, TakeMoves
<1>6. j \in TasksNow /\ NewTask(j) /\ lastSeq \in Nat /\ told \in Nat /\ drops \in Nat /\ 0 \in 0..Len(tasks)
  BY <1>5, TaskFacts DEF TasksNow, PutTask
<1>7. CallsStay
  BY <1>1, <1>2, <1>4, <1>5, <1>6, CallsNew
<1>8. AskStays \/ AskGoes
  BY <1>2, <1>5, AsksAlike, Asks
<1>9. told' = Larger(told, Value(Head(r2c))) /\ told' \in Nat /\ told <= told' /\ s <= told'
  <2>1. Value(Head(r2c)) = s
    BY <1>1 DEF Value
  <2> QED
    BY <1>1, <1>3, <1>6, <2>1 DEF Larger
<1>10. PagesStay /\ PagesSound' /\ (MoreComes => MoreComes')
  BY <1>1, <1>2, <1>7, <1>8, <1>9, UpdatePopped
<1>11. SoughtStays /\ \A u \in Brings(k) : u <= lastSeq' \/ Sought(u)'
  BY <1>1, <1>4, <1>5, <1>6, TakenSought
<1>12. OneAsked' /\ Climbs'
  BY <1>1, <1>2, <1>6, <1>7, <1>8, <1>10, OneAskedStays, ClimbsStays
<1>13. Shut'
  BY <1>1, <1>2, <1>7, <1>8, ShutStays
<1>14. Within'
  <2>1. \A x \in Range(tasks) : Brings(x) \subseteq Nat
    BY BroughtIsStored
  <2> QED
    BY <1>1, <1>2, <1>4, <1>5, <1>6, <1>9, <2>1, TakenWithin
<1>15. NextFree'
  BY <1>1, <1>2, <1>5 DEF NextFree
<1>16. InOrder'
  BY <1>1, <1>2, <1>9, <1>10, InOrderPopped
<1>17. ASSUME open PROVE Requested' \/ Known'
  <2>1. CASE Requested
    <3>1. CatchUpsAt # {} => CatchUpsAt' # {}
      BY <1>8 DEF AskStays, AskGoes, CatchUpsStay
    <3> QED
      BY <1>7, <1>10, <2>1, <3>1, MoreStays DEF Requested, PagesStay
  <2>2. CASE ~Requested
    <3>1. Known /\ PagesAt = {} /\ ~MoreComes
      BY <1>2, <1>17, <2>2 DEF Pursued, Requested, MoreComes
    <3>2. Reached(r2c, told, 1, r2c[1].seq - 1)
      BY <1>1, <1>2, <1>3, <1>17, <3>1 DEF InOrder
    <3>3. told >= s - 1
      BY <1>3, <3>2 DEF Reached
    <3>4. ASSUME NEW u \in (lastSeq + 1)..told' PROVE Sought(u)'
      <4>1. u \in Stored /\ ~(u <= lastSeq') /\ (u \in (lastSeq + 1)..told \/ u = s)
        <5>1. u \in (lastSeq + 1)..told \/ u = s
          BY <1>1, <1>3, <1>6, <1>9, <3>3, <3>4 DEF Larger
        <5>2. u \in Nat /\ u >= lastSeq + 1
          BY <1>6, <1>9, <3>4
        <5>3. u \in Stored
          BY <1>3, <1>6, <5>1, Lengths DEF TypeInv, DocTypes, UpTo, Stored
        <5> QED
          BY <1>1, <1>6, <5>1, <5>2, <5>3
      <4> QED
        BY <1>4, <1>11, <3>1, <4>1 DEF SoughtStays, Known
    <3> QED
      BY <1>1, <3>4 DEF Known
  <2> QED
    BY <2>1, <2>2
<1>18. Pursued'
  BY <1>1, <1>17 DEF Pursued
<1> QED
  BY <1>10, <1>12, <1>13, <1>14, <1>15, <1>16, <1>18 DEF GapInv

-----------------------------------------------------------------------------
(* Steps of the relay.                                                     *)

\* The socket is given one more answer: the pages that were on it are where they were.
LEMMA AnswerPushed ==
    ASSUME Reader, TypeInv, NEW m, r2c' = Append(r2c, m), m \in AnswersNow'
    PROVE  /\ Len(r2c) \in Nat /\ DOMAIN r2c = 1..Len(r2c) /\ Len(r2c') = Len(r2c) + 1 /\ DOMAIN r2c' = 1..(Len(r2c) + 1)
           /\ \A i \in 1..Len(r2c) : r2c'[i] = r2c[i]
           /\ r2c'[Len(r2c) + 1] = m
           /\ PagesAt' = PagesAt \cup (IF m.t = "page" THEN {Len(r2c) + 1} ELSE {})
<1> DEFINE S == AnswersNow \cup {m}
<1>1. r2c \in Seq(S) /\ m \in S
  <2>1. r2c \in Seq(AnswersNow) /\ AnswersNow \subseteq S
    BY DEF TypeInv, SocketTypes
  <2> QED
    BY <2>1, WiderSeq
<1> HIDE DEF S
<1>2. /\ Len(r2c) \in Nat /\ DOMAIN r2c = 1..Len(r2c) /\ Len(r2c') = Len(r2c) + 1 /\ DOMAIN r2c' = 1..(Len(r2c) + 1)
      /\ \A i \in 1..Len(r2c) : r2c'[i] = r2c[i]
      /\ r2c'[Len(r2c) + 1] = m
  BY <1>1, Pushed
<1>3. PagesAt' = PagesAt \cup (IF m.t = "page" THEN {Len(r2c) + 1} ELSE {})
  BY <1>2 DEF PagesAt
<1> QED
  BY <1>2, <1>3

LEMMA ReachedPushed ==
    ASSUME NEW s, NEW r, NEW l \in Nat, \A i \in 1..l : r[i] = s[i], NEW t,
           NEW i \in 1..(l + 1), NEW n, Reached(s, t, i, n)
    PROVE  Reached(r, t, i, n)
<1>1. \A j \in 1..(i - 1) : r[j] = s[j]
  OBVIOUS
<1> QED
  BY <1>1 DEF Reached

LEMMA PeerAppendsGap ==
    ASSUME Reader, TypeInv, GapInv, PeerAppends
    PROVE  GapInv'
<1> DEFINE m == [t |-> "update", seq |-> Len(log')]
<1>1. /\ log' = Append(log, graphEpoch) /\ graphEpoch \in Epochs /\ Len(log) \in Nat
      /\ r2c' = IF open /\ Subscribed THEN Append(r2c, m) ELSE r2c
      /\ UNCHANGED <<lastSeq, future, tasks, row, told, open, drops, asks, c2r>>
  BY Lengths DEF PeerAppends, TypeInv, EpochTypes, bounds, engine
<1>2. OneAsked /\ Shut /\ PagesSound /\ Within /\ Climbs /\ NextFree /\ Pursued /\ InOrder
  BY DEF GapInv
<1>3. /\ Len(log') = Len(log) + 1 /\ m \in AnswersNow' /\ m.t = "update" /\ m.seq = Len(log) + 1 /\ Value(m) = Len(log) + 1
      /\ UpTo \subseteq UpTo'
  <2>1. Len(log') = Len(log) + 1
    BY <1>1, AppendProperties DEF TypeInv, LogTypes
  <2>2. Len(log') \in Stored' /\ UpTo \subseteq UpTo'
    BY <1>1, <2>1 DEF Stored, UpTo
  <2> QED
    BY <2>1, <2>2 DEF AnswersNow, UpdatesNow, Value
<1> HIDE DEF m
<1>4. CallsStay /\ AskStays
  BY <1>1, <1>2, CallsSame, AsksAlike
<1>5. /\ Len(r2c) \in Nat /\ DOMAIN r2c = 1..Len(r2c) /\ PagesAt' = PagesAt
      /\ \A i \in 1..Len(r2c) : r2c'[i] = r2c[i]
      /\ open /\ Subscribed => /\ Len(r2c') = Len(r2c) + 1 /\ DOMAIN r2c' = 1..(Len(r2c) + 1) /\ r2c'[Len(r2c) + 1] = m
      /\ ~(open /\ Subscribed) => r2c' = r2c
  <2>1. CASE open /\ Subscribed
    BY <1>1, <1>3, <2>1, AnswerPushed
  <2>2. CASE ~(open /\ Subscribed)
    BY <1>1, <2>2, AnswerFacts DEF PagesAt
  <2> QED
    BY <2>1, <2>2
<1>6. PagesStay
  BY <1>5 DEF PagesStay
<1>7. lastSeq' \in Nat /\ lastSeq <= lastSeq'
  BY <1>1, TaskFacts
<1>8. OneAsked' /\ Climbs'
  BY <1>2, <1>4, <1>6, <1>7, OneAskedStays, ClimbsStays
<1>9. Shut'
  BY <1>1, <1>2, <1>4, <1>5, ShutStays
<1>10. Within' /\ NextFree'
  BY <1>1, <1>2, WithinNext DEF Within, NextFree
<1>11. SoughtStays
  BY <1>1, SoughtNext DEF SoughtStays, Sought
<1>12. Pursued'
  BY <1>1, <1>2, <1>4, <1>6, <1>7, <1>11, PursuedStays
<1>13. PagesSound'
  <2>1. ASSUME NEW i \in PagesAt PROVE LastPage(i)' /\ \E b \in UpTo' : PageFrom(r2c'[i], b, asks'.fly)
    <3>1. i \in 1..Len(r2c) /\ r2c'[i] = r2c[i] /\ \A j \in 1..(i - 1) : j \in 1..Len(r2c) /\ r2c'[j] = r2c[j]
      BY <1>5 DEF PagesAt
    <3>2. LastPage(i) /\ \E b \in UpTo : PageFrom(r2c[i], b, asks.fly)
      BY <1>2 DEF PagesSound
    <3>3. LastPage(i)'
      BY <1>1, <3>1, <3>2 DEF LastPage, Value
    <3>4. \E b \in UpTo' : PageFrom(r2c'[i], b, asks'.fly)
      BY <1>1, <1>3, <3>1, <3>2
    <3> QED
      BY <3>3, <3>4
  <2> QED
    BY <1>5, <2>1 DEF PagesSound
<1>14. InOrder'
  <2>1. MoreComes => MoreComes'
    <3>1. CatchUpsAt' = CatchUpsAt
      BY <1>1 DEF CatchUpsAt
    <3>2. \A i \in PagesAt : r2c'[i] = r2c[i]
      BY <1>5 DEF PagesAt
    <3> QED
      BY <1>4, <1>5, <3>1, <3>2, MoreStays DEF MoreComes
  <2> SUFFICES ASSUME open, ~MoreComes
      PROVE  /\ \A i \in DOMAIN r2c' : r2c'[i].t = "update" =>
                    Reached(r2c', told', i, r2c'[i].seq - 1) \/ \E j \in PagesAt' : j > i
             /\ Subscribed => Reached(r2c', told', Len(r2c') + 1, Len(log'))
    BY <1>1, <2>1 DEF InOrder
  <2>2. ASSUME NEW i \in 1..Len(r2c), r2c'[i].t = "update"
        PROVE  Reached(r2c', told', i, r2c'[i].seq - 1) \/ \E j \in PagesAt' : j > i
    <3>1. r2c'[i] = r2c[i] /\ i \in DOMAIN r2c /\ i \in 1..(Len(r2c) + 1)
      BY <1>5
    <3>2. Reached(r2c, told, i, r2c[i].seq - 1) \/ \E j \in PagesAt : j > i
      BY <1>2, <2>2, <3>1 DEF InOrder
    <3>3. Reached(r2c, told, i, r2c[i].seq - 1) => Reached(r2c', told, i, r2c[i].seq - 1)
      BY <1>5, <3>1, ReachedPushed
    <3> QED
      BY <1>1, <1>5, <3>1, <3>2, <3>3
  <2>3. ASSUME Subscribed
        PROVE  /\ Reached(r2c', told', Len(r2c) + 1, Len(log)) /\ Reached(r2c', told', Len(r2c') + 1, Len(log'))
    <3>1. Len(r2c) + 1 \in 1..(Len(r2c) + 1) /\ Reached(r2c, told, Len(r2c) + 1, Len(log))
      BY <1>2, <1>5, <2>3 DEF InOrder
    <3>2. Reached(r2c', told, Len(r2c) + 1, Len(log))
      BY <1>5, <3>1, ReachedPushed
    <3>3. Len(r2c') = Len(r2c) + 1 /\ Value(r2c'[Len(r2c) + 1]) = Len(log')
      BY <1>3, <1>5, <2>3
    <3>4. Len(r2c) + 1 \in 1..((Len(r2c') + 1) - 1) /\ Len(log') \in Nat
      <4>1. Len(log') \in Nat
        BY <1>1, <1>3
      <4>2. Len(r2c) + 1 \in 1..((Len(r2c') + 1) - 1)
        BY <1>5, <3>3
      <4> QED
        BY <4>1, <4>2
    <3>5. Reached(r2c', told', Len(r2c') + 1, Len(log'))
      <4> DEFINE n == Len(log')
                 l == Len(r2c') + 1
      <4>1. Len(r2c) + 1 \in 1..(l - 1) /\ Value(r2c'[Len(r2c) + 1]) >= n
        BY <3>3, <3>4
      <4> HIDE DEF n, l
      <4>2. Reached(r2c', told', l, n)
        BY <4>1 DEF Reached
      <4> QED
        BY <4>2 DEF n, l
    <3> QED
      BY <1>1, <3>2, <3>5
  <2>4. CASE Subscribed
    <3>1. ASSUME NEW i \in DOMAIN r2c', r2c'[i].t = "update"
          PROVE  Reached(r2c', told', i, r2c'[i].seq - 1) \/ \E j \in PagesAt' : j > i
      <4>1. i \in 1..Len(r2c) \/ i = Len(r2c) + 1
        BY <1>5, <2>4
      <4>2. CASE i = Len(r2c) + 1
        <5>1. r2c'[i].seq - 1 = Len(log)
          BY <1>1, <1>3, <1>5, <2>4, <4>2
        <5> QED
          BY <2>3, <2>4, <4>2, <5>1
      <4> QED
        BY <2>2, <3>1, <4>1, <4>2
    <3> QED
      BY <2>3, <2>4, <3>1
  <2>5. CASE ~Subscribed
    <3>1. r2c' = r2c
      BY <1>5, <2>5
    <3> QED
      BY <1>5, <2>2, <2>5, <3>1
  <2> QED
    BY <2>4, <2>5
<1> QED
  BY <1>8, <1>9, <1>10, <1>12, <1>13, <1>14 DEF GapInv

\* A page goes on from what was asked for, and the last one ends where the log does.
LEMMA PageAnswers ==
    ASSUME TypeInv, NEW after \in UpTo
    PROVE  /\ Page(after) \in PagesNow /\ \E b \in UpTo : PageFrom(Page(after), b, after)
           /\ ~Page(after).more => Page(after).last = Len(log)
<1> DEFINE base == IF FromSnapshot(after) THEN snap.through ELSE after
           last == IF base + PageRows < Len(log) THEN base + PageRows ELSE Len(log)
           size == IF last > base THEN last - base ELSE 0
           rows == [i \in 1..size |-> UpdateAt(base + i)]
           shot == [seq |-> snap.through, epoch |-> snap.epoch, snap |-> TRUE, holds |-> snap.holds]
           p == Page(after)
<1>1. Len(log) \in Nat /\ PageRows \in Nat /\ PageRows > 0 /\ after \in Nat
  BY Lengths, Limits DEF TypeInv, UpTo
<1>2. base \in UpTo /\ (FromSnapshot(after) => base = snap.through /\ base > after) /\ (~FromSnapshot(after) => base = after)
  <2>1. snap.through \in UpTo /\ snap.through \in Nat /\ floor \in 0..snap.through
    BY DEF TypeInv, SnapTypes, UpTo
  <2> QED
    BY <1>1, <2>1 DEF FromSnapshot
<1>3. /\ p.more = (last < Len(log)) /\ p.last = last /\ p.rows = rows
      /\ p.snap = IF FromSnapshot(after) THEN <<shot>> ELSE <<>>
  BY DEF Page
<1> HIDE DEF p
<1>4. base \in Nat /\ base <= Len(log)
  BY <1>1, <1>2 DEF UpTo
<1> HIDE DEF base
<1>5. last \in Nat /\ base <= last /\ (last < Len(log) => base < last) /\ (~(last < Len(log)) => last = Len(log))
  BY <1>1, <1>4
<1> HIDE DEF last
<1>6. size \in Nat /\ size = last - base
  BY <1>4, <1>5
<1>7. Len(rows) = size /\ \A j \in 1..size : rows[j].seq = base + j
  <2> HIDE DEF size
  <2>1. rows \in [1..size -> {UpdateAt(base + i) : i \in 1..size}]
    OBVIOUS
  <2>2. Len(rows) = size
    BY <1>6, <2>1, LenProperties
  <2>3. \A j \in 1..size : rows[j] = UpdateAt(base + j)
    OBVIOUS
  <2> QED
    BY <2>2, <2>3 DEF UpdateAt
<1> HIDE DEF rows, size
<1>8. IF p.snap = <<>> THEN base = after ELSE p.snap[1].seq = base /\ base > after
  <2>1. CASE FromSnapshot(after)
    <3>1. shot.seq = snap.through
      OBVIOUS
    <3> HIDE DEF shot
    <3>2. p.snap = <<shot>>
      BY <1>3, <2>1
    <3>3. p.snap # <<>> /\ p.snap[1] = shot
      BY <3>2
    <3> QED
      BY <1>2, <2>1, <3>1, <3>3
  <2>2. CASE ~FromSnapshot(after)
    BY <1>2, <1>3, <2>2
  <2> QED
    BY <2>1, <2>2
<1>9. PageFrom(p, base, after)
  BY <1>3, <1>5, <1>6, <1>7, <1>8 DEF PageFrom
<1> QED
  BY <1>2, <1>3, <1>5, <1>9, PageTyped DEF p

LEMMA CatchUpsPopped ==
    ASSUME Reader, TypeInv, c2r # <<>>, c2r' = Tail(c2r)
    PROVE  /\ Head(c2r) = c2r[1] /\ 1 \in DOMAIN c2r /\ Head(c2r).t \in {"catchup", "snapshot"}
           /\ \A i \in CatchUpsAt' : i + 1 \in CatchUpsAt /\ i # 0 /\ i + 1 # 1 /\ c2r'[i] = c2r[i + 1]
           /\ \A i \in CatchUpsAt : i = 1 \/ i - 1 \in CatchUpsAt'
           /\ \A i, j \in CatchUpsAt' : i + 1 = j + 1 => i = j
<1> DEFINE S == CatchupsNow \cup UploadsNow
<1>1. c2r \in Seq(S)
  BY Alone
<1>2. \A m \in S : m.t \in {"catchup", "snapshot"}
  BY DEF CatchupsNow, UploadsNow
<1> HIDE DEF S
<1>3. /\ Len(c2r) \in Nat /\ Len(c2r) >= 1 /\ DOMAIN c2r = 1..Len(c2r) /\ Head(c2r) = c2r[1]
      /\ DOMAIN c2r' = 1..(Len(c2r) - 1)
      /\ \A i \in 1..(Len(c2r) - 1) : c2r'[i] = c2r[i + 1] /\ i + 1 \in 1..Len(c2r)
      /\ \A i \in 1..Len(c2r) : c2r[i] \in S
  BY <1>1, Popped
<1>4. \A i \in CatchUpsAt' : i \in 1..(Len(c2r) - 1) /\ i + 1 \in CatchUpsAt /\ c2r'[i] = c2r[i + 1]
  BY <1>3 DEF CatchUpsAt
<1>5. ASSUME NEW i \in CatchUpsAt, i # 1 PROVE i - 1 \in CatchUpsAt'
  <2>1. i \in 1..Len(c2r) /\ c2r[i].t = "catchup"
    BY <1>3 DEF CatchUpsAt
  <2>2. i - 1 \in 1..(Len(c2r) - 1) /\ (i - 1) + 1 = i
    BY <1>3, <1>5, <2>1
  <2>3. c2r'[i - 1] = c2r[i]
    BY <1>3, <2>2
  <2> QED
    BY <1>3, <2>1, <2>2, <2>3 DEF CatchUpsAt
<1>6. 1 \in DOMAIN c2r /\ Head(c2r).t \in {"catchup", "snapshot"}
  BY <1>2, <1>3
<1>7. /\ \A i \in CatchUpsAt' : i # 0 /\ i + 1 # 1
      /\ \A i, j \in CatchUpsAt' : i + 1 = j + 1 => i = j
  BY <1>3, <1>4
<1> QED
  BY <1>3, <1>4, <1>5, <1>6, <1>7

\* A snapshot is taken off the socket.
LEMMA SnapshotTakenGap ==
    ASSUME Reader, TypeInv, GapInv, RelayTakes, Head(c2r).t = "snapshot"
    PROVE  GapInv'
<1>1. /\ c2r # <<>> /\ c2r' = Tail(c2r)
      /\ UNCHANGED <<lastSeq, future, tasks, row, told, open, drops, asks>>
  BY DEF RelayTakes, engine, bounds
<1>2. UNCHANGED <<r2c, log>>
  BY DEF RelayTakes, TakeCatchup, TakeAppend, TakeSnapshot
<1>3. AskStays
  <2>1. \A i \in CatchUpsAt : i # 1
    BY <1>1, CatchUpsPopped DEF CatchUpsAt
  <2>2. CatchUpsAt' = {} <=> CatchUpsAt = {}
    BY <1>1, <2>1, CatchUpsPopped
  <2>3. OneAt(CatchUpsAt) => OneAt(CatchUpsAt')
    <3> SUFFICES ASSUME OneAt(CatchUpsAt), NEW i \in CatchUpsAt', NEW j \in CatchUpsAt' PROVE i = j
      BY DEF OneAt
    <3>1. i + 1 \in CatchUpsAt /\ j + 1 \in CatchUpsAt
      BY <1>1, CatchUpsPopped
    <3>2. i + 1 = j + 1
      BY <3>1 DEF OneAt
    <3> QED
      BY <1>1, <3>2, CatchUpsPopped
  <2>4. \A j \in CatchUpsAt' : \E i \in CatchUpsAt : c2r'[j].after = c2r[i].after
    BY <1>1, CatchUpsPopped
  <2> QED
    BY <1>1, <2>2, <2>3, <2>4 DEF AskStays, CatchUpsStay, GapInv, OneAsked
<1> QED
  BY <1>1, <1>2, <1>3, StillGap

\* A catch-up request is answered with its page.
LEMMA CatchUpAnsweredGap ==
    ASSUME Reader, TypeInv, GapInv, RelayTakes, Head(c2r).t = "catchup"
    PROVE  GapInv'
<1> DEFINE p == Page(Head(c2r).after)
<1>1. /\ c2r # <<>> /\ c2r' = Tail(c2r) /\ r2c' = Append(r2c, p)
      /\ UNCHANGED <<lastSeq, future, tasks, row, told, open, drops, asks, log>>
  BY DEF RelayTakes, TakeCatchup, TakeAppend, TakeSnapshot, engine, bounds, relay, Answer
<1>2. OneAsked /\ Shut /\ PagesSound /\ Within /\ Climbs /\ NextFree /\ Pursued /\ InOrder
  BY DEF GapInv
<1>3. 1 \in CatchUpsAt /\ Head(c2r) = c2r[1] /\ Head(c2r).after = asks.fly
  <2>1. 1 \in CatchUpsAt /\ Head(c2r) = c2r[1]
    BY <1>1, CatchUpsPopped DEF CatchUpsAt
  <2> QED
    BY <1>2, <2>1 DEF OneAsked
<1>4. open /\ asks.fly # None /\ PagesAt = {} /\ PagesHere = {}
  BY <1>1, <1>2, <1>3 DEF OneAsked, Shut
<1>5. Head(c2r).after \in UpTo
  BY <1>1, NextRequest DEF TypeInv, CatchupsNow
<1>6. p \in PagesNow /\ (\E b \in UpTo : PageFrom(p, b, asks.fly)) /\ (~p.more => p.last = Len(log))
  BY <1>3, <1>5, PageAnswers
<1> HIDE DEF p
<1>7. p \in AnswersNow' /\ p.t = "page" /\ Value(p) = p.last /\ UpTo' = UpTo
  <2>1. p \in AnswersNow /\ p.t = "page"
    BY <1>6 DEF AnswersNow, PagesNow
  <2>2. p \in PagesNow'
    BY <1>1, <1>6 DEF PagesNow, EnvelopesNow, UpTo, Stored
  <2> QED
    BY <1>1, <2>1, <2>2 DEF Value, UpTo, AnswersNow
<1>8. /\ Len(r2c) \in Nat /\ DOMAIN r2c = 1..Len(r2c) /\ Len(r2c') = Len(r2c) + 1 /\ DOMAIN r2c' = 1..(Len(r2c) + 1)
      /\ \A i \in 1..Len(r2c) : r2c'[i] = r2c[i]
      /\ r2c'[Len(r2c) + 1] = p
      /\ PagesAt' = {Len(r2c) + 1}
  BY <1>1, <1>4, <1>7, AnswerPushed
<1>9. CatchUpsAt' = {}
  BY <1>1, <1>2, <1>3, CatchUpsPopped DEF OneAsked, OneAt
<1>10. PagesHere' = {}
  BY <1>1, <1>4 DEF PagesHere, OfThisSocket
<1>11. OneAsked'
  BY <1>1, <1>2, <1>4, <1>8, <1>9, <1>10 DEF OneAsked, OneAt
<1>12. Shut' /\ Climbs' /\ Within' /\ NextFree'
  BY <1>1, <1>2, <1>4, <1>10, WithinNext DEF Shut, Climbs, Within, NextFree
<1>13. Pursued'
  BY <1>8 DEF Pursued, Requested
<1>14. PagesSound'
  <2>1. ASSUME ~p.more PROVE told <= p.last /\ \A j \in 1..Len(r2c) : Value(r2c[j]) <= p.last
    BY <1>6, <2>1, AnswerFacts DEF UpTo, TypeInv, DocTypes
  <2>2. ASSUME NEW i \in PagesAt' PROVE LastPage(i)' /\ \E b \in UpTo' : PageFrom(r2c'[i], b, asks'.fly)
    <3>1. i = Len(r2c) + 1 /\ r2c'[i] = p
      BY <1>8, <2>2
    <3>2. \A j \in 1..(i - 1) : r2c'[j] = r2c[j] /\ j \in 1..Len(r2c)
      BY <1>8, <3>1
    <3>3. LastPage(i)'
      BY <1>1, <2>1, <3>1, <3>2 DEF LastPage, Value
    <3> QED
      BY <1>1, <1>6, <1>7, <3>1, <3>3
  <2> QED
    BY <2>2 DEF PagesSound
<1>15. InOrder'
  <2> SUFFICES ASSUME ~MoreComes'
      PROVE  /\ \A i \in DOMAIN r2c' : r2c'[i].t = "update" => \E j \in PagesAt' : j > i
             /\ Reached(r2c', told', Len(r2c') + 1, Len(log'))
    BY DEF InOrder
  <2>1. p.last = Len(log)
    BY <1>6, <1>8 DEF MoreComes
  <2>2. ASSUME NEW i \in DOMAIN r2c', r2c'[i].t = "update" PROVE Len(r2c) + 1 > i
    BY <1>7, <1>8, <2>2
  <2>3. Reached(r2c', told', Len(r2c') + 1, Len(log'))
    <3>1. Len(r2c) + 1 \in 1..((Len(r2c') + 1) - 1)
      BY <1>8
    <3>2. Value(r2c'[Len(r2c) + 1]) >= Len(log')
      <4>1. Len(log) \in Nat
        BY AnswerFacts
      <4> QED
        BY <1>1, <1>7, <1>8, <2>1, <4>1
    <3> QED
      BY <3>1, <3>2 DEF Reached
  <2> QED
    BY <1>8, <2>2, <2>3
<1> QED
  BY <1>11, <1>12, <1>13, <1>14, <1>15 DEF GapInv

LEMMA RelayTakesGap == ASSUME Reader, TypeInv, GapInv, RelayTakes PROVE GapInv'
<1>1. c2r # <<>> /\ c2r' = Tail(c2r)
  BY DEF RelayTakes
<1>2. Head(c2r).t \in {"catchup", "snapshot"}
  BY <1>1, CatchUpsPopped
<1> QED
  BY <1>2, SnapshotTakenGap, CatchUpAnsweredGap

-----------------------------------------------------------------------------
(* The socket brings a page.                                               *)

\* The page asked for is the only one, and nothing else is in flight.
LEMMA PageAlone ==
    ASSUME Reader, TypeInv, GapInv, r2c # <<>>, Head(r2c).t = "page", r2c' = Tail(r2c)
    PROVE  /\ Head(r2c) = r2c[1] /\ r2c[1] \in PagesNow /\ Value(r2c[1]) = r2c[1].last
           /\ PagesAt = {1} /\ PagesAt' = {} /\ CatchUpsAt = {} /\ PagesHere = {} /\ open
           /\ asks.fly # None /\ asks.fly <= lastSeq /\ asks.fly \in Nat /\ asks.wait \in Int /\ asks.wait <= lastSeq
           /\ lastSeq <= told /\ lastSeq \in Nat /\ told \in Nat
           /\ (~r2c[1].more => told <= r2c[1].last)
           /\ \E b \in UpTo : PageFrom(r2c[1], b, asks.fly)
<1>1. OneAsked /\ Shut /\ PagesSound /\ Within /\ Climbs
  BY DEF GapInv
<1>2. /\ Head(r2c) = r2c[1] /\ 1 \in DOMAIN r2c
      /\ \A i \in PagesAt' : i \in 1..(Len(r2c) - 1) /\ i + 1 \in PagesAt
  <2>1. Len(r2c) \in Nat /\ Len(r2c) >= 1 /\ Head(r2c) = r2c[1]
    BY AnswersPopped
  <2>2. DOMAIN r2c = 1..Len(r2c)
    BY AnswerFacts
  <2> QED
    BY <2>1, <2>2, AnswersPopped
<1>3. 1 \in PagesAt
  BY <1>2 DEF PagesAt
<1>4. PagesAt = {1} /\ CatchUpsAt = {} /\ PagesHere = {} /\ asks.fly # None /\ open
  BY <1>1, <1>3 DEF OneAsked, OneAt, Shut
<1>5. PagesAt' = {}
  <2>1. \A i \in PagesAt' : i \in Nat /\ i > 0 /\ i + 1 = 1
    BY <1>2, <1>4, AnswersPopped
  <2> QED
    BY <2>1
<1>6. r2c[1] \in PagesNow /\ Value(r2c[1]) = r2c[1].last
  BY <1>2, NextAnswer DEF TypeInv, Value
<1>7. asks.fly \in Nat /\ asks.wait \in Int /\ lastSeq \in Nat /\ told \in Nat
  BY <1>4, TaskFacts, Lengths DEF TypeInv, AskTypes, AsksNow, None
<1>8. asks.fly <= lastSeq /\ asks.wait <= lastSeq /\ lastSeq <= told
  BY <1>1, <1>4 DEF OneAsked, Climbs, Within
<1>9. (~r2c[1].more => told <= r2c[1].last) /\ \E b \in UpTo : PageFrom(r2c[1], b, asks.fly)
  BY <1>1, <1>3 DEF PagesSound, LastPage
<1> QED
  BY <1>2, <1>4, <1>5, <1>6, <1>7, <1>8, <1>9

\* The call that applies the page begins.
LEMMA PageCalled ==
    ASSUME Reader, TypeInv, GapInv, r2c # <<>>, Head(r2c).t = "page", r2c' = Tail(r2c),
           told' = Larger(told, Value(Head(r2c))), NEW j \in CallsNow, NewTask(j),
           j.t = "page", j.conn = drops, j.more = r2c[1].more,
           AskStays, UNCHANGED <<open, log, drops>>, lastSeq' \in Nat, asks.fly <= lastSeq', Steady(j, lastSeq'),
           Reaches(j, IF j.more THEN asks.fly + 1 ELSE asks'.wait, lastSeq'), Within', NextFree', ~j.more => Known'
    PROVE  GapInv'
<1>1. OneAsked /\ InOrder
  BY DEF GapInv
<1>2. PagesAt = {1} /\ PagesAt' = {} /\ CatchUpsAt = {} /\ PagesHere = {} /\ open /\ asks.fly # None
  BY PageAlone
<1>3. asks'.fly = asks.fly /\ asks'.again \in {None, asks.fly} /\ CatchUpsAt' = {}
  BY <1>2 DEF AskStays, CatchUpsStay
<1>4. Len(tasks) \in Nat /\ DOMAIN tasks = 1..Len(tasks) /\ drops \in Nat /\ tasks \in Seq(CallsNow)
  BY TaskFacts
<1>5. /\ DOMAIN tasks' = 1..(Len(tasks) + 1) /\ tasks'[Len(tasks) + 1] = j
      /\ \A i \in 1..Len(tasks) : tasks'[i] = tasks[i]
  BY <1>4, Pushed DEF NewTask
<1>6. PagesHere' = {Len(tasks) + 1}
  BY <1>2, <1>4, <1>5 DEF PagesHere, OfThisSocket
<1>7. MoreHere' <=> j.more
  BY <1>5, <1>6 DEF MoreHere
<1>8. ASSUME NEW i \in DOMAIN tasks' PROVE tasks'[i].conn <= drops'
  <2>1. CASE i = Len(tasks) + 1
    BY <1>4, <1>5, <2>1
  <2>2. CASE i # Len(tasks) + 1
    <3>1. i \in DOMAIN tasks /\ tasks'[i] = tasks[i]
      BY <1>4, <1>5, <2>2
    <3> QED
      BY <1>1, <3>1 DEF OneAsked
  <2> QED
    BY <2>1, <2>2
<1>9. OneAsked'
  BY <1>2, <1>3, <1>6, <1>8 DEF OneAsked, OneAt
<1>10. Shut' /\ PagesSound'
  BY <1>2 DEF Shut, PagesSound
<1>11. Climbs'
  BY <1>3, <1>5, <1>6 DEF Climbs
<1>12. Pursued'
  BY <1>7 DEF Pursued, Requested
<1>13. InOrder'
  <2>1. MoreComes => MoreComes'
    BY <1>2, <1>7 DEF MoreComes, MoreHere
  <2> QED
    BY <1>1, <2>1, InOrderPopped
<1> QED
  BY <1>9, <1>10, <1>11, <1>12, <1>13 DEF GapInv

\* The rows of a page, one after the other.
LEMMA RowsBrought ==
    ASSUME TypeInv, NEW p \in PagesNow, NEW b \in Nat, NEW fly, PageFrom(p, b, fly)
    PROVE  /\ {e.seq : e \in Range(p.rows)} = (b + 1)..p.last /\ p.last \in Nat /\ b <= p.last
           /\ p.rows \in Seq(EnvelopesNow) /\ Len(p.rows) \in Nat /\ (p.rows # <<>> => 1 \in 1..Len(p.rows))
           /\ \A j \in 1..Len(p.rows) : p.rows[j].seq = b + j
           /\ \A j \in 1..(Len(p.rows) - 1) : p.rows[j + 1].seq <= p.rows[j].seq + 1
           /\ p.rows = <<>> => p.last = b
<1>1. p.last \in Nat /\ p.rows \in Seq(EnvelopesNow)
  BY Lengths DEF PagesNow, TypeInv, UpTo
<1>2. Len(p.rows) \in Nat /\ DOMAIN p.rows = 1..Len(p.rows) /\ (p.rows = <<>> <=> Len(p.rows) = 0)
  BY <1>1, LenProperties, EmptySeq
<1>3. b <= p.last /\ Len(p.rows) = p.last - b /\ \A j \in 1..Len(p.rows) : p.rows[j].seq = b + j
  BY DEF PageFrom
<1>4. {e.seq : e \in Range(p.rows)} = (b + 1)..p.last
  <2>1. \A j \in 1..Len(p.rows) : b + j \in (b + 1)..p.last
    BY <1>1, <1>2, <1>3
  <2>2. \A u \in (b + 1)..p.last : u - b \in 1..Len(p.rows) /\ b + (u - b) = u
    BY <1>1, <1>2, <1>3
  <2>3. \A x \in Range(p.rows) : x.seq \in (b + 1)..p.last
    BY <1>2, <1>3, <2>1 DEF Range
  <2>4. ASSUME NEW u \in (b + 1)..p.last PROVE \E x \in Range(p.rows) : x.seq = u
    <3>1. p.rows[u - b] \in Range(p.rows) /\ p.rows[u - b].seq = u
      BY <1>2, <1>3, <2>2 DEF Range
    <3> QED
      BY <3>1
  <2> QED
    BY <2>3, <2>4
<1>5. ASSUME NEW j \in 1..(Len(p.rows) - 1) PROVE p.rows[j + 1].seq <= p.rows[j].seq + 1
  <2>1. j \in 1..Len(p.rows) /\ j + 1 \in 1..Len(p.rows)
    BY <1>2
  <2>2. p.rows[j].seq = b + j /\ p.rows[j + 1].seq = b + (j + 1)
    BY <1>3, <2>1
  <2> QED
    BY <2>1, <2>2
<1>6. p.rows # <<>> => 1 \in 1..Len(p.rows)
  BY <1>2
<1>7. p.rows = <<>> => p.last = b
  BY <1>1, <1>2, <1>3
<1> QED
  BY <1>1, <1>2, <1>3, <1>4, <1>5, <1>6, <1>7

\* A page without a snapshot.
LEMMA RowsGap ==
    ASSUME Reader, TypeInv, GapInv, OnPage, Head(r2c).snap = <<>>
    PROVE  GapInv'
<1> DEFINE p == r2c[1]
           k == Call("page", p.rows, p.more)
           fly == asks.fly
<1>1. /\ r2c # <<>> /\ Head(r2c).t = "page" /\ r2c' = Tail(r2c) /\ UNCHANGED <<open, row, log, drops>>
      /\ told' = Larger(told, Head(r2c).last)
  BY DEF OnPage, relay, bounds
<1>2. /\ Head(r2c) = p /\ p \in PagesNow /\ Value(p) = p.last
      /\ CatchUpsAt = {} /\ open /\ fly # None /\ fly <= lastSeq /\ fly \in Nat /\ asks.wait \in Int /\ asks.wait <= lastSeq
      /\ lastSeq <= told /\ lastSeq \in Nat /\ told \in Nat
      /\ (~p.more => told <= p.last)
      /\ \E b \in UpTo : PageFrom(p, b, fly)
  BY <1>1, PageAlone
<1> HIDE DEF fly
<1>3. PageFrom(p, fly, fly)
  BY <1>1, <1>2 DEF PageFrom
<1>4. \/ /\ p.rows = <<>> /\ NewTask(k) /\ UNCHANGED <<lastSeq, future, asks, c2r>>
      \/ /\ p.rows # <<>> /\ Take(k, 0) /\ UNCHANGED lastSeq
  <2>1. Range(p.snap) = {}
    BY <1>2 DEF Range
  <2> QED
    BY <1>2, <2>1 DEF OnPage
<1> HIDE DEF p
<1>5. /\ {e.seq : e \in Range(p.rows)} = (fly + 1)..p.last /\ p.last \in Nat /\ fly <= p.last
      /\ p.rows \in Seq(EnvelopesNow) /\ Len(p.rows) \in Nat /\ (p.rows # <<>> => 1 \in 1..Len(p.rows))
      /\ \A j \in 1..Len(p.rows) : p.rows[j].seq = fly + j
      /\ \A j \in 1..(Len(p.rows) - 1) : p.rows[j + 1].seq <= p.rows[j].seq + 1
      /\ p.rows = <<>> => p.last = fly
  BY <1>2, <1>3, RowsBrought
<1>6. /\ k \in CallsNow /\ k \in TasksNow /\ k.todo = p.rows /\ k.opening = <<>> /\ k.t = "page" /\ k.conn = drops
      /\ k.more = p.more
  <2>1. p.more \in BOOLEAN /\ "page" \in {"update", "page"}
    BY <1>2 DEF PagesNow
  <2>2. k \in CallsNow
    BY <1>5, <2>1, NewCall, Zenon
  <2> QED
    BY <2>2 DEF Call, TasksNow
<1> HIDE DEF k
<1>7. Brings(k) = (fly + 1)..p.last
  <2>1. Range(k.opening) = {}
    BY <1>6 DEF Range
  <2> QED
    BY <1>5, <1>6, <2>1 DEF Brings
<1>8. Steady(k, lastSeq)
  <2>1. Top(k, lastSeq) = lastSeq
    BY <1>6 DEF Top
  <2>2. k.todo # <<>> => k.todo[1].seq <= lastSeq + 1
    <3>1. p.rows # <<>> => p.rows[1].seq = fly + 1
      BY <1>5
    <3> QED
      BY <1>2, <1>6, <3>1
  <2> QED
    BY <1>5, <1>6, <2>1, <2>2 DEF Steady
<1>9. Reaches(k, IF k.more THEN fly + 1 ELSE lastSeq, lastSeq)
  <2>1. p.more => fly < p.last
    BY <1>3 DEF PageFrom
  <2>2. p.more => fly + 1 \in (fly + 1)..p.last
    BY <1>2, <1>5, <2>1
  <2> QED
    BY <1>2, <1>6, <1>7, <2>2 DEF Reaches
<1>10. PICK j \in CallsNow :
          /\ NewTask(j) /\ j.t = k.t /\ j.conn = k.conn /\ GoesOn(k, j, lastSeq, lastSeq)
          /\ Brings(j) \subseteq Brings(k)
          /\ \A u \in Brings(k) : u <= lastSeq \/ u \in future' \/ u \in Brings(j)
          /\ future \subseteq future' /\ future' \subseteq future \cup Brings(k)
          /\ lastSeq + 1 \in future' => lastSeq + 1 \in future
          /\ UNCHANGED <<asks, c2r>> \/ RequestCatchup(lastSeq)
  <2>1. CASE p.rows = <<>> /\ NewTask(k) /\ UNCHANGED <<lastSeq, future, asks, c2r>>
    <3>1. GoesOn(k, k, lastSeq, lastSeq)
      BY <1>2, <1>6, StillGoesOn
    <3> QED
      BY <1>6, <2>1, <3>1
  <2>2. CASE p.rows # <<>> /\ Take(k, 0) /\ UNCHANGED lastSeq
    <3>1. PICK j \in CallsNow :
            /\ PutTask(0, j) /\ j.t = k.t /\ j.conn = k.conn /\ GoesOn(k, j, lastSeq, lastSeq)
            /\ Brings(j) \subseteq Brings(k)
            /\ \A u \in Brings(k) : u <= lastSeq \/ u \in future' \/ u \in Brings(j)
            /\ future \subseteq future' /\ future' \subseteq future \cup Brings(k)
            /\ lastSeq + 1 \in future' => lastSeq + 1 \in future
            /\ UNCHANGED <<asks, c2r>> \/ RequestCatchup(lastSeq)
      BY <1>6, <2>2, TakeMoves
    <3>2. NewTask(j)
      BY <3>1 DEF PutTask
    <3> QED
      BY <3>1, <3>2
  <2> QED
    BY <1>4, <2>1, <2>2
<1>11. lastSeq' = lastSeq
  BY <1>4
<1>12. OneAsked /\ Within /\ NextFree
  BY DEF GapInv
<1>13. AskStays
  <2>1. AskStays \/ AskGoes
    BY <1>10, <1>12, AsksAlike, Asks
  <2> QED
    BY <1>2, <2>1 DEF AskGoes, fly
<1>14. asks'.wait \in {asks.wait, lastSeq} /\ asks'.wait <= lastSeq
  BY <1>2, <1>13 DEF AskStays
<1>15. told' = Larger(told, Value(Head(r2c))) /\ told' \in Nat /\ told <= told' /\ p.last <= told' /\ (~p.more => told' = p.last)
  BY <1>1, <1>2, <1>5 DEF Larger
<1>16. j \in TasksNow /\ PutTask(0, j) /\ 0 \in 0..Len(tasks)
  BY <1>10, TaskFacts DEF TasksNow, PutTask
<1>17. \A u \in Brings(k) : u <= lastSeq' \/ Sought(u)'
  BY <1>6, <1>10, <1>11, <1>16, TakenSought
<1>18. Within'
  <2>1. \A x \in Range(tasks) : Brings(x) \subseteq Nat
    BY BroughtIsStored
  <2>2. \A u \in Brings(k) : u <= told'
    BY <1>2, <1>5, <1>7, <1>15
  <2> QED
    BY <1>1, <1>10, <1>11, <1>12, <1>15, <1>16, <2>1, <2>2, TakenWithin
<1>19. NextFree'
  BY <1>10, <1>11, <1>12 DEF NextFree
<1>20. j.more = p.more /\ j.t = "page" /\ j.conn = drops /\ Steady(j, lastSeq')
  BY <1>6, <1>8, <1>10, <1>11 DEF GoesOn
<1>21. Reaches(j, IF j.more THEN asks.fly + 1 ELSE asks'.wait, lastSeq')
  <2>1. CASE p.more
    <3> DEFINE n == fly + 1
    <3>1. Reaches(k, n, lastSeq) /\ n \in Int
      BY <1>2, <1>6, <1>9, <2>1
    <3> HIDE DEF n
    <3>2. GoesOn(k, j, lastSeq, lastSeq)
      BY <1>10
    <3>3. \A x \in Int : Reaches(k, x, lastSeq) => Reaches(j, x, lastSeq)
      BY <1>8, <3>2 DEF GoesOn
    <3>4. Reaches(j, n, lastSeq)
      BY <3>1, <3>3
    <3> QED
      BY <1>11, <1>20, <2>1, <3>4 DEF fly, n
  <2>2. CASE ~p.more
    BY <1>11, <1>14, <1>20, <2>2 DEF Reaches
  <2> QED
    BY <2>1, <2>2
<1>22. ~j.more => Known'
  <2>1. ASSUME ~p.more, NEW u \in (lastSeq' + 1)..told' PROVE Sought(u)'
    <3>1. u \in (fly + 1)..p.last /\ ~(u <= lastSeq')
      BY <1>2, <1>5, <1>11, <1>15, <2>1
    <3> QED
      BY <1>7, <1>17, <3>1
  <2> QED
    BY <1>20, <2>1 DEF Known
<1> QED
  BY <1>1, <1>2, <1>10, <1>11, <1>13, <1>15, <1>18, <1>19, <1>20, <1>21, <1>22, PageCalled DEF p, fly

\* A page with a snapshot: it is opened, then the rows.
LEMMA SnapshotGap ==
    ASSUME Reader, TypeInv, GapInv, OnPage, Head(r2c).snap # <<>>
    PROVE  GapInv'
<1> DEFINE p == r2c[1]
           s == p.snap[1]
           k == Call("page", p.rows, p.more)
           j == [k EXCEPT !.opening = <<s>>]
           fly == asks.fly
<1>1. /\ r2c # <<>> /\ Head(r2c).t = "page" /\ r2c' = Tail(r2c) /\ UNCHANGED <<open, row, log, drops>>
      /\ told' = Larger(told, Head(r2c).last)
  BY DEF OnPage, relay, bounds
<1>2. /\ Head(r2c) = p /\ p \in PagesNow /\ Value(p) = p.last
      /\ CatchUpsAt = {} /\ open /\ fly # None /\ fly <= lastSeq /\ fly \in Nat /\ asks.wait \in Int /\ asks.wait <= lastSeq
      /\ lastSeq <= told /\ lastSeq \in Nat /\ told \in Nat
      /\ (~p.more => told <= p.last)
      /\ \E b \in UpTo : PageFrom(p, b, fly)
  BY <1>1, PageAlone
<1>3. s \in EnvelopesNow /\ s.seq \in Stored /\ s.seq \in Nat /\ s.seq >= 1 /\ s.epoch <= keyEpoch /\ Range(p.snap) = {s}
  <2>1. PICK x \in EnvelopesNow : p.snap = <<x>>
    BY <1>2 DEF PagesNow, AtMostOne
  <2>2. s = x /\ Range(p.snap) = {x}
    BY <2>1 DEF Range
  <2>3. x.epoch = 1 /\ keyEpoch = 1 /\ x.seq \in Stored
    BY Alone DEF EnvelopesNow, Envelope
  <2>4. x.seq \in Nat /\ x.seq >= 1
    BY <2>3, Lengths DEF TypeInv, Stored
  <2> QED
    BY <2>1, <2>2, <2>3, <2>4
<1>4. lastSeq' = s.seq - 1 /\ future' = {u \in future : u > s.seq} /\ NewTask(j) /\ UNCHANGED <<asks, c2r>>
  <2>1. ~Unreadable(s)
    BY <1>3, Alone DEF Unreadable, EnvelopesNow, Envelope
  <2> HIDE DEF s, j
  <2>2. \E x \in Range(p.snap) :
           /\ lastSeq' = BeforeSnapshot(x.seq) /\ future' = {u \in future : u > x.seq}
           /\ Unreadable(x) \/ NewTask([k EXCEPT !.opening = <<x>>])
           /\ UNCHANGED <<asks, c2r>>
    BY <1>2 DEF OnPage
  <2> QED
    BY <1>3, <2>1, <2>2 DEF BeforeSnapshot, j
<1> HIDE DEF fly
<1>5. PageFrom(p, s.seq, fly) /\ s.seq > fly
  BY <1>2 DEF PageFrom
<1> HIDE DEF s, p
<1>6. /\ {e.seq : e \in Range(p.rows)} = (s.seq + 1)..p.last /\ p.last \in Nat /\ s.seq <= p.last
      /\ p.rows \in Seq(EnvelopesNow) /\ Len(p.rows) \in Nat /\ (p.rows # <<>> => 1 \in 1..Len(p.rows))
      /\ \A l \in 1..Len(p.rows) : p.rows[l].seq = s.seq + l
      /\ \A l \in 1..(Len(p.rows) - 1) : p.rows[l + 1].seq <= p.rows[l].seq + 1
  BY <1>2, <1>3, <1>5, RowsBrought
<1>7. /\ j \in CallsNow /\ j \in TasksNow /\ j.todo = p.rows /\ j.opening = <<s>> /\ j.t = "page" /\ j.conn = drops
      /\ j.more = p.more
  <2>1. p.more \in BOOLEAN /\ "page" \in {"update", "page"}
    BY <1>2 DEF PagesNow
  <2>2. j \in CallsNow
    BY <1>3, <1>6, <2>1, NewCall
  <2> QED
    BY <2>2 DEF Call, TasksNow
<1> HIDE DEF k, j
<1>8. j.opening # <<>> /\ j.opening[1] = s /\ Range(j.opening) = {s}
  BY <1>7 DEF Range
<1>9. Brings(j) = {s.seq} \cup ((s.seq + 1)..p.last)
  BY <1>6, <1>7, <1>8 DEF Brings
<1>10. \A u : u \in Brings(j) <=> u \in s.seq..p.last
  BY <1>3, <1>6, <1>9
<1>11. lastSeq' \in Nat /\ fly <= lastSeq' /\ lastSeq' + 1 = s.seq
  BY <1>2, <1>3, <1>4, <1>5
<1>12. Steady(j, lastSeq')
  <2>1. Top(j, lastSeq') = s.seq
    BY <1>3, <1>8, <1>11 DEF Top, Larger
  <2>2. j.todo # <<>> => j.todo[1].seq <= s.seq + 1
    <3>1. p.rows # <<>> => p.rows[1].seq = s.seq + 1
      BY <1>6
    <3> QED
      BY <1>3, <1>7, <3>1
  <2> QED
    BY <1>6, <1>7, <2>1, <2>2 DEF Steady
<1>13. told' = Larger(told, Value(Head(r2c))) /\ told' \in Nat /\ told <= told' /\ p.last <= told' /\ (~p.more => told' = p.last)
  BY <1>1, <1>2, <1>6 DEF Larger
<1>14. OneAsked /\ Within
  BY DEF GapInv
<1>15. AskStays
  BY <1>4, <1>14, AsksAlike
<1>16. Reaches(j, IF j.more THEN asks.fly + 1 ELSE asks'.wait, lastSeq')
  <2>1. CASE p.more
    <3>1. s.seq \in Brings(j) /\ fly + 1 <= s.seq
      BY <1>2, <1>3, <1>5, <1>9
    <3> QED
      BY <1>7, <2>1, <3>1 DEF Reaches, fly
  <2>2. CASE ~p.more
    <3>1. p.last \in Brings(j) /\ asks'.wait <= p.last
      BY <1>2, <1>3, <1>4, <1>6, <1>10, <2>2
    <3> QED
      BY <1>7, <2>2, <3>1 DEF Reaches
  <2> QED
    BY <2>1, <2>2
<1>17. j \in Range(tasks') /\ Range(tasks') \subseteq Range(tasks) \cup {j}
  <2>1. PutTask(0, j) /\ 0 \in 0..Len(tasks)
    BY <1>4, TaskFacts DEF PutTask
  <2> QED
    BY <1>7, <2>1, PutMembers
<1>18. Within'
  <2>1. lastSeq' <= told' /\ row'.seq <= told'
    <3>1. row.seq \in Nat /\ row.seq <= told
      BY <1>14, Lengths DEF Within, TypeInv, DocTypes, UpTo
    <3> QED
      BY <1>1, <1>2, <1>3, <1>6, <1>11, <1>13, <3>1
  <2>2. ASSUME NEW u \in future' PROVE u <= told'
    <3>1. u \in future /\ u \in Nat /\ u <= told
      BY <1>4, <1>14, Lengths DEF Within, TypeInv, FutureTypes, Stored
    <3> QED
      BY <1>2, <1>13, <3>1
  <2>3. ASSUME NEW x \in Range(tasks'), NEW u \in Brings(x) PROVE u <= told'
    <3>1. CASE x = j
      BY <1>3, <1>6, <1>10, <1>13, <2>3, <3>1
    <3>2. CASE x \in Range(tasks)
      <4>1. u \in Nat /\ u <= told
        BY <1>14, <2>3, <3>2, BroughtIsStored DEF Within
      <4> QED
        BY <1>2, <1>13, <4>1
    <3> QED
      BY <1>17, <3>1, <3>2
  <2> QED
    BY <2>1, <2>2, <2>3, WithinNext
<1>19. NextFree'
  <2>1. ~(s.seq > s.seq)
    BY <1>3
  <2> QED
    BY <1>4, <1>11, <2>1 DEF NextFree
<1>20. ~j.more => Known'
  <2>1. ASSUME ~p.more, NEW u \in (lastSeq' + 1)..told' PROVE Sought(u)'
    <3>1. u \in s.seq..p.last
      BY <1>11, <1>13, <2>1
    <3> QED
      BY <1>10, <1>17, <3>1, SoughtNext
  <2> QED
    BY <1>7, <2>1 DEF Known
<1> QED
  BY <1>1, <1>2, <1>4, <1>7, <1>11, <1>12, <1>13, <1>15, <1>16, <1>18, <1>19, <1>20, PageCalled DEF p, fly

LEMMA OnPageGap == ASSUME Reader, TypeInv, GapInv, OnPage PROVE GapInv'
BY RowsGap, SnapshotGap

-----------------------------------------------------------------------------
(* Every step keeps the invariant.                                         *)

\* A device that writes nothing is acknowledged nothing, and follows no key.
LEMMA ReaderNever ==
    ASSUME Reader, TypeInv
    PROVE  /\ ~OnAck /\ ~OnStaleEpoch /\ ~KeysChanged /\ ~Edit /\ ~PeerRotates
           /\ \A i \in DOMAIN tasks : ~AckCommitted(i)
<1>1. /\ ~refused /\ keyEpoch = 1 /\ graphEpoch = 1 /\ MaxOwn = 0 /\ MaxEpoch = 1
  BY Alone DEF Reader
<1>2. ~OnAck /\ ~OnStaleEpoch
  <2>1. r2c # <<>> => Head(r2c).t \in {"page", "update"}
    <3>1. r2c # <<>> => Head(r2c) = r2c[1] /\ Len(r2c) \in Nat /\ Len(r2c) >= 1
      <4>1. ASSUME r2c # <<>> PROVE Head(r2c) = r2c[1] /\ Len(r2c) \in Nat /\ Len(r2c) >= 1
        BY <4>1, AnswerFacts, Popped
      <4> QED
        BY <4>1
    <3> QED
      BY <3>1, AnswerFacts
  <2> QED
    BY <2>1 DEF OnAck, OnStaleEpoch
<1>3. ~KeysChanged /\ ~PeerRotates
  BY <1>1 DEF KeysChanged, PeerRotates
<1>4. ~Edit
  BY <1>1, OwnMade DEF Edit
<1>5. \A i \in DOMAIN tasks : ~AckCommitted(i)
  BY TaskFacts DEF AckCommitted, CallsNow
<1> QED
  BY <1>2, <1>3, <1>4, <1>5

LEMMA GapInit == Init => GapInv
<1> SUFFICES ASSUME Init PROVE GapInv
  OBVIOUS
<1>1. /\ lastSeq = 0 /\ future = {} /\ tasks = <<>> /\ ~open /\ asks = [fly |-> None, again |-> None, wait |-> None]
      /\ row = [seq |-> 0, holds |-> {}] /\ c2r = <<>> /\ r2c = <<>> /\ told = 0
  BY DEF Init
<1>2. CatchUpsAt = {} /\ PagesAt = {} /\ PagesHere = {} /\ Range(tasks) = {}
  BY <1>1 DEF CatchUpsAt, PagesAt, PagesHere, Range
<1>3. OneAsked
  BY <1>1, <1>2 DEF OneAsked, OneAt, None
<1>4. Shut /\ PagesSound /\ Climbs
  BY <1>1, <1>2 DEF Shut, PagesSound, Climbs, None
<1>5. Within /\ NextFree /\ Pursued /\ InOrder
  BY <1>1, <1>2 DEF Within, NextFree, Pursued, InOrder
<1> QED
  BY <1>3, <1>4, <1>5 DEF GapInv

LEMMA GapStep ==
    ASSUME Reader, TypeInv, GapInv, [Next]_vars
    PROVE  GapInv'
<1>1. CASE Device
  <2>1. CASE Calls
    <3>1. PICK i \in DOMAIN tasks : TakeEnvelope(i) \/ Opened(i) \/ EndUpdate(i) \/ EndPage(i) \/ AckCommitted(i)
      BY <2>1 DEF Calls
    <3> QED
      BY <3>1, TakeEnvelopeGap, OpenedGap, EndUpdateGap, EndOldPageGap, EndThisPageGap, ReaderNever
  <2> QED
    BY <1>1, <2>1, OnUpdateGap, OnPageGap, ReaderNever DEF Device
<1>2. CASE Connect \/ RelayTakes \/ Drop \/ Restart \/ SendSnapshot \/ PeerAppends
  BY <1>2, ConnectGap, RelayTakesGap, DropGap, RestartGap, SendSnapshotGap, PeerAppendsGap
<1>3. CASE CaptureSnapshot \/ ReadBack \/ PeerSnapshots \/ Prune \/ UNCHANGED vars
  BY <1>3, QuietGap
<1>4. CASE KeysChanged \/ Edit \/ PeerRotates
  BY <1>4, ReaderNever
<1> QED
  BY <1>1, <1>2, <1>3, <1>4 DEF Next

\* What a document at rest rests on: one catch-up is in flight, followed from its request to its
\* page and to the call that applies it, and what no page will bring is known to the device.
THEOREM GapInvariant == ASSUME Reader, Calm \/ Plain PROVE Spec => [](TypeInv /\ CoveredInv /\ GapInv)
<1>1. Spec => [](TypeInv /\ CoveredInv)
  <2>1. CASE Calm
    BY <2>1, CalmInvariant, PTL
  <2>2. CASE Plain
    BY <2>2, PlainInvariant, PTL
  <2> QED
    BY <2>1, <2>2
<1>2. TypeInv /\ GapInv /\ [Next]_vars => GapInv'
  BY GapStep
<1> QED
  BY <1>1, <1>2, GapInit, PTL DEF Spec

\* A document at rest has every update the relay has named to it: receive, applyEnvelope and
\* applyActivePage of the engine, and queueCatchup and finishCatchup of the session, leave no gap
\* unasked for, whatever sockets are lost and however pages, updates and decryptions overlap.
THEOREM GapIsPursued == ASSUME Reader, Calm \/ Plain PROVE Spec => []GapPursued
<1>1. TypeInv /\ CoveredInv /\ GapInv => GapPursued
  <2> SUFFICES ASSUME TypeInv, CoveredInv, GapInv, AtRest PROVE 1..told \subseteq held
    BY DEF GapPursued
  <2>1. open /\ c2r = <<>> /\ r2c = <<>> /\ tasks = <<>> /\ Range(tasks) = {}
    BY DEF AtRest, Range
  <2>2. ~Requested
    BY <2>1 DEF Requested, CatchUpsAt, PagesAt, MoreHere, PagesHere
  <2>3. \A u \in (lastSeq + 1)..told : u \in future
    BY <2>1, <2>2 DEF GapInv, Pursued, Known, Sought
  <2>4. told <= lastSeq
    <3>1. lastSeq \in Nat /\ told \in Nat
      BY TaskFacts
    <3>2. told > lastSeq => lastSeq + 1 \in (lastSeq + 1)..told
      BY <3>1
    <3> QED
      BY <2>3, <3>1, <3>2 DEF GapInv, NextFree
  <2>5. Covered = held
    BY <2>1 DEF Covered, SnapCalls
  <2>6. 1..told \subseteq 1..lastSeq
    BY <2>4, TaskFacts
  <2> QED
    BY <2>5, <2>6 DEF CoveredInv
<1> QED
  BY <1>1, GapInvariant, PTL

=============================================================================
