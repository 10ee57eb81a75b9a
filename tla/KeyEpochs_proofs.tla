-------------------------- MODULE KeyEpochs_proofs --------------------------
(***************************************************************************)
(* Theorems about KeyEpochs, for any number of walks, epochs and edits.    *)
(*                                                                         *)
(* What is sealed again is identified by where operations are: the queue   *)
(* and what is behind its head, the tasks, the socket, the walks and the   *)
(* drain. An operation being made is nowhere else; one behind the head was *)
(* neither sent nor refused, unless the document was opened with it; one   *)
(* refused was made under an older epoch than the session wants, and is    *)
(* not stored; and a stored one that is sent again has its receipt still.  *)
(***************************************************************************)
EXTENDS KeyEpochs, TLAPS, FiniteSetTheorems, SequenceTheorems, WellFoundedInduction

Places(s) == 1..Len(s)

-----------------------------------------------------------------------------
(* Where operations are.                                                   *)

Queued == {durableQueue[i] : i \in Places(durableQueue)} \ {NoOp}
Behind == {durableQueue[i] : i \in Places(durableQueue) \ {1}} \ {NoOp}
Marks   == {tail[i].op : i \in {j \in Places(tail) : tail[j].t = "mark"}}
Commits == {tail[i].op : i \in {j \in Places(tail) : tail[j].t = "commit"}}
Sent   == {c2r[i].op : i \in {j \in Places(c2r) : c2r[j].t = "append"}}
Olds   == {walk[w].old : w \in Walks} \ {NoOp}
News   == {walk[w].new : w \in Walks} \ {NoOp}
Drafts == {draft} \ {NoOp}

\* Operations that a queue held once, and those still in the making.
Out    == stored \cup Queued \cup Marks \cup Commits \cup Sent \cup Olds
Making == News \cup Drafts
Ops    == rows \cup Out \cup Making

Ids(ops) == {op.id : op \in ops}
RefusedIds == refusedAsStale \cup {r2c[i].id : i \in {j \in Places(r2c) : r2c[j].t = "stale"}}

Confirmed == {c2r[i].id : i \in {j \in Places(c2r) : c2r[j].t = "confirm"}}
Acked     == {r2c[i].id : i \in {j \in Places(r2c) : r2c[j].t = "ack"}}

-----------------------------------------------------------------------------
(* The inductive invariant.                                                *)

Bounded == {synced, base, rowSynced} \subseteq 0..edits

OneOpPerId == \A a, b \in Ops : a.id = b.id => a = b
IdsAreOld  == Ids(Ops) \cup RefusedIds \subseteq 1..(nextId - 1)
Lawful     == \A op \in Ops : op.upTo <= edits /\ 1..op.from \subseteq Contents(stored)

\* A task of the queue and the walk or drain it belongs to are at the same stage.
Owner(task) == IF task.t \in {"store", "discard", "mark"} THEN task.by
               ELSE IF task.t \in {"resume", "enqueue"} THEN "drain" ELSE "resend"
WalkStage(task) == CASE task.t = "store" -> "storing" [] task.t = "discard" -> "discarding"
                     [] OTHER -> "marking"
DrainStage(task) == CASE task.t = "resume" -> "waiting" [] task.t = "enqueue" -> "storing"
                      [] OTHER -> "marking"
Staged ==
    \A i \in Places(tail) :
        LET by == Owner(tail[i]) IN
        /\ by \in Walks => walk[by].pc = WalkStage(tail[i])
        /\ by = "drain" => drain = DrainStage(tail[i])
OneTask ==
    \A i, j \in Places(tail) :
        Owner(tail[i]) = Owner(tail[j]) /\ Owner(tail[i]) # "resend" => i = j
Drafted == draft # NoOp <=> drain \in {"sealing", "storing"}
Walking ==
    \A w \in Walks :
        /\ walk[w].old # NoOp <=> walk[w].pc \in {"sealing", "storing", "discarding"}
        /\ walk[w].new # NoOp <=> walk[w].pc \in {"storing", "discarding"}
        /\ walk[w].old # NoOp => walk[w].index # 0 /\ walk[w].old.epoch < walk[w].epoch
        /\ walk[w].new # NoOp => Content(walk[w].new) = Content(walk[w].old)
        /\ walk[w].new # NoOp => walk[w].new.from = walk[w].old.from
        /\ walk[w].pc = "discarding" => walk[w].new \in rows
        /\ walk[w].epoch <= keyEpoch

Fresh ==
    /\ Making \cap Out = {} /\ Ids(Making) \cap RefusedIds = {}
    /\ News \cap Drafts = {}
    /\ \A v, w \in Walks : walk[v].new = walk[w].new /\ walk[v].new # NoOp => v = w

Acks ==
    /\ receipts \cup Acked \cup Confirmed \subseteq Ids(stored)
    /\ Commits \subseteq stored
Finished ==
    /\ \A op \in stored : op.id \notin receipts \/ op.id \in Confirmed => op \notin rows \cup Queued
    /\ \A i \in Places(c2r) :
           c2r[i].t = "append" /\ c2r[i].op \in stored =>
               /\ c2r[i].op.id \in receipts
               /\ \A j \in 1..(i - 1) : c2r[j].t = "confirm" => c2r[j].id # c2r[i].op.id

DistinctQueue ==
    \A i, j \in Places(durableQueue) : durableQueue[i] = durableQueue[j] /\ durableQueue[i] # NoOp => i = j
NotBehind ==
    /\ Behind \cap (Sent \cup Commits) = {} /\ Ids(Behind) \cap RefusedIds = {}
    /\ Behind \cap stored \subseteq storedAtOpen

Refusals ==
    /\ \A op \in Ops : \A i \in Places(r2c) :
           r2c[i].t = "stale" /\ r2c[i].id = op.id => op.epoch < r2c[i].epoch /\ op \notin stored
    /\ \A op \in Ops : op.id \in refusedAsStale => op.epoch < wantedEpoch /\ op \notin stored

Epochs ==
    /\ {keyEpoch, collected, wantedEpoch} \subseteq 0..graphEpoch
    /\ \A i \in Places(r2c) : r2c[i].t # "ack" => r2c[i].epoch <= graphEpoch

Covered ==
    /\ 1..synced \cup 1..rowSynced \subseteq Contents(stored)
    /\ \A i \in Places(tail) : tail[i].t = "commit" =>
           tail[i].synced <= edits /\ 1..tail[i].synced \subseteq Contents(stored)

Watched ==
    /\ waitingForKey # 0 => keyRetryTimer \/ refreshing # "no"
    /\ RefusedHead => \/ refreshing # "no" \/ keyRetryTimer
                      \/ \E w \in Walks : walk[w].old = Head(durableQueue)
    /\ missingEpoch # 0 => wantedEpoch >= missingEpoch

-----------------------------------------------------------------------------
(* Sequences of which `k` elements left the front and at most one was added. *)

Moved(s, new, k, added) ==
    \A i \in Places(new) : \/ i + k \in Places(s) /\ new[i] = s[i + k]
                           \/ i + k = Len(s) + 1 /\ new[i] \in added

LEMMA MovedBy ==
    ASSUME NEW S, NEW s \in Seq(S), NEW x \in S
    PROVE  /\ Moved(s, s, 0, {}) /\ Moved(s, Append(s, x), 0, {x}) /\ Append(s, x) \in Seq(S)
           /\ s # <<>> => /\ Moved(s, Tail(s), 1, {}) /\ Moved(s, Append(Tail(s), x), 1, {x})
                          /\ Tail(s) \in Seq(S) /\ Append(Tail(s), x) \in Seq(S)
           /\ s \o <<x>> = Append(s, x) /\ s \o <<>> = s
<1>1. Len(s) \in Nat /\ \A i \in Places(s) : s[i] \in S
  BY LenProperties DEF Places
<1>2. Moved(s, s, 0, {}) /\ Moved(s, Append(s, x), 0, {x}) /\ Append(s, x) \in Seq(S)
  BY <1>1, AppendProperties DEF Moved, Places
<1>3. ASSUME s # <<>>
      PROVE  /\ Moved(s, Tail(s), 1, {}) /\ Moved(s, Append(Tail(s), x), 1, {x})
             /\ Tail(s) \in Seq(S) /\ Append(Tail(s), x) \in Seq(S)
  <2>1. /\ Tail(s) \in Seq(S) /\ Len(Tail(s)) = Len(s) - 1 /\ Len(s) # 0
        /\ \A i \in 1..Len(Tail(s)) : Tail(s)[i] = s[i + 1]
    BY <1>3, HeadTailProperties, EmptySeq
  <2>2. /\ Append(Tail(s), x) \in Seq(S) /\ Len(Append(Tail(s), x)) = Len(s)
        /\ \A i \in 1..Len(Tail(s)) : Append(Tail(s), x)[i] = Tail(s)[i]
        /\ Append(Tail(s), x)[Len(s)] = x
    BY <1>1, <2>1, AppendProperties
  <2>3. Moved(s, Tail(s), 1, {})
    BY <1>1, <2>1 DEF Moved, Places
  <2>4. Moved(s, Append(Tail(s), x), 1, {x})
    <3> DEFINE t == Append(Tail(s), x)
    <3>1. /\ Len(t) = Len(s) /\ t[Len(s)] = x /\ Len(Tail(s)) = Len(s) - 1
          /\ \A i \in 1..Len(Tail(s)) : t[i] = s[i + 1]
      BY <2>1, <2>2
    <3> HIDE DEF t
    <3>2. \A i \in 1..Len(t) : i \in 1..(Len(s) - 1) \/ i = Len(s)
      BY <1>1, <3>1
    <3>3. \A i \in 1..(Len(s) - 1) : i + 1 \in 1..Len(s)
      BY <1>1
    <3>4. Moved(s, t, 1, {x})
      BY <1>1, <3>1, <3>2, <3>3 DEF Moved, Places
    <3> QED
      BY <3>4 DEF t
  <2> QED
    BY <2>1, <2>2, <2>3, <2>4
<1>4. s \o <<x>> = Append(s, x) /\ s \o <<>> = s
  BY <1>1
<1> QED
  BY <1>2, <1>3, <1>4

LEMMA Front ==
    ASSUME NEW S, NEW s \in Seq(S)
    PROVE  /\ Len(s) \in Nat /\ \A i \in Places(s) : s[i] \in S /\ i \in Nat \ {0}
           /\ s # <<>> => 1 \in Places(s) /\ Head(s) = s[1] /\ Head(s) \in S
<1>1. Len(s) \in Nat /\ \A i \in Places(s) : s[i] \in S /\ i \in Nat \ {0}
  BY LenProperties DEF Places
<1>2. s # <<>> => Len(s) # 0
  BY EmptySeq
<1>3. s # <<>> => 1 \in Places(s) /\ Head(s) = s[1]
  BY <1>1, <1>2 DEF Places
<1> QED
  BY <1>1, <1>3

LEMMA LeastOf ==
    ASSUME NEW S \in SUBSET Nat, S # {}
    PROVE  \E k \in S : \A j \in S : k <= j
<1> DEFINE R == {ss \in Nat \X Nat : ss[1] < ss[2]}
<1>1. IsWellFoundedOn(R, Nat)
  BY NatLessThanWellFounded DEF OpToRel
<1> HIDE DEF R
<1>2. PICK x \in S : \A y \in S : ~(<<y, x>> \in R)
  BY <1>1, WFMin
<1>3. \A y \in S : ~(y < x)
  BY <1>2 DEF R
<1> QED
  BY <1>3

-----------------------------------------------------------------------------
(* Where a walk stops.                                                     *)

Walk == [pc: {"idle", "sealing", "storing", "discarding", "marking"}, epoch: 0..MaxEpoch,
         index: Nat, old: AnyOp, new: AnyOp, headReplaced: BOOLEAN]

\* A walk under `epoch` that goes on stops at the next operation to seal, or has only the new head
\* to send, or is over.
Picked(on, epoch, queue, refused, from) ==
    /\ on.pc = "sealing" /\ on.new = NoOp /\ on.epoch = epoch
    /\ on.index \in from..Len(queue) /\ on.old = queue[on.index] /\ on.old # NoOp
    /\ on.old.epoch < epoch /\ MayReseal(on.old, on.index, refused)
Sends(on, epoch, queue) ==
    /\ on.pc = "marking" /\ on.old = NoOp /\ on.new = NoOp /\ on.epoch = epoch
    /\ Head(queue) # NoOp

LEMMA NoOps == NoOp \notin Op /\ NoOp \in AnyOp /\ NoOp.id = 0 /\ \A op \in Op : op.id \in 1..MaxOps
BY DEF NoOp, Op, AnyOp

\* A gap in the queue was never refused.
LEMMA GapNotRefused == TypeOK => \A op : op.id \in refusedAsStale => op # NoOp
<1>1. NoOp.id = 0 /\ 0 \notin 1..MaxOps
  BY NoOps
<1>2. TypeOK => refusedAsStale \subseteq 1..MaxOps
  BY DEF TypeOK
<1> QED
  BY <1>1, <1>2

LEMMA Idles ==
    /\ Idle \in Walk /\ Idle.pc = "idle" /\ Idle.old = NoOp /\ Idle.new = NoOp /\ Idle.epoch = 0
    /\ Idle.index = 0 /\ Idle.headReplaced = FALSE
BY NoOps, KeyEpochsAssumption DEF Idle, Walk

LEMMA WalksOn ==
    ASSUME NEW w \in Walk, NEW queue \in Seq(AnyOp), NEW refused, NEW from \in Nat \ {0}
    PROVE  LET on == WalkOn(w, queue, refused, from) IN
           /\ on \in Walk
           /\ \/ on = Idle
              \/ Picked(on, w.epoch, queue, refused, from)
              \/ Sends(on, w.epoch, queue) /\ w.headReplaced
           /\ (/\ from = 1 /\ queue # <<>> /\ Head(queue) # NoOp
               /\ Head(queue).epoch < w.epoch /\ Head(queue).id \in refused)
              => on.pc = "sealing" /\ on.old = Head(queue)
<1> DEFINE stops == Stops(queue, refused, w.epoch, from)
           k     == CHOOSE k \in stops : \A j \in stops : k <= j
           on    == WalkOn(w, queue, refused, from)
           seal  == [w EXCEPT !.pc = "sealing", !.index = k, !.old = queue[k], !.new = NoOp]
           mark  == [w EXCEPT !.pc = "marking", !.old = NoOp, !.new = NoOp]
<1>0. on = IF stops # {} /\ queue[k] # NoOp THEN seal
           ELSE IF stops = {} /\ w.headReplaced /\ Head(queue) # NoOp THEN mark ELSE Idle
  BY DEF WalkOn
<1>1. Len(queue) \in Nat /\ \A i \in 1..Len(queue) : queue[i] \in AnyOp
  BY LenProperties
<1>2. stops \in SUBSET (from..Len(queue)) /\ stops \in SUBSET Nat
  BY <1>1 DEF Stops
<1>3. stops # {} => k \in stops /\ \A j \in stops : k <= j
  BY <1>2, LeastOf
<1>4. \A i \in stops : queue[i] # NoOp => queue[i].epoch < w.epoch /\ MayReseal(queue[i], i, refused)
  BY DEF Stops
<1> HIDE DEF stops, k
<1>5. ASSUME stops # {}, queue[k] # NoOp
      PROVE  /\ seal \in Walk /\ seal.old = queue[k] /\ seal.pc = "sealing"
             /\ Picked(seal, w.epoch, queue, refused, from)
  <2>0. k \in from..Len(queue)
    BY <1>2, <1>3, <1>5
  <2>1. k \in from..Len(queue) /\ k \in Nat /\ queue[k] \in AnyOp
    BY <1>1, <2>0
  <2>2. /\ seal \in Walk /\ seal.pc = "sealing" /\ seal.new = NoOp /\ seal.epoch = w.epoch
        /\ seal.index = k /\ seal.old = queue[k]
    BY <2>1, NoOps DEF Walk
  <2> QED
    BY <1>3, <1>4, <1>5, <2>1, <2>2 DEF Picked
<1>6. mark \in Walk /\ (Head(queue) # NoOp => Sends(mark, w.epoch, queue))
  BY NoOps DEF Walk, Sends
<1>7. on \in Walk /\ (\/ on = Idle
                      \/ Picked(on, w.epoch, queue, refused, from)
                      \/ Sends(on, w.epoch, queue) /\ w.headReplaced)
  BY <1>0, <1>5, <1>6, Idles
<1>8. ASSUME from = 1, queue # <<>>, Head(queue) # NoOp,
             Head(queue).epoch < w.epoch, Head(queue).id \in refused
      PROVE  on.pc = "sealing" /\ on.old = Head(queue)
  <2>1. 1 \in 1..Len(queue) /\ Head(queue) = queue[1]
    BY <1>8, Front DEF Places
  <2>2. 1 \in stops
    BY <1>8, <2>1 DEF stops, Stops, MayReseal
  <2>3. k = 1
    <3>1. k \in from..Len(queue) /\ k <= 1
      BY <1>2, <1>3, <2>2
    <3> QED
      BY <1>1, <1>8, <3>1
  <2>4. on = seal
    BY <1>0, <1>8, <2>1, <2>2, <2>3
  <2> QED
    BY <1>5, <1>8, <2>1, <2>2, <2>3, <2>4
<1> QED
  BY <1>7, <1>8

-----------------------------------------------------------------------------
(* Following an epoch.                                                     *)

\* A walk under `epoch` began, and it is at the head of the queue when that was refused.
Starts(epoch, refused) ==
    \E w \in Walks, on \in Walk :
        /\ walk[w] = Idle /\ walk' = [walk EXCEPT ![w] = on]
        /\ on = Idle \/ Picked(on, epoch, durableQueue, refused, 1)
        /\ (/\ durableQueue # <<>> /\ Head(durableQueue) # NoOp
            /\ Head(durableQueue).epoch < epoch /\ Head(durableQueue).id \in refused)
           => on.old = Head(durableQueue)

LEMMA TypedWalks == TypeOK => walk \in [Walks -> Walk]
BY DEF TypeOK, Walk

LEMMA AsksAgain == \A missing, epoch : AskAgain(missing, epoch) \in {0, missing}
BY DEF AskAgain

LEMMA KeysChange ==
    ASSUME TypeOK, NEW refused, NEW missing, NEW epoch \in 1..MaxEpoch,
           KeysChanged(refused, missing, epoch)
    PROVE  Starts(epoch, refused) /\ missingEpoch' \in {0, missing}
<1> DEFINE idle == {w \in Walks : walk[w] = Idle}
           begun == [Idle EXCEPT !.epoch = epoch]
           on == WalkOn(begun, durableQueue, refused, 1)
           w == CHOOSE v \in idle : TRUE
<1>1. /\ idle # {} /\ walk' = [walk EXCEPT ![w] = on]
      /\ missingEpoch' = IF on = Idle THEN AskAgain(missing, epoch) ELSE missing
  BY DEF KeysChanged
<1>2. w \in Walks /\ walk[w] = Idle
  BY <1>1
<1>3. begun \in Walk /\ begun.epoch = epoch /\ begun.headReplaced = FALSE
  BY Idles, KeyEpochsAssumption DEF Walk
<1>4. durableQueue \in Seq(AnyOp)
  BY DEF TypeOK
<1> HIDE DEF begun, w
<1>5. /\ on \in Walk
      /\ on = Idle \/ Picked(on, epoch, durableQueue, refused, 1)
      /\ (/\ durableQueue # <<>> /\ Head(durableQueue) # NoOp
          /\ Head(durableQueue).epoch < epoch /\ Head(durableQueue).id \in refused)
         => on.old = Head(durableQueue)
  <2> DEFINE result == on
  <2>1. 1 \in Nat \ {0}
    OBVIOUS
  <2>2. /\ result \in Walk
        /\ \/ result = Idle
           \/ Picked(result, begun.epoch, durableQueue, refused, 1)
           \/ Sends(result, begun.epoch, durableQueue) /\ begun.headReplaced
        /\ (/\ 1 = 1 /\ durableQueue # <<>> /\ Head(durableQueue) # NoOp
            /\ Head(durableQueue).epoch < begun.epoch /\ Head(durableQueue).id \in refused)
           => result.pc = "sealing" /\ result.old = Head(durableQueue)
    BY <1>3, <1>4, <2>1, WalksOn
  <2> HIDE DEF result
  <2>3. /\ result \in Walk
        /\ result = Idle \/ Picked(result, epoch, durableQueue, refused, 1)
        /\ (/\ durableQueue # <<>> /\ Head(durableQueue) # NoOp
            /\ Head(durableQueue).epoch < epoch /\ Head(durableQueue).id \in refused)
           => result.old = Head(durableQueue)
    BY <1>3, <2>2
  <2> QED
    BY <2>3 DEF result
<1> HIDE DEF on
<1>6. Starts(epoch, refused)
  BY <1>1, <1>2, <1>5 DEF Starts
<1>7. missingEpoch' \in {0, missing}
  BY <1>1, AsksAgain
<1> QED
  BY <1>6, <1>7

LEMMA StartedTypes ==
    ASSUME TypeOK, NEW epoch, NEW refused, walk' = walk \/ Starts(epoch, refused)
    PROVE  walk' \in [Walks -> Walk]
BY TypedWalks DEF Starts

\* The key is being collected or will be asked for, and what is missing is wanted.
Watching == waitingForKey # 0 => keyRetryTimer \/ refreshing # "no"

SessionTypes ==
    /\ {wantedEpoch, waitingForKey, collected, missingEpoch} \subseteq 0..MaxEpoch
    /\ refreshing \in {"no", "asked", "read", "failing"}
    /\ {recent, keyRetryTimer} \subseteq BOOLEAN

LEMMA FollowStep ==
    ASSUME TypeOK, Watching, NEW epoch \in 1..MaxEpoch, NEW announced \in BOOLEAN,
           NEW refused, NEW missing \in 0..MaxEpoch,
           Follow(epoch, announced, refused, missing), UNCHANGED <<keyEpoch, collected>>
    PROVE  /\ SessionTypes' /\ Watching' /\ refusedAsStale' = refused
           /\ wantedEpoch' = Greater(wantedEpoch, epoch) /\ missingEpoch' \in {0, missing}
           /\ walk' = walk \/ Starts(keyEpoch', refused)
           /\ \/ refreshing' # "no" \/ keyRetryTimer'
              \/ keyEpoch' >= wantedEpoch' /\ Starts(keyEpoch', refused)
<1>1. wantedEpoch' = Greater(wantedEpoch, epoch) /\ refusedAsStale' = refused
  BY DEF Follow
<1>2. wantedEpoch' \in 0..MaxEpoch /\ keyEpoch \in 1..MaxEpoch
  BY <1>1 DEF Greater, TypeOK
<1>3. CASE keyEpoch >= wantedEpoch'
  <2>1. /\ waitingForKey' = 0 /\ keyRetryTimer' = (keyRetryTimer /\ waitingForKey = 0)
        /\ KeysChanged(refused, missing, keyEpoch) /\ UNCHANGED <<refreshing, recent>>
    BY <1>2, <1>3 DEF Follow
  <2>2. Starts(keyEpoch', refused) /\ missingEpoch' \in {0, missing}
    BY <1>2, <2>1, KeysChange
  <2>3. Watching' /\ keyRetryTimer' \in BOOLEAN
    BY <2>1 DEF Watching
  <2>4. SessionTypes'
    <3>1. refreshing' \in {"no", "asked", "read", "failing"} /\ recent' \in BOOLEAN
      BY <2>1 DEF TypeOK
    <3>2. {wantedEpoch', waitingForKey', collected', missingEpoch'} \subseteq 0..MaxEpoch
      <4>1. 0 \in 0..MaxEpoch /\ collected' \in 0..MaxEpoch
        BY KeyEpochsAssumption DEF TypeOK
      <4>2. missingEpoch' \in 0..MaxEpoch /\ waitingForKey' \in 0..MaxEpoch
        BY <2>1, <2>2, <4>1
      <4> QED
        BY <1>2, <4>1, <4>2
    <3> QED
      BY <2>3, <3>1, <3>2 DEF SessionTypes
  <2> QED
    BY <1>1, <1>3, <2>2, <2>3, <2>4
<1>4. CASE keyEpoch < wantedEpoch'
  <2>1. /\ IF refreshing = "no" /\ AsksNow(announced)
           THEN refreshing' = "asked" /\ recent' = TRUE
           ELSE UNCHANGED <<refreshing, recent>>
        /\ missingEpoch' = missing
        /\ UNCHANGED <<waitingForKey, keyRetryTimer, walk>>
    BY <1>2, <1>4 DEF Follow
  <2>2. refreshing' # "no" \/ keyRetryTimer'
    BY <2>1 DEF Watching, AsksNow
  <2>3. SessionTypes'
    <3>1. refreshing' \in {"no", "asked", "read", "failing"}
      BY <2>1 DEF TypeOK
    <3>2. recent' \in BOOLEAN /\ keyRetryTimer' \in BOOLEAN
      BY <2>1 DEF TypeOK
    <3>3. {wantedEpoch', waitingForKey', collected', missingEpoch'} \subseteq 0..MaxEpoch
      BY <1>2, <2>1 DEF TypeOK
    <3> QED
      BY <3>1, <3>2, <3>3 DEF SessionTypes
  <2>4. Watching'
    BY <2>1, <2>2 DEF Watching
  <2> QED
    BY <1>1, <2>1, <2>2, <2>3, <2>4
<1> QED
  BY <1>2, <1>3, <1>4

-----------------------------------------------------------------------------
(* The invariant, in the parts the proof treats one by one.                *)

Types    == TypeOK /\ Bounded
OpsInv   == OneOpPerId /\ IdsAreOld /\ Lawful
StageInv == Staged /\ OneTask /\ Drafted /\ Walking
AckInv   == Acks /\ Finished
QueueInv == DistinctQueue /\ NotBehind
RowsInv  == Covered /\ EditKept

KeysInv ==
    /\ Types /\ OpsInv /\ StageInv /\ Fresh /\ AckInv /\ QueueInv
    /\ Refusals /\ Epochs /\ RowsInv /\ Watched /\ ReplacedNotStored

-----------------------------------------------------------------------------
(* What a step does to the places of operations.                           *)

LEMMA TailSets ==
    ASSUME NEW k \in {0, 1}, NEW X, Moved(tail, tail', k, X)
    PROVE  /\ Marks' \subseteq Marks \cup {x.op : x \in {y \in X : y.t = "mark"}}
           /\ Commits' \subseteq Commits \cup {x.op : x \in {y \in X : y.t = "commit"}}
<1>1. \A i \in Places(tail') : \/ i + k \in Places(tail) /\ tail'[i] = tail[i + k]
                               \/ tail'[i] \in X
  BY DEF Moved
<1> QED
  BY <1>1 DEF Marks, Commits

LEMMA SentSets ==
    ASSUME NEW k \in {0, 1}, NEW X, Moved(c2r, c2r', k, X)
    PROVE  /\ Sent' \subseteq Sent \cup {x.op : x \in {y \in X : y.t = "append"}}
           /\ Confirmed' \subseteq Confirmed \cup {x.id : x \in {y \in X : y.t = "confirm"}}
<1>1. \A i \in Places(c2r') : \/ i + k \in Places(c2r) /\ c2r'[i] = c2r[i + k]
                              \/ c2r'[i] \in X
  BY DEF Moved
<1> QED
  BY <1>1 DEF Sent, Confirmed

LEMMA AnswerSets ==
    ASSUME NEW k \in {0, 1}, NEW X, Moved(r2c, r2c', k, X)
    PROVE  /\ RefusedIds' \subseteq RefusedIds \cup refusedAsStale'
                                     \cup {x.id : x \in {y \in X : y.t = "stale"}}
           /\ Acked' \subseteq Acked \cup {x.id : x \in {y \in X : y.t = "ack"}}
<1>1. \A i \in Places(r2c') : \/ i + k \in Places(r2c) /\ r2c'[i] = r2c[i + k]
                              \/ r2c'[i] \in X
  BY DEF Moved
<1> QED
  BY <1>1 DEF RefusedIds, Acked

LEMMA Queues ==
    ASSUME UNCHANGED durableQueue
    PROVE  UNCHANGED <<Queued, Behind>>
BY DEF Queued, Behind

LEMMA StartedOps ==
    ASSUME TypeOK, NEW epoch, NEW refused, walk' = walk \/ Starts(epoch, refused)
    PROVE  UNCHANGED News /\ Olds' \subseteq Olds \cup Queued
<1>1. CASE walk' = walk
  BY <1>1 DEF News, Olds
<1>2. CASE Starts(epoch, refused)
  <2>1. PICK w \in Walks, on \in Walk :
            /\ walk[w] = Idle /\ walk' = [walk EXCEPT ![w] = on]
            /\ on = Idle \/ Picked(on, epoch, durableQueue, refused, 1)
    BY <1>2 DEF Starts
  <2>2. /\ walk \in [Walks -> Walk] /\ walk'[w] = on
        /\ \A v \in Walks \ {w} : walk'[v] = walk[v]
    BY <2>1, TypedWalks
  <2>3. on.new = NoOp /\ (on.old = NoOp \/ on.old \in Queued)
    BY <2>1, Idles DEF Picked, Queued, Places
  <2>4. walk[w].new = NoOp
    BY <2>1, Idles
  <2>5. UNCHANGED News
    BY <2>2, <2>3, <2>4 DEF News
  <2>6. Olds' \subseteq Olds \cup Queued
    BY <2>2, <2>3 DEF Olds
  <2> QED
    BY <2>5, <2>6
<1> QED
  BY <1>1, <1>2

LEMMA OpsKept ==
    ASSUME OpsInv, Ops' \subseteq Ops, RefusedIds' \subseteq RefusedIds \cup Ids(Ops),
           UNCHANGED nextId, edits' \in Nat, edits \in Nat, edits <= edits', stored \subseteq stored',
           \A op \in Ops : op.upTo \in Nat
    PROVE  OpsInv'
<1>1. OneOpPerId'
  BY DEF OpsInv, OneOpPerId
<1>2. IdsAreOld'
  BY DEF OpsInv, IdsAreOld, Ids
<1>3. Contents(stored) \subseteq Contents(stored)'
  BY DEF Contents
<1>4. Lawful'
  BY <1>3 DEF OpsInv, Lawful
<1> QED
  BY <1>1, <1>2, <1>4 DEF OpsInv

\* A new operation takes the next id.
LEMMA OpsAdded ==
    ASSUME OpsInv, NEW op, op.id = nextId, Ops' \subseteq Ops \cup {op}, RefusedIds' \subseteq RefusedIds,
           nextId \in Nat \ {0}, nextId' = nextId + 1, UNCHANGED <<edits, stored>>,
           op.upTo <= edits, 1..op.from \subseteq Contents(stored)
    PROVE  OpsInv'
<1>1. \A o \in Ops : o.id # op.id
  BY DEF OpsInv, IdsAreOld, Ids
<1>2. OneOpPerId'
  BY <1>1 DEF OpsInv, OneOpPerId
<1>3. IdsAreOld'
  BY DEF OpsInv, IdsAreOld, Ids
<1>4. Contents(stored)' = Contents(stored)
  BY DEF Contents
<1>5. Lawful'
  BY <1>4 DEF OpsInv, Lawful
<1> QED
  BY <1>2, <1>3, <1>5 DEF OpsInv

\* Operations are operations.
LEMMA OpsTyped ==
    ASSUME TypeOK
    PROVE  Ops \subseteq Op /\ Making \subseteq Op /\ Out \subseteq Op
<1>1. Queued \subseteq Op
  <2>1. durableQueue \in Seq(AnyOp)
    BY DEF TypeOK
  <2>2. \A i \in Places(durableQueue) : durableQueue[i] \in AnyOp
    BY <2>1, Front
  <2> QED
    BY <2>2 DEF Queued, AnyOp
<1>2. Marks \subseteq Op /\ Commits \subseteq Op
  <2>1. \A i \in Places(tail) : tail[i] \in Task
    BY Front DEF TypeOK
  <2>2. \A task \in Task : task.t \in {"mark", "commit"} => task.op \in Op
    BY DEF Task
  <2> QED
    BY <2>1, <2>2 DEF Marks, Commits
<1>3. Sent \subseteq Op
  <2>1. \A i \in Places(c2r) : c2r[i] \in ClientMessage
    BY Front DEF TypeOK
  <2>2. \A m \in ClientMessage : m.t = "append" => m.op \in Op
    BY DEF ClientMessage
  <2> QED
    BY <2>1, <2>2 DEF Sent
<1>4. Olds \subseteq Op /\ News \subseteq Op
  BY TypedWalks DEF Olds, News, Walk, AnyOp
<1>5. Drafts \subseteq Op
  BY DEF TypeOK, Drafts, AnyOp
<1>6. rows \subseteq Op /\ stored \subseteq Op
  BY DEF TypeOK
<1> QED
  BY <1>1, <1>2, <1>3, <1>4, <1>5, <1>6 DEF Ops, Making, Out

-----------------------------------------------------------------------------
(* What each part needs of a step.                                         *)

LEMMA FreshKept ==
    ASSUME Fresh, OneOpPerId, Making' \subseteq Making, News' \subseteq News, Drafts' \subseteq Drafts,
           \A op \in Out' : op \in Out \/ op \notin Making',
           RefusedIds' \subseteq RefusedIds \cup Ids(Sent),
           \A w \in Walks : walk'[w].new \in {walk[w].new, NoOp}
    PROVE  Fresh'
<1>1. Making' \cap Out' = {}
  BY DEF Fresh
<1>2. ASSUME NEW m \in Making', m.id \in RefusedIds' PROVE FALSE
  <2>1. m.id \notin RefusedIds
    BY DEF Fresh, Ids
  <2>2. PICK o \in Sent : o.id = m.id
    BY <1>2, <2>1 DEF Ids
  <2>3. o \in Ops /\ m \in Ops /\ o \in Out
    BY DEF Ops, Out
  <2>4. o = m
    BY <2>2, <2>3 DEF OneOpPerId
  <2> QED
    BY <2>3, <2>4 DEF Fresh
<1>3. News' \cap Drafts' = {}
  BY DEF Fresh
<1>4. \A v, w \in Walks : walk'[v].new = walk'[w].new /\ walk'[v].new # NoOp => v = w
  BY DEF Fresh
<1> QED
  BY <1>1, <1>2, <1>3, <1>4 DEF Fresh, Ids

\* Owners of tasks change stage only when their own task runs.
At(stage) == stage \in {"waiting", "storing", "discarding", "marking"}

LEMMA Stages ==
    /\ \A task : At(WalkStage(task)) /\ At(DrainStage(task))
BY DEF At, WalkStage, DrainStage

LEMMA StagedAgain ==
    ASSUME Staged, OneTask, NEW k \in {0, 1}, NEW X, Moved(tail, tail', k, X), Len(tail) \in Nat,
           \A w \in Walks : \/ walk'[w].pc = walk[w].pc \/ ~At(walk[w].pc)
                            \/ k = 1 /\ Owner(tail[1]) = w,
           \/ drain' = drain \/ ~At(drain)
           \/ k = 1 /\ Owner(tail[1]) = "drain",
           \A x \in X : /\ Owner(x) \in Walks =>
                             /\ walk'[Owner(x)].pc = WalkStage(x)
                             /\ ~At(walk[Owner(x)].pc) \/ (k = 1 /\ Owner(tail[1]) = Owner(x))
                        /\ Owner(x) = "drain" =>
                             /\ drain' = DrainStage(x)
                             /\ ~At(drain) \/ (k = 1 /\ Owner(tail[1]) = Owner(x))
                        /\ Owner(x) \in Walks \cup {"drain", "resend"}
    PROVE  Staged' /\ OneTask'
<1>1. \A i \in Places(tail') : 
          /\ i \in Nat \ {0}
          /\ \/ i + k \in Places(tail) /\ tail'[i] = tail[i + k]
             \/ i + k = Len(tail) + 1 /\ tail'[i] \in X
  BY DEF Moved, Places
<1>2. ASSUME NEW i \in Places(tail'), i + k \in Places(tail), tail'[i] = tail[i + k]
      PROVE  /\ Owner(tail'[i]) \in Walks => walk[Owner(tail'[i])].pc = WalkStage(tail'[i])
                                             /\ walk'[Owner(tail'[i])].pc = WalkStage(tail'[i])
             /\ Owner(tail'[i]) = "drain" => drain = DrainStage(tail'[i]) /\ drain' = DrainStage(tail'[i])
             /\ k = 1 /\ Owner(tail[1]) = Owner(tail'[i]) => Owner(tail'[i]) = "resend"
  <2>1. /\ Owner(tail'[i]) \in Walks => walk[Owner(tail'[i])].pc = WalkStage(tail'[i])
        /\ Owner(tail'[i]) = "drain" => drain = DrainStage(tail'[i])
    BY <1>2 DEF Staged
  <2>2. k = 1 /\ Owner(tail[1]) = Owner(tail'[i]) => Owner(tail'[i]) = "resend"
    <3>1. ASSUME k = 1, Owner(tail[1]) = Owner(tail'[i]), Owner(tail'[i]) # "resend" PROVE FALSE
      <4>1. 1 \in Places(tail) /\ i + 1 \in Places(tail) /\ i \in Nat \ {0}
        BY <1>1, <1>2, <3>1 DEF Places
      <4>2. 1 = i + 1
        BY <1>2, <3>1, <4>1 DEF OneTask
      <4> QED
        BY <4>1, <4>2
    <3> QED
      BY <3>1
  <2>3. Owner(tail'[i]) \in Walks => Owner(tail'[i]) # "resend"
    BY KeyEpochsAssumption
  <2> QED
    BY <2>1, <2>2, <2>3, Stages
<1>3. Staged'
  BY <1>1, <1>2 DEF Staged
<1>4. ASSUME NEW i \in Places(tail'), NEW j \in Places(tail'),
             Owner(tail'[i]) = Owner(tail'[j]), Owner(tail'[i]) # "resend"
      PROVE  i = j
  <2>1. CASE i + k \in Places(tail) /\ tail'[i] = tail[i + k] /\ j + k \in Places(tail) /\ tail'[j] = tail[j + k]
    <3>1. i + k = j + k
      BY <1>4, <2>1 DEF OneTask
    <3> QED
      BY <1>1, <3>1
  <2>2. CASE i + k = Len(tail) + 1 /\ j + k = Len(tail) + 1
    BY <1>1, <2>2
  <2>3. ASSUME NEW a \in Places(tail'), NEW b \in Places(tail'), a + k \in Places(tail), tail'[a] = tail[a + k],
               tail'[b] \in X, Owner(tail'[a]) = Owner(tail'[b]), Owner(tail'[a]) # "resend"
        PROVE  FALSE
    BY <1>2, <2>3, Stages
  <2> QED
    BY <1>1, <1>4, <2>1, <2>2, <2>3
<1>5. OneTask'
  BY <1>4 DEF OneTask
<1> QED
  BY <1>3, <1>5

\* A refused operation was made under an older key than the one it was refused for.
LEMMA RefusalsKept ==
    ASSUME Refusals, NEW k \in {0, 1}, NEW X, Moved(r2c, r2c', k, X),
           \A op \in Ops' : op \in Ops \/ op.id \notin RefusedIds',
           wantedEpoch \in Nat, wantedEpoch' \in Nat, wantedEpoch <= wantedEpoch',
           \A op \in Ops : op.epoch \in Nat,
           \A op \in Ops : op \in stored' => op \in stored \/ op.id \notin RefusedIds',
           \A op \in Ops, x \in X : x.t = "stale" /\ x.id = op.id => op.epoch < x.epoch /\ op \notin stored',
           \A op \in Ops : op.id \in refusedAsStale' =>
               \/ op.id \in refusedAsStale
               \/ op.epoch < wantedEpoch' /\ op \notin stored'
    PROVE  Refusals'
<1>1. ASSUME NEW op \in Ops', NEW i \in Places(r2c'), r2c'[i].t = "stale", r2c'[i].id = op.id
      PROVE  op.epoch < r2c'[i].epoch /\ op \notin stored'
  <2>1. op.id \in RefusedIds'
    BY <1>1 DEF RefusedIds
  <2>2. op \in Ops
    BY <2>1
  <2>3. CASE i + k \in Places(r2c) /\ r2c'[i] = r2c[i + k]
    BY <1>1, <2>1, <2>2, <2>3 DEF Refusals
  <2>4. CASE r2c'[i] \in X
    BY <1>1, <2>2, <2>4
  <2> QED
    BY <2>3, <2>4 DEF Moved
<1>2. ASSUME NEW op \in Ops', op.id \in refusedAsStale'
      PROVE  op.epoch < wantedEpoch' /\ op \notin stored'
  <2>1. op.id \in RefusedIds'
    BY <1>2 DEF RefusedIds
  <2>2. op \in Ops
    BY <2>1
  <2>3. CASE op.id \in refusedAsStale
    BY <2>1, <2>2, <2>3 DEF Refusals
  <2>4. CASE op.id \notin refusedAsStale
    BY <1>2, <2>2, <2>4
  <2> QED
    BY <2>3, <2>4
<1> QED
  BY <1>1, <1>2 DEF Refusals

-----------------------------------------------------------------------------
(* Steps that follow an epoch: the session's and the engine's keys change,  *)
(* a walk may begin, and at most one message is received.                  *)

KeyStep ==
    /\ UNCHANGED <<text, sending, tail, disk, open, c2r, relay, nextId, storedAtOpen>>
    /\ keyEpoch' \in keyEpoch..graphEpoch /\ wantedEpoch' \in wantedEpoch..graphEpoch
    /\ collected' \in 0..graphEpoch
    /\ walk' = walk \/ Starts(keyEpoch', refusedAsStale')
    /\ \/ UNCHANGED <<r2c, refusedAsStale>>
       \/ /\ r2c # <<>> /\ r2c' = Tail(r2c)
          /\ \/ UNCHANGED refusedAsStale
             \/ /\ refusedAsStale' = refusedAsStale \cup {Head(r2c).id} /\ Head(r2c).t = "stale"
                /\ Head(r2c).epoch <= wantedEpoch'

LEMMA KeyStepPlaces ==
    ASSUME KeysInv, KeyStep
    PROVE  /\ UNCHANGED <<Queued, Behind, Marks, Commits, Sent, News, Drafts, Confirmed>>
           /\ Olds' \subseteq Olds \cup Queued /\ RefusedIds' \subseteq RefusedIds /\ Acked' \subseteq Acked
           /\ \E k \in {0, 1} : Moved(r2c, r2c', k, {})
           /\ Out' \subseteq Out /\ Making' = Making /\ Ops' \subseteq Ops
<1>1. TypeOK /\ r2c \in Seq(ServerMessage)
  BY DEF KeysInv, Types, TypeOK
<1>2. UNCHANGED <<durableQueue, tail, c2r, draft, rows, stored, News>> /\ Olds' \subseteq Olds \cup Queued
  BY <1>1, StartedOps DEF KeyStep, sending, disk, relay
<1>3. UNCHANGED <<Queued, Behind, Marks, Commits, Sent, Drafts, Confirmed>>
  BY <1>2, Queues DEF Marks, Commits, Sent, Drafts, Confirmed
<1>4. PICK k \in {0, 1} : Moved(r2c, r2c', k, {})
  <2>1. CASE r2c' = r2c
    <3>1. \A i \in Places(r2c') : i + 0 \in Places(r2c) /\ r2c'[i] = r2c[i + 0]
      BY <1>1, <2>1, Front
    <3> QED
      BY <3>1 DEF Moved
  <2>2. CASE r2c # <<>> /\ r2c' = Tail(r2c)
    <3>1. Head(r2c) \in ServerMessage
      BY <1>1, <2>2, Front
    <3> QED
      BY <1>1, <2>2, <3>1, MovedBy
  <2> QED
    BY <2>1, <2>2 DEF KeyStep
<1>5. /\ RefusedIds' \subseteq RefusedIds \cup refusedAsStale' /\ Acked' \subseteq Acked
  BY <1>4, AnswerSets
<1>6. refusedAsStale' \subseteq RefusedIds
  BY <1>1, Front DEF KeyStep, RefusedIds
<1>7. Out' \subseteq Out /\ Making' = Making /\ Ops' \subseteq Ops
  BY <1>2, <1>3 DEF Out, Making, Ops
<1> QED
  BY <1>2, <1>3, <1>4, <1>5, <1>6, <1>7

LEMMA EpochsAreNumbers ==
    ASSUME TypeOK
    PROVE  /\ keyEpoch \in Nat /\ graphEpoch \in Nat /\ wantedEpoch \in Nat /\ collected \in Nat
           /\ missingEpoch \in Nat /\ waitingForKey \in Nat
           /\ edits \in Nat /\ synced \in Nat /\ base \in Nat /\ rowSynced \in Nat
           /\ \A op \in Ops : op.id \in Nat /\ op.epoch \in Nat /\ op.upTo \in Nat /\ op.from \in Nat /\ op.id # 0
           /\ nextId \in Nat \ {0}
           /\ \A w \in Walks : walk[w].epoch \in Nat /\ walk[w].index \in Nat
<1>1. /\ keyEpoch \in 1..MaxEpoch /\ graphEpoch \in 1..MaxEpoch /\ wantedEpoch \in 0..MaxEpoch
      /\ collected \in 0..MaxEpoch /\ missingEpoch \in 0..MaxEpoch /\ waitingForKey \in 0..MaxEpoch
  BY DEF TypeOK
<1>2. edits \in 0..MaxEdits /\ synced \in 0..MaxEdits /\ base \in 0..MaxEdits /\ rowSynced \in 0..MaxEdits
  BY DEF TypeOK
<1>3. \A op \in Op : op.id \in Nat /\ op.epoch \in Nat /\ op.upTo \in Nat /\ op.from \in Nat /\ op.id # 0
  BY DEF Op
<1>4. nextId \in Nat \ {0}
  BY DEF TypeOK
<1>5. \A w \in Walks : walk[w].epoch \in Nat /\ walk[w].index \in Nat
  BY TypedWalks DEF Walk
<1>6. Ops \subseteq Op
  BY OpsTyped
<1>7. \A op \in Ops : op.id \in Nat /\ op.epoch \in Nat /\ op.upTo \in Nat /\ op.from \in Nat /\ op.id # 0
  BY <1>3, <1>6
<1> QED
  BY <1>1, <1>2, <1>4, <1>5, <1>7, KeyEpochsAssumption

LEMMA KeyStepOps ==
    ASSUME KeysInv, KeyStep PROVE OpsInv' /\ Fresh' /\ AckInv'
<1>1. TypeOK /\ OpsInv /\ OneOpPerId /\ Fresh /\ Acks /\ Finished
  BY DEF KeysInv, Types, OpsInv, AckInv
<1>2. UNCHANGED <<edits, stored, nextId, rows, c2r, receipts>>
  BY DEF KeyStep, text, relay, disk
<1>3. OpsInv'
  BY <1>1, <1>2, KeyStepPlaces, EpochsAreNumbers, OpsKept
<1>4. \A w \in Walks : walk'[w].new \in {walk[w].new, NoOp}
  BY <1>1, Idles, TypedWalks DEF KeyStep, Starts, Picked
<1>5. Fresh'
  <2>1. \A op \in Out' : op \in Out \/ op \notin Making'
    BY KeyStepPlaces
  <2>2. Making' \subseteq Making /\ News' \subseteq News /\ Drafts' \subseteq Drafts
        /\ RefusedIds' \subseteq RefusedIds \cup Ids(Sent)
    BY KeyStepPlaces
  <2> QED
    BY <1>1, <1>4, <2>1, <2>2, FreshKept
<1>6. Acks' /\ Finished'
  BY <1>1, <1>2, KeyStepPlaces DEF Acks, Finished
<1> QED
  BY <1>3, <1>5, <1>6 DEF AckInv

LEMMA KeyStepQueue ==
    ASSUME KeysInv, KeyStep PROVE QueueInv' /\ Refusals' /\ Epochs' /\ RowsInv'
<1>1. /\ TypeOK /\ DistinctQueue /\ NotBehind /\ Refusals /\ Epochs /\ Covered /\ EditKept
  BY DEF KeysInv, Types, QueueInv, RowsInv
<1>2. UNCHANGED <<durableQueue, edits, synced, rowSynced, stored, rows, dirty, tail, graphEpoch, storedAtOpen>>
  BY DEF KeyStep, text, relay, disk, sending
<1>3. DistinctQueue'
  BY <1>1, <1>2 DEF DistinctQueue
<1>4. NotBehind'
  BY <1>1, <1>2, KeyStepPlaces DEF NotBehind, Ids
<1>5. Covered' /\ EditKept'
  BY <1>1, <1>2 DEF Covered, EditKept, Contents
<1>6. PICK k \in {0, 1} : Moved(r2c, r2c', k, {})
  BY KeyStepPlaces
<1>7. {keyEpoch, graphEpoch, wantedEpoch} \subseteq Nat /\ wantedEpoch' \in Nat /\ wantedEpoch <= wantedEpoch'
  BY <1>1, EpochsAreNumbers DEF KeyStep
<1>8. Epochs'
  <2>1. {keyEpoch, collected, wantedEpoch}' \subseteq 0..graphEpoch'
    BY <1>2, <1>7 DEF KeyStep
  <2>2. \A i \in Places(r2c') : r2c'[i].t # "ack" => r2c'[i].epoch <= graphEpoch'
    BY <1>1, <1>2, <1>6 DEF Moved, Epochs
  <2> QED
    BY <2>1, <2>2 DEF Epochs
<1>9. Refusals'
  <2>1. \A op \in Ops : op.epoch \in Nat
    BY <1>1, EpochsAreNumbers
  <2>2. \A op \in Ops : op.id \in refusedAsStale' =>
               \/ op.id \in refusedAsStale
               \/ op.epoch < wantedEpoch' /\ op \notin stored'
    <3>1. ASSUME NEW op \in Ops, op.id \in refusedAsStale', op.id \notin refusedAsStale
          PROVE  op.epoch < wantedEpoch' /\ op \notin stored'
      <4>1. /\ r2c # <<>> /\ op.id = Head(r2c).id /\ Head(r2c).t = "stale" /\ Head(r2c).epoch <= wantedEpoch'
        BY <3>1 DEF KeyStep
      <4>2. r2c \in Seq(ServerMessage)
        BY <1>1 DEF TypeOK
      <4>3. 1 \in Places(r2c) /\ Head(r2c) = r2c[1] /\ r2c[1] \in ServerMessage
        BY <4>1, <4>2, Front
      <4>4. op.epoch < r2c[1].epoch /\ op \notin stored
        BY <1>1, <4>1, <4>3 DEF Refusals
      <4>5. r2c[1].epoch \in Nat
        BY <4>1, <4>3 DEF ServerMessage
      <4> QED
        BY <1>2, <1>7, <2>1, <4>1, <4>3, <4>4, <4>5
    <3> QED
      BY <3>1
  <2>3. \A op \in Ops' : op \in Ops \/ op.id \notin RefusedIds'
    BY KeyStepPlaces
  <2>4. /\ \A op \in Ops : op \in stored' => op \in stored \/ op.id \notin RefusedIds'
        /\ \A op \in Ops, x \in {} : x.t = "stale" /\ x.id = op.id => op.epoch < x.epoch /\ op \notin stored'
    BY <1>2
  <2>5. Refusals /\ wantedEpoch \in Nat
    BY <1>1, <1>7
  <2> QED
    BY <1>6, <1>7, <2>1, <2>2, <2>3, <2>4, <2>5, RefusalsKept
<1> QED
  BY <1>3, <1>4, <1>5, <1>8, <1>9 DEF QueueInv, RowsInv

LEMMA Unmoved ==
    ASSUME NEW S, NEW s \in Seq(S)
    PROVE  Moved(s, s, 0, {})
<1>1. \A i \in Places(s) : i + 0 = i
  BY Front
<1> QED
  BY <1>1 DEF Moved

LEMMA KeyStepStages ==
    ASSUME KeysInv, KeyStep PROVE StageInv' /\ ReplacedNotStored'
<1>1. /\ TypeOK /\ Staged /\ OneTask /\ Drafted /\ Walking /\ NotBehind /\ ReplacedNotStored /\ Epochs
      /\ walk \in [Walks -> Walk]
  BY TypedWalks DEF KeysInv, Types, StageInv, QueueInv
<1>2. UNCHANGED <<durableQueue, tail, drain, draft, rows, stored, storedAtOpen>>
  BY DEF KeyStep, relay, disk, sending
<1>3. keyEpoch' \in Nat /\ keyEpoch \in Nat /\ keyEpoch <= keyEpoch'
  BY <1>1, EpochsAreNumbers DEF KeyStep
<1>4. CASE walk' = walk
  <2>1. StageInv'
    BY <1>1, <1>2, <1>3, <1>4, EpochsAreNumbers DEF StageInv, Staged, OneTask, Drafted, Walking
  <2>2. ReplacedNotStored'
    BY <1>1, <1>2, <1>4 DEF ReplacedNotStored
  <2> QED
    BY <2>1, <2>2
<1>5. CASE Starts(keyEpoch', refusedAsStale')
  <2>1. PICK w \in Walks, on \in Walk :
            /\ walk[w] = Idle /\ walk' = [walk EXCEPT ![w] = on]
            /\ on = Idle \/ Picked(on, keyEpoch', durableQueue, refusedAsStale', 1)
    BY <1>5 DEF Starts
  <2>2. /\ walk'[w] = on /\ \A v \in Walks \ {w} : walk'[v] = walk[v]
        /\ walk[w].pc = "idle" /\ on.pc \in {"idle", "sealing"} /\ on.epoch <= keyEpoch'
    BY <1>1, <1>3, <2>1, Idles DEF Picked
  <2>3. Staged' /\ OneTask'
    <3>1. Moved(tail, tail', 0, {}) /\ Len(tail) \in Nat
      BY <1>1, <1>2, Unmoved, Front DEF TypeOK
    <3>2. \A v \in Walks : walk'[v].pc = walk[v].pc \/ ~At(walk[v].pc)
      BY <2>2 DEF At
    <3> QED
      BY <1>1, <1>2, <3>1, <3>2, StagedAgain
  <2>4. Drafted'
    BY <1>1, <1>2 DEF Drafted
  <2>5. Walking'
    <3>1. ASSUME NEW v \in Walks \ {w}
          PROVE  walk'[v] = walk[v] /\ walk[v].epoch <= keyEpoch'
      BY <1>1, <1>3, <2>2, EpochsAreNumbers DEF Walking
    <3>2. /\ on.old # NoOp <=> on.pc \in {"sealing", "storing", "discarding"}
          /\ on.new = NoOp /\ on.pc \notin {"storing", "discarding"}
          /\ on.old # NoOp => on.index # 0 /\ on.old.epoch < on.epoch
          /\ on.epoch <= keyEpoch'
      BY <2>1, <2>2, Idles DEF Picked
    <3> QED
      BY <1>1, <1>2, <2>2, <3>1, <3>2 DEF Walking
  <2>6. ReplacedNotStored'
    <3>1. on.old \in stored => on.index > 1 /\ on.old \in storedAtOpen
      <4>1. CASE on = Idle
        BY <1>1, <4>1, Idles, NoOps DEF TypeOK
      <4>2. CASE Picked(on, keyEpoch', durableQueue, refusedAsStale', 1) /\ on.index = 1
        <5>1. on.old \in Queued /\ on.old.id \in refusedAsStale'
          BY <4>2 DEF Picked, MayReseal, Queued, Places
        <5>2. on.old \in Ops'
          BY <5>1, KeyStepPlaces DEF Ops, Out
        <5>3. on.old \notin stored'
          BY <5>1, <5>2, KeyStepQueue DEF Refusals
        <5> QED
          BY <1>2, <5>3
      <4>3. CASE Picked(on, keyEpoch', durableQueue, refusedAsStale', 1) /\ on.index # 1
        <5>1. on.index \in 1..Len(durableQueue) /\ on.index > 1
          <6>1. on.index \in 1..Len(durableQueue) /\ Len(durableQueue) \in Nat
            BY <1>1, <4>3, Front DEF Picked, TypeOK
          <6> QED
            BY <4>3, <6>1
        <5>2. on.old \in Behind
          BY <4>3, <5>1 DEF Picked, Behind, Places
        <5> QED
          BY <1>1, <5>1, <5>2 DEF NotBehind
      <4> QED
        BY <2>1, <4>1, <4>2, <4>3
    <3> QED
      BY <1>1, <1>2, <2>2, <3>1 DEF ReplacedNotStored
  <2> QED
    BY <2>3, <2>4, <2>5, <2>6 DEF StageInv
<1> QED
  BY <1>4, <1>5 DEF KeyStep

LEMMA KeyStepTypes ==
    ASSUME KeysInv, KeyStep, SessionTypes', troubles' \in 0..MaxTroubles, UNCHANGED idOrder
    PROVE  Types'
<1>1. TypeOK /\ Bounded /\ Epochs
  BY DEF KeysInv, Types
<1>2. /\ UNCHANGED <<edits, synced, base, timer, drain, draft, durableQueue, captured, tail, rows, dirty,
                     rowSynced, open, c2r, graphEpoch, stored, receipts, nextId, storedAtOpen>>
  BY DEF KeyStep, text, relay, disk, sending
<1>3. keyEpoch' \in 1..MaxEpoch
  <2>1. /\ keyEpoch \in 1..MaxEpoch /\ graphEpoch \in 1..MaxEpoch /\ MaxEpoch \in Nat
        /\ keyEpoch' \in keyEpoch..graphEpoch
    BY <1>1, KeyEpochsAssumption DEF TypeOK, KeyStep
  <2> QED
    BY <2>1
<1>4. walk' \in [Walks -> Walk]
  BY <1>1, StartedTypes DEF KeyStep
<1>5. r2c' \in Seq(ServerMessage) /\ refusedAsStale' \subseteq 1..MaxOps
  <2>1. CASE UNCHANGED <<r2c, refusedAsStale>>
    BY <1>1, <2>1 DEF TypeOK
  <2>2. CASE r2c # <<>> /\ r2c' = Tail(r2c)
    <3>1. r2c \in Seq(ServerMessage) /\ refusedAsStale \subseteq 1..MaxOps
      BY <1>1 DEF TypeOK
    <3>2. r2c' \in Seq(ServerMessage) /\ Head(r2c) \in ServerMessage
      BY <2>2, <3>1, MovedBy, Front
    <3>3. Head(r2c).t = "stale" => Head(r2c).id \in 1..MaxOps
      BY <3>2 DEF ServerMessage
    <3> QED
      BY <2>2, <3>1, <3>2, <3>3 DEF KeyStep
  <2> QED
    BY <2>1, <2>2 DEF KeyStep
<1>6. TypeOK'
  <2>1. /\ {keyEpoch, graphEpoch}' \subseteq 1..MaxEpoch
        /\ {wantedEpoch, waitingForKey, collected, missingEpoch}' \subseteq 0..MaxEpoch
        /\ refreshing' \in {"no", "asked", "read", "failing"}
        /\ {recent, keyRetryTimer, timer, open}' \subseteq BOOLEAN
    BY <1>1, <1>2, <1>3 DEF TypeOK, SessionTypes
  <2>2. /\ {edits, synced, base, rowSynced}' \subseteq 0..MaxEdits /\ dirty' \subseteq 1..MaxEdits
        /\ drain' \in {"no", "waiting", "sealing", "storing", "marking"} /\ draft' \in AnyOp
        /\ durableQueue' \in Seq(AnyOp) /\ rows' \subseteq Op /\ stored' \subseteq Op
        /\ captured' \subseteq 1..MaxOps /\ receipts' \subseteq 1..MaxOps
        /\ tail' \in Seq(Task) /\ c2r' \in Seq(ClientMessage) /\ nextId' \in 1..(MaxOps + 1)
        /\ idOrder' \in {"any", "rising", "falling"} /\ storedAtOpen' \subseteq Op
    BY <1>1, <1>2 DEF TypeOK
  <2> QED
    BY <1>4, <1>5, <2>1, <2>2 DEF TypeOK, Walk
<1> QED
  BY <1>1, <1>2, <1>6 DEF Types, Bounded

\* A refused head was made under an older key than the session wants.
OldHead ==
    /\ Head(durableQueue) # NoOp /\ Head(durableQueue) \in Op /\ Head(durableQueue) \in Queued
    /\ Head(durableQueue).epoch < wantedEpoch /\ Head(durableQueue) \notin stored

LEMMA RefusedHeads == TypeOK /\ Refusals /\ RefusedHead => OldHead
<1> SUFFICES ASSUME TypeOK, Refusals, RefusedHead PROVE OldHead
  OBVIOUS
<1>1. durableQueue # <<>> /\ durableQueue \in Seq(AnyOp) /\ Head(durableQueue).id \in refusedAsStale
  BY DEF RefusedHead, TypeOK
<1>2. Head(durableQueue) # NoOp
  BY <1>1, GapNotRefused
<1>3. 1 \in Places(durableQueue) /\ Head(durableQueue) = durableQueue[1] /\ Head(durableQueue) \in AnyOp
  BY <1>1, Front
<1>4. Head(durableQueue) \in Op /\ Head(durableQueue) \in Queued
  BY <1>2, <1>3 DEF Queued, AnyOp
<1>5. Head(durableQueue) \in Ops
  BY <1>4 DEF Ops, Out
<1> QED
  BY <1>1, <1>2, <1>4, <1>5 DEF Refusals, OldHead

LEMMA RefusedHeadsNext == (TypeOK /\ Refusals /\ RefusedHead => OldHead)'
BY RefusedHeads, PTL

LEMMA KeyStepKeeps ==
    ASSUME KeysInv, KeyStep, SessionTypes', troubles' \in 0..MaxTroubles, UNCHANGED idOrder, Watching',
           missingEpoch' # 0 => wantedEpoch' >= missingEpoch',
           RefusedHead' => \/ refreshing' # "no" \/ keyRetryTimer'
                           \/ keyEpoch' >= wantedEpoch' /\ Starts(keyEpoch', refusedAsStale')
                           \/ RefusedHead /\ walk' = walk /\ refreshing = "no" /\ ~keyRetryTimer
    PROVE  KeysInv'
<1>1. OpsInv' /\ Fresh' /\ AckInv' /\ QueueInv' /\ Refusals' /\ Epochs' /\ RowsInv' /\ StageInv'
      /\ ReplacedNotStored' /\ Types'
  BY KeyStepOps, KeyStepQueue, KeyStepStages, KeyStepTypes
<1>2. ASSUME RefusedHead' PROVE \/ refreshing' # "no" \/ keyRetryTimer'
                                \/ \E w \in Walks : walk'[w].old = Head(durableQueue')
  <2>1. UNCHANGED durableQueue
    BY DEF KeyStep, sending
  <2>2. CASE keyEpoch' >= wantedEpoch' /\ Starts(keyEpoch', refusedAsStale')
    <3>1. OldHead' /\ Head(durableQueue').id \in refusedAsStale' /\ durableQueue' # <<>>
      BY <1>1, <1>2, RefusedHeadsNext DEF Types, RefusedHead
    <3>2. /\ Head(durableQueue) # NoOp /\ durableQueue # <<>>
          /\ Head(durableQueue).epoch < wantedEpoch'
          /\ Head(durableQueue) \in Op /\ Head(durableQueue).id \in refusedAsStale'
      BY <2>1, <3>1 DEF OldHead
    <3>3. Head(durableQueue).epoch < keyEpoch'
      <4>1. Head(durableQueue).epoch \in Nat /\ keyEpoch' \in Nat /\ wantedEpoch' \in Nat
        <5>1. keyEpoch' \in 1..MaxEpoch /\ wantedEpoch' \in 0..MaxEpoch
          BY <1>1 DEF Types, TypeOK
        <5>2. Head(durableQueue).epoch \in Nat
          BY <3>2 DEF Op
        <5> QED
          BY <5>1, <5>2, KeyEpochsAssumption
      <4> QED
        BY <2>2, <3>2, <4>1
    <3>4. PICK w \in Walks, on \in Walk :
              walk[w] = Idle /\ walk' = [walk EXCEPT ![w] = on] /\ on.old = Head(durableQueue)
      BY <2>2, <3>2, <3>3 DEF Starts
    <3>5. walk'[w].old = Head(durableQueue)
      BY <3>4, TypedWalks DEF KeysInv, Types
    <3> QED
      BY <2>1, <3>5
  <2>3. CASE RefusedHead /\ walk' = walk /\ refreshing = "no" /\ ~keyRetryTimer
    BY <2>1, <2>3 DEF KeysInv, Watched
  <2> QED
    BY <1>2, <2>2, <2>3
<1>3. Watched'
  BY <1>2 DEF Watched, Watching
<1> QED
  BY <1>1, <1>3 DEF KeysInv

\* A message is received and its epoch followed.
LEMMA Followed ==
    ASSUME KeysInv, NEW kind, Received(kind), Head(r2c).t = kind, kind # "ack",
           NEW announced \in BOOLEAN, NEW refused, NEW missing \in {missingEpoch, Head(r2c).epoch},
           \/ refused = refusedAsStale
           \/ kind = "stale" /\ refused = refusedAsStale \cup {Head(r2c).id},
           Follow(Head(r2c).epoch, announced, refused, missing),
           UNCHANGED <<keyEpoch, collected, text, sending, tail, disk, open, c2r, relay, bounds>>
    PROVE  KeysInv'
<1> DEFINE epoch == Head(r2c).epoch
<1>1. /\ TypeOK /\ Epochs /\ Watched /\ Watching /\ r2c \in Seq(ServerMessage) /\ r2c # <<>>
      /\ r2c' = Tail(r2c)
  BY DEF KeysInv, Types, TypeOK, Watched, Watching, Received
<1>2. Head(r2c) \in ServerMessage /\ 1 \in Places(r2c) /\ Head(r2c) = r2c[1]
  BY <1>1, Front
<1>3. epoch \in 1..MaxEpoch /\ epoch <= graphEpoch
  BY <1>1, <1>2 DEF ServerMessage, Epochs
<1>4. /\ keyEpoch \in Nat /\ graphEpoch \in Nat /\ wantedEpoch \in 0..MaxEpoch /\ missingEpoch \in 0..MaxEpoch
      /\ MaxEpoch \in Nat /\ keyEpoch <= graphEpoch /\ wantedEpoch <= graphEpoch
      /\ collected \in 0..graphEpoch
  <2>1. {keyEpoch, graphEpoch} \subseteq 1..MaxEpoch /\ {wantedEpoch, missingEpoch, collected} \subseteq 0..MaxEpoch
    BY <1>1 DEF TypeOK
  <2>2. {keyEpoch, collected, wantedEpoch} \subseteq 0..graphEpoch
    BY <1>1 DEF Epochs
  <2> QED
    BY <2>1, <2>2, KeyEpochsAssumption
<1>5. missing \in 0..MaxEpoch
  BY <1>3, <1>4
<1>6. /\ SessionTypes' /\ Watching' /\ refusedAsStale' = refused
      /\ wantedEpoch' = Greater(wantedEpoch, epoch) /\ missingEpoch' \in {0, missing}
      /\ walk' = walk \/ Starts(keyEpoch', refused)
      /\ \/ refreshing' # "no" \/ keyRetryTimer'
         \/ keyEpoch' >= wantedEpoch' /\ Starts(keyEpoch', refused)
  BY <1>1, <1>3, <1>5, FollowStep
<1> HIDE DEF epoch
<1>7. wantedEpoch' \in wantedEpoch..graphEpoch /\ epoch <= wantedEpoch'
  BY <1>3, <1>4, <1>6 DEF Greater
<1>8. KeyStep
  <2>1. keyEpoch' \in keyEpoch..graphEpoch /\ collected' \in 0..graphEpoch
    BY <1>4
  <2>2. \/ UNCHANGED refusedAsStale
        \/ /\ refusedAsStale' = refusedAsStale \cup {Head(r2c).id} /\ Head(r2c).t = "stale"
           /\ Head(r2c).epoch <= wantedEpoch'
    BY <1>6, <1>7 DEF epoch
  <2>3. UNCHANGED <<text, sending, tail, disk, open, c2r, relay, nextId, storedAtOpen>>
    BY DEF bounds, opening
  <2> QED
    BY <1>1, <1>6, <1>7, <2>1, <2>2, <2>3 DEF KeyStep
<1>9. missingEpoch' # 0 => wantedEpoch' >= missingEpoch'
  <2>1. missing <= wantedEpoch' \/ missing = 0
    <3>1. missingEpoch # 0 => wantedEpoch >= missingEpoch
      BY <1>1 DEF Watched
    <3> QED
      BY <1>3, <1>4, <1>7, <3>1 DEF epoch
  <2>2. wantedEpoch' \in Nat /\ missing \in Nat
    BY <1>4, <1>5, <1>7
  <2> QED
    BY <1>6, <2>1, <2>2
<1>10. troubles' \in 0..MaxTroubles /\ UNCHANGED idOrder
  BY <1>1 DEF bounds, opening, TypeOK
<1> QED
  BY <1>6, <1>8, <1>9, <1>10, KeyStepKeeps

LEMMA OnStaleEpochKeeps == ASSUME KeysInv, OnStaleEpoch PROVE KeysInv'
<1>1. /\ Received("stale") /\ Head(r2c).t = "stale"
      /\ Follow(Head(r2c).epoch, FALSE, refusedAsStale \cup {Head(r2c).id}, missingEpoch)
      /\ UNCHANGED <<keyEpoch, collected, text, sending, tail, disk, open, c2r, relay, bounds>>
  BY DEF OnStaleEpoch, Received
<1> QED
  BY <1>1, Followed

LEMMA OnEpochChangedKeeps == ASSUME KeysInv, OnEpochChanged PROVE KeysInv'
<1>1. /\ Received("epoch") /\ Head(r2c).t = "epoch"
      /\ Follow(Head(r2c).epoch, TRUE, refusedAsStale, missingEpoch)
      /\ UNCHANGED <<keyEpoch, collected, text, sending, tail, disk, open, c2r, relay, bounds>>
  BY DEF OnEpochChanged, Received
<1> QED
  BY <1>1, Followed

LEMMA OnOthersStaleEpochKeeps == ASSUME KeysInv, OnOthersStaleEpoch PROVE KeysInv'
<1>1. /\ Received("other") /\ Head(r2c).t = "other"
      /\ Follow(Head(r2c).epoch, FALSE, refusedAsStale, missingEpoch)
      /\ UNCHANGED <<keyEpoch, collected, text, sending, tail, disk, open, c2r, relay, bounds>>
  BY DEF OnOthersStaleEpoch, Received
<1> QED
  BY <1>1, Followed

\* Steps that leave the walks and the refusals alone.
LEMMA QuietStep ==
    ASSUME KeysInv, keyEpoch' \in keyEpoch..graphEpoch, collected' \in 0..graphEpoch,
           UNCHANGED <<wantedEpoch, keys, text, sending, tail, disk, open, c2r, relay, nextId, opening>>,
           r2c' = r2c \/ (r2c # <<>> /\ r2c' = Tail(r2c)), troubles' \in 0..MaxTroubles, SessionTypes', Watching',
           \/ refreshing' # "no" \/ keyRetryTimer'
           \/ refreshing = "no" /\ ~keyRetryTimer
    PROVE  KeysInv'
<1>1. TypeOK /\ Epochs /\ Watched
  BY DEF KeysInv, Types
<1>2. wantedEpoch \in Nat /\ graphEpoch \in Nat /\ wantedEpoch <= graphEpoch
  BY <1>1, EpochsAreNumbers DEF Epochs
<1>3. wantedEpoch' \in wantedEpoch..graphEpoch /\ UNCHANGED <<refusedAsStale, walk, missingEpoch, durableQueue>>
  BY <1>2 DEF keys, sending
<1>4. KeyStep
  BY <1>3 DEF KeyStep, opening
<1>5. RefusedHead' => RefusedHead
  BY <1>3 DEF RefusedHead
<1>6. missingEpoch' # 0 => wantedEpoch' >= missingEpoch'
  BY <1>1, <1>3 DEF Watched
<1> QED
  BY <1>3, <1>4, <1>5, <1>6, KeyStepKeeps DEF opening

LEMMA SessionTyped == TypeOK => SessionTypes
BY DEF TypeOK, SessionTypes

LEMMA InRange ==
    ASSUME KeysInv
    PROVE  /\ keyEpoch \in 1..MaxEpoch /\ graphEpoch \in 1..MaxEpoch /\ wantedEpoch \in 0..MaxEpoch
           /\ keyEpoch \in keyEpoch..graphEpoch /\ graphEpoch \in keyEpoch..graphEpoch
           /\ collected \in 0..graphEpoch /\ wantedEpoch <= graphEpoch /\ MaxEpoch \in Nat
           /\ missingEpoch \in 0..MaxEpoch /\ 0 \in 0..graphEpoch
<1>1. /\ {keyEpoch, graphEpoch} \subseteq 1..MaxEpoch /\ {wantedEpoch, missingEpoch, collected} \subseteq 0..MaxEpoch
      /\ {keyEpoch, collected, wantedEpoch} \subseteq 0..graphEpoch
  BY DEF KeysInv, Types, TypeOK, Epochs
<1> QED
  BY <1>1, KeyEpochsAssumption

LEMMA OnUpdateKeeps == ASSUME KeysInv, OnUpdate PROVE KeysInv'
<1>1. /\ Received("update") /\ Head(r2c).t = "update" /\ r2c # <<>> /\ r2c' = Tail(r2c)
      /\ UNCHANGED <<keyEpoch, collected, text, sending, tail, disk, open, c2r, relay, bounds>>
  BY DEF OnUpdate, Received
<1>2. CASE Follow(Head(r2c).epoch, FALSE, refusedAsStale, Head(r2c).epoch)
  BY <1>1, <1>2, Followed
<1>3. CASE UNCHANGED <<wantedEpoch, waitingForKey, refreshing, recent, keyRetryTimer, keys>>
  <2>1. TypeOK /\ Watched
    BY DEF KeysInv, Types
  <2>2. SessionTypes'
    BY <1>1, <1>3, <2>1, SessionTyped DEF SessionTypes, keys
  <2>3. Watching'
    BY <1>3, <2>1 DEF Watched, Watching
  <2>4. keyEpoch' \in keyEpoch..graphEpoch /\ collected' \in 0..graphEpoch
    BY <1>1, InRange
  <2>5. /\ troubles' \in 0..MaxTroubles
        /\ UNCHANGED <<wantedEpoch, keys, text, sending, tail, disk, open, c2r, relay, nextId, opening>>
    BY <1>1, <1>3, <2>1 DEF bounds, TypeOK
  <2>6. \/ refreshing' # "no" \/ keyRetryTimer'
        \/ refreshing = "no" /\ ~keyRetryTimer
    BY <1>3
  <2> QED
    BY <1>1, <2>2, <2>3, <2>4, <2>5, <2>6, QuietStep
<1> QED
  BY <1>2, <1>3 DEF OnUpdate

LEMMA CollectionReadKeeps == ASSUME KeysInv, CollectionRead PROVE KeysInv'
<1>1. TypeOK /\ refreshing' = "read" /\ collected' = graphEpoch
  BY DEF KeysInv, Types, CollectionRead
<1>2. UNCHANGED <<keyEpoch, wantedEpoch, waitingForKey, recent, keyRetryTimer, text, sending, keys, tail,
                  disk, wire, relay, bounds>>
  BY DEF CollectionRead
<1>3. keyEpoch' \in keyEpoch..graphEpoch /\ collected' \in 0..graphEpoch
  BY <1>1, <1>2, InRange
<1>4. SessionTypes'
  BY <1>1, <1>2, SessionTyped, InRange DEF SessionTypes, keys
<1>5. Watching'
  BY <1>1 DEF Watching
<1>6. troubles' \in 0..MaxTroubles /\ UNCHANGED <<open, c2r, r2c, nextId, opening>>
  BY <1>1, <1>2 DEF bounds, wire, TypeOK
<1> QED
  BY <1>1, <1>2, <1>3, <1>4, <1>5, <1>6, QuietStep

LEMMA CollectionFailsKeeps == ASSUME KeysInv, CollectionFails PROVE KeysInv'
<1>1. TypeOK /\ refreshing' = "failing" /\ troubles' = troubles + 1 /\ troubles < MaxTroubles
  BY DEF KeysInv, Types, CollectionFails
<1>2. UNCHANGED <<keyEpoch, wantedEpoch, waitingForKey, collected, recent, keyRetryTimer, text, sending,
                  keys, tail, disk, wire, relay, nextId, opening>>
  BY DEF CollectionFails
<1>3. keyEpoch' \in keyEpoch..graphEpoch /\ collected' \in 0..graphEpoch
  BY <1>1, <1>2, InRange
<1>4. SessionTypes'
  BY <1>1, <1>2, SessionTyped, InRange DEF SessionTypes, keys
<1>5. Watching'
  BY <1>1 DEF Watching
<1>6. troubles' \in 0..MaxTroubles
  <2>1. troubles \in 0..MaxTroubles /\ MaxTroubles \in Nat
    BY <1>1, KeyEpochsAssumption DEF TypeOK
  <2> QED
    BY <1>1, <2>1
<1>7. UNCHANGED <<open, c2r, r2c>>
  BY <1>2 DEF wire
<1> QED
  BY <1>1, <1>2, <1>3, <1>4, <1>5, <1>6, <1>7, QuietStep

LEMMA IntervalPassesKeeps == ASSUME KeysInv, IntervalPasses PROVE KeysInv'
<1>1. TypeOK /\ Watched /\ recent' = FALSE
  BY DEF KeysInv, Types, IntervalPasses
<1>2. UNCHANGED <<keyEpoch, wantedEpoch, waitingForKey, refreshing, collected, keyRetryTimer, text, sending,
                  keys, tail, disk, wire, relay, bounds>>
  BY DEF IntervalPasses
<1>3. keyEpoch' \in keyEpoch..graphEpoch /\ collected' \in 0..graphEpoch
  BY <1>1, <1>2, InRange
<1>4. SessionTypes'
  BY <1>1, <1>2, SessionTyped, InRange DEF SessionTypes, keys
<1>5. Watching'
  BY <1>1, <1>2 DEF Watching, Watched
<1>6. troubles' \in 0..MaxTroubles /\ UNCHANGED <<open, c2r, r2c, nextId, opening>>
  BY <1>1, <1>2 DEF bounds, wire, TypeOK
<1>7. \/ refreshing' # "no" \/ keyRetryTimer'
      \/ refreshing = "no" /\ ~keyRetryTimer
  BY <1>2
<1> QED
  BY <1>1, <1>2, <1>3, <1>4, <1>5, <1>6, <1>7, QuietStep

LEMMA CollectedElsewhereKeeps == ASSUME KeysInv, CollectedElsewhere PROVE KeysInv'
<1>1. TypeOK /\ Watched /\ keyEpoch' = graphEpoch
  BY DEF KeysInv, Types, CollectedElsewhere
<1>2. UNCHANGED <<session, text, sending, keys, tail, disk, wire, relay, bounds>>
  BY DEF CollectedElsewhere
<1>3. keyEpoch' \in keyEpoch..graphEpoch /\ collected' \in 0..graphEpoch
  BY <1>1, <1>2, InRange DEF session
<1>4. SessionTypes'
  BY <1>1, <1>2, SessionTyped, InRange DEF SessionTypes, keys, session
<1>5. Watching'
  BY <1>1, <1>2 DEF Watching, Watched, session
<1>6. troubles' \in 0..MaxTroubles /\ UNCHANGED <<open, c2r, r2c, nextId, opening, wantedEpoch>>
  BY <1>1, <1>2 DEF bounds, wire, TypeOK, session
<1>7. \/ refreshing' # "no" \/ keyRetryTimer'
      \/ refreshing = "no" /\ ~keyRetryTimer
  BY <1>2 DEF session
<1> QED
  BY <1>1, <1>2, <1>3, <1>4, <1>5, <1>6, <1>7, QuietStep

\* The end of a collection, and a retry that finds the key held: the walks of keysChanged.
LEMMA KeysHeldStep ==
    ASSUME KeysInv, NEW key \in keyEpoch..graphEpoch, keyEpoch' = key, wantedEpoch' = wantedEpoch,
           collected' \in {0, collected}, KeysChanged(refusedAsStale, missingEpoch, key),
           UNCHANGED <<refusedAsStale, text, sending, tail, disk, wire, relay, bounds>>,
           refreshing' \in {"no", "asked", "read", "failing"}, recent' \in BOOLEAN,
           waitingForKey' \in {0, wantedEpoch}, keyRetryTimer' \in BOOLEAN,
           \/ key >= wantedEpoch /\ waitingForKey' = 0
           \/ key < wantedEpoch /\ keyRetryTimer'
    PROVE  KeysInv'
<1>1. TypeOK /\ Watched
  BY DEF KeysInv, Types
<1>2. key \in 1..MaxEpoch /\ wantedEpoch \in Nat /\ 0 \in 0..MaxEpoch
  BY InRange
<1>3. Starts(keyEpoch', refusedAsStale') /\ missingEpoch' \in {0, missingEpoch}
  <2>1. Starts(key, refusedAsStale) /\ missingEpoch' \in {0, missingEpoch}
    BY <1>1, <1>2, KeysChange
  <2> QED
    BY <2>1
<1>4. collected' \in 0..graphEpoch
  BY InRange
<1>5. KeyStep
  <2>1. wantedEpoch' \in wantedEpoch..graphEpoch
    BY InRange
  <2>2. UNCHANGED <<open, c2r, r2c, nextId, storedAtOpen>>
    BY DEF wire, bounds, opening
  <2> QED
    BY <1>3, <1>4, <2>1, <2>2 DEF KeyStep
<1>6. SessionTypes'
  <2>1. keyRetryTimer' \in BOOLEAN
    OBVIOUS
  <2>2. wantedEpoch' \in 0..MaxEpoch /\ collected' \in 0..MaxEpoch /\ waitingForKey' \in 0..MaxEpoch
    BY <1>1, <1>2 DEF TypeOK
  <2>3. missingEpoch' \in 0..MaxEpoch
    BY <1>2, <1>3, InRange
  <2> QED
    BY <2>1, <2>2, <2>3 DEF SessionTypes
<1>0. key \in Nat /\ wantedEpoch \in Nat
  BY <1>2, InRange
<1>7. Watching' /\ (keyRetryTimer' \/ keyEpoch' >= wantedEpoch')
  BY <1>0 DEF Watching
<1>9. missingEpoch' # 0 => wantedEpoch' >= missingEpoch'
  BY <1>1, <1>3 DEF Watched
<1>10. troubles' \in 0..MaxTroubles /\ UNCHANGED idOrder
  BY <1>1 DEF bounds, opening, TypeOK
<1> QED
  BY <1>3, <1>5, <1>6, <1>7, <1>9, <1>10, KeyStepKeeps

LEMMA RefreshedKeeps == ASSUME KeysInv, Refreshed PROVE KeysInv'
<1> DEFINE key == IF refreshing = "read" THEN Greater(keyEpoch, collected) ELSE keyEpoch
<1>1. /\ keyEpoch' = key /\ refreshing' = "no" /\ collected' = 0
      /\ Waits(keyEpoch', wantedEpoch) /\ KeysChanged(refusedAsStale, missingEpoch, keyEpoch')
      /\ UNCHANGED <<wantedEpoch, recent, text, sending, refusedAsStale, tail, disk, wire, relay, bounds>>
  BY DEF Refreshed
<1>2. key \in keyEpoch..graphEpoch
  BY InRange DEF Greater
<1> HIDE DEF key
<1>3. Waits(key, wantedEpoch) /\ KeysChanged(refusedAsStale, missingEpoch, key)
  BY <1>1
<1>4. recent' \in BOOLEAN
  BY <1>1 DEF KeysInv, Types, TypeOK
<1>5. /\ waitingForKey' \in {0, wantedEpoch} /\ keyRetryTimer' \in BOOLEAN
      /\ \/ key >= wantedEpoch /\ waitingForKey' = 0
         \/ key < wantedEpoch /\ keyRetryTimer'
  <2>1. /\ waitingForKey' = IF key >= wantedEpoch THEN 0 ELSE wantedEpoch
        /\ keyRetryTimer' = (key < wantedEpoch)
    BY <1>3 DEF Waits
  <2>2. key \in Nat /\ wantedEpoch \in Nat
    BY <1>2, InRange
  <2>3. CASE key >= wantedEpoch
    <3>1. keyRetryTimer' \in BOOLEAN
      BY <2>1
    <3>2. waitingForKey' = 0
      BY <2>1, <2>3
    <3> QED
      BY <2>3, <3>1, <3>2
  <2>4. CASE ~(key >= wantedEpoch)
    <3>1. key < wantedEpoch
      BY <2>2, <2>4
    <3>2. keyRetryTimer'
      BY <2>1, <3>1, Zenon
    <3> QED
      BY <2>1, <2>4, <3>1, <3>2
  <2> QED
    BY <2>3, <2>4
<1> QED
  BY <1>1, <1>2, <1>3, <1>4, <1>5, KeysHeldStep

LEMMA KeyRetryKeeps == ASSUME KeysInv, KeyRetry PROVE KeysInv'
<1>1. /\ TypeOK /\ Watched /\ keyRetryTimer /\ wantedEpoch' = wantedEpoch
      /\ UNCHANGED <<keyEpoch, collected, refusedAsStale, text, sending, tail, disk, wire, relay, bounds>>
  BY DEF KeysInv, Types, KeyRetry
<1>2. CASE keyEpoch >= wantedEpoch
  <2>1. /\ waitingForKey' = 0 /\ keyRetryTimer' = FALSE
        /\ KeysChanged(refusedAsStale, missingEpoch, keyEpoch)
        /\ UNCHANGED <<refreshing, recent>>
    BY <1>2, InRange DEF KeyRetry
  <2>2. waitingForKey' \in {0, wantedEpoch} /\ keyRetryTimer' \in BOOLEAN
    BY <2>1
  <2>3. refreshing' \in {"no", "asked", "read", "failing"} /\ recent' \in BOOLEAN
    BY <1>1, <2>1 DEF TypeOK
  <2>4. keyEpoch \in keyEpoch..graphEpoch
    BY InRange
  <2> QED
    BY <1>1, <1>2, <2>1, <2>2, <2>3, <2>4, KeysHeldStep
<1>3. CASE keyEpoch < wantedEpoch
  <2>1. /\ keyRetryTimer' = FALSE /\ UNCHANGED <<waitingForKey, walk, missingEpoch>>
        /\ IF refreshing = "no" THEN refreshing' = "asked" /\ recent' = TRUE
           ELSE UNCHANGED <<refreshing, recent>>
    BY <1>3, InRange DEF KeyRetry
  <2>2. refreshing' # "no"
    BY <2>1
  <2>3. SessionTypes'
    <3>1. refreshing' \in {"no", "asked", "read", "failing"} /\ {recent', keyRetryTimer'} \subseteq BOOLEAN
      BY <1>1, <2>1 DEF TypeOK
    <3>2. {wantedEpoch', waitingForKey', collected', missingEpoch'} \subseteq 0..MaxEpoch
      BY <1>1, <2>1 DEF TypeOK
    <3> QED
      BY <3>1, <3>2 DEF SessionTypes
  <2>4. Watching'
    BY <2>2 DEF Watching
  <2>5. keyEpoch' \in keyEpoch..graphEpoch /\ collected' \in 0..graphEpoch
    BY <1>1, InRange
  <2>6. /\ troubles' \in 0..MaxTroubles /\ UNCHANGED r2c
        /\ UNCHANGED <<wantedEpoch, keys, text, sending, tail, disk, open, c2r, relay, nextId, opening>>
    BY <1>1, <2>1 DEF bounds, wire, keys, TypeOK
  <2> QED
    BY <2>2, <2>3, <2>4, <2>5, <2>6, QuietStep
<1> QED
  BY <1>2, <1>3, InRange

-----------------------------------------------------------------------------
(* Types in groups, and what a step that leaves a place alone leaves there. *)

TextTypes == {edits, synced, base, rowSynced} \subseteq 0..MaxEdits /\ dirty \subseteq 1..MaxEdits /\ timer \in BOOLEAN
SendTypes ==
    /\ drain \in {"no", "waiting", "sealing", "storing", "marking"} /\ draft \in AnyOp
    /\ durableQueue \in Seq(AnyOp) /\ captured \subseteq 1..MaxOps /\ rows \subseteq Op
WalkTypes == walk \in [Walks -> Walk] /\ refusedAsStale \subseteq 1..MaxOps
WireTypes ==
    /\ open \in BOOLEAN
    /\ tail \in Seq(Task) /\ c2r \in Seq(ClientMessage) /\ r2c \in Seq(ServerMessage)
RelayTypes ==
    /\ {keyEpoch, graphEpoch} \subseteq 1..MaxEpoch
    /\ stored \subseteq Op /\ receipts \subseteq 1..MaxOps /\ storedAtOpen \subseteq Op
    /\ nextId \in 1..(MaxOps + 1) /\ troubles \in 0..MaxTroubles /\ idOrder \in {"any", "rising", "falling"}

LEMMA TypeParts == TypeOK <=> SessionTypes /\ TextTypes /\ SendTypes /\ WalkTypes /\ WireTypes /\ RelayTypes
<1>1. TypeOK => SessionTypes /\ TextTypes /\ SendTypes /\ WalkTypes /\ WireTypes /\ RelayTypes
  BY DEF TypeOK, SessionTypes, TextTypes, SendTypes, WalkTypes, WireTypes, RelayTypes, Walk
<1>2. ASSUME SessionTypes, TextTypes, SendTypes, WalkTypes, WireTypes, RelayTypes PROVE TypeOK
  BY <1>2 DEF TypeOK, SessionTypes, TextTypes, SendTypes, WalkTypes, WireTypes, RelayTypes, Walk
<1> QED
  BY <1>1, <1>2

LEMMA TypePartsNext ==
    (TypeOK <=> SessionTypes /\ TextTypes /\ SendTypes /\ WalkTypes /\ WireTypes /\ RelayTypes)'
BY TypeParts, PTL

LEMMA SameTypes ==
    ASSUME TypeOK
    PROVE  /\ UNCHANGED <<session, missingEpoch>> => SessionTypes'
           /\ UNCHANGED <<text, dirty, rowSynced>> => TextTypes'
           /\ UNCHANGED <<sending, rows>> => SendTypes'
           /\ UNCHANGED <<walk, refusedAsStale>> => WalkTypes'
           /\ UNCHANGED <<tail, wire>> => WireTypes'
           /\ UNCHANGED <<keyEpoch, relay, bounds>> => RelayTypes'
<1>1. SessionTypes /\ TextTypes /\ SendTypes /\ WalkTypes /\ WireTypes /\ RelayTypes
  BY TypeParts
<1>2. UNCHANGED <<session, missingEpoch>> => SessionTypes'
  BY <1>1 DEF SessionTypes, session
<1>3. UNCHANGED <<text, dirty, rowSynced>> => TextTypes'
  BY <1>1 DEF TextTypes, text
<1>4. UNCHANGED <<sending, rows>> => SendTypes'
  BY <1>1 DEF SendTypes, sending
<1>5. UNCHANGED <<walk, refusedAsStale>> => WalkTypes'
  BY <1>1 DEF WalkTypes
<1>6. UNCHANGED <<tail, wire>> => WireTypes'
  BY <1>1 DEF WireTypes, wire
<1>7. UNCHANGED <<keyEpoch, relay, bounds>> => RelayTypes'
  BY <1>1 DEF RelayTypes, relay, bounds, opening
<1> QED
  BY <1>2, <1>3, <1>4, <1>5, <1>6, <1>7

LEMMA SamePlaces ==
    /\ UNCHANGED durableQueue => UNCHANGED <<Queued, Behind>>
    /\ UNCHANGED tail => UNCHANGED <<Marks, Commits>>
    /\ UNCHANGED c2r => UNCHANGED <<Sent, Confirmed>>
    /\ UNCHANGED r2c => UNCHANGED Acked
    /\ UNCHANGED <<r2c, refusedAsStale>> => UNCHANGED RefusedIds
    /\ UNCHANGED walk => UNCHANGED <<Olds, News>>
    /\ UNCHANGED draft => UNCHANGED Drafts
<1>1. UNCHANGED durableQueue => UNCHANGED <<Queued, Behind>>
  BY DEF Queued, Behind
<1>2. UNCHANGED tail => UNCHANGED <<Marks, Commits>>
  BY DEF Marks, Commits
<1>3. UNCHANGED c2r => UNCHANGED <<Sent, Confirmed>>
  BY DEF Sent, Confirmed
<1>4. UNCHANGED r2c => UNCHANGED Acked
  BY DEF Acked
<1>5. UNCHANGED <<r2c, refusedAsStale>> => UNCHANGED RefusedIds
  BY DEF RefusedIds
<1>6. UNCHANGED walk => UNCHANGED <<Olds, News>>
  BY DEF Olds, News
<1>7. UNCHANGED draft => UNCHANGED Drafts
  BY DEF Drafts
<1> QED
  BY <1>1, <1>2, <1>3, <1>4, <1>5, <1>6, <1>7

LEMMA WatchedKept ==
    ASSUME Watched, UNCHANGED session, missingEpoch' \in {0, missingEpoch},
           RefusedHead' => /\ RefusedHead /\ Head(durableQueue') = Head(durableQueue)
                           /\ \A w \in Walks : walk[w].old = Head(durableQueue) => walk'[w].old = walk[w].old
    PROVE  Watched'
<1>1. UNCHANGED <<waitingForKey, keyRetryTimer, refreshing, wantedEpoch>>
  BY DEF session
<1> QED
  BY <1>1 DEF Watched

-----------------------------------------------------------------------------
(* Edits, drains that begin, and what is put at the end of the cache queue. *)

LEMMA LocalStep ==
    ASSUME KeysInv,
           UNCHANGED <<keyEpoch, session, synced, durableQueue, draft, keys, rows, rowSynced,
                       c2r, r2c, relay, nextId, opening>>,
           NEW k \in {0, 1}, NEW X, Moved(tail, tail', k, X),
           \A x \in X : x.t # "commit" /\ (x.t = "mark" => x.op \in Queued),
           Staged', OneTask', Drafted', Types',
           \/ UNCHANGED <<edits, dirty>>
           \/ edits' = edits + 1 /\ dirty' = dirty \cup {edits'}
    PROVE  KeysInv'
<1>1. /\ TypeOK /\ OpsInv /\ OneOpPerId /\ StageInv /\ Fresh /\ Acks /\ Finished /\ DistinctQueue /\ NotBehind
      /\ Refusals /\ Epochs /\ Covered /\ EditKept /\ Watched /\ ReplacedNotStored /\ Walking
  BY DEF KeysInv, Types, OpsInv, StageInv, AckInv, QueueInv, RowsInv
<1>2. UNCHANGED <<walk, refusedAsStale, missingEpoch, stored, receipts, graphEpoch, storedAtOpen>>
  BY DEF keys, relay, opening
<1>3. /\ UNCHANGED <<Queued, Behind, Sent, Confirmed, Acked, RefusedIds, Olds, News, Drafts>>
      /\ Marks' \subseteq Marks \cup Queued /\ Commits' \subseteq Commits
  <2>1. UNCHANGED <<Queued, Behind, Sent, Confirmed, Acked, RefusedIds, Olds, News, Drafts>>
    BY <1>2, SamePlaces
  <2>2. /\ Marks' \subseteq Marks \cup {x.op : x \in {y \in X : y.t = "mark"}}
        /\ Commits' \subseteq Commits \cup {x.op : x \in {y \in X : y.t = "commit"}}
    BY TailSets
  <2> QED
    BY <2>1, <2>2
<1>4. Out' \subseteq Out /\ Making' = Making /\ Ops' \subseteq Ops
  BY <1>2, <1>3 DEF Out, Making, Ops
<1>5. edits \in Nat /\ edits' \in Nat /\ edits <= edits'
  BY <1>1, EpochsAreNumbers
<1>6. OpsInv'
  <2>1. /\ Ops' \subseteq Ops /\ RefusedIds' \subseteq RefusedIds \cup Ids(Ops) /\ stored \subseteq stored'
        /\ \A op \in Ops : op.upTo \in Nat
    BY <1>1, <1>2, <1>3, <1>4, EpochsAreNumbers
  <2> QED
    BY <1>1, <1>5, <2>1, OpsKept
<1>7. Fresh'
  <2>1. /\ \A op \in Out' : op \in Out \/ op \notin Making'
        /\ Making' \subseteq Making /\ News' \subseteq News /\ Drafts' \subseteq Drafts
        /\ RefusedIds' \subseteq RefusedIds \cup Ids(Sent)
        /\ \A w \in Walks : walk'[w].new \in {walk[w].new, NoOp}
    BY <1>2, <1>3, <1>4
  <2> QED
    BY <1>1, <2>1, FreshKept
<1>8. AckInv'
  BY <1>1, <1>2, <1>3 DEF AckInv, Acks, Finished
<1>9. QueueInv'
  BY <1>1, <1>2, <1>3 DEF QueueInv, DistinctQueue, NotBehind
<1>10. Refusals'
  <2>1. UNCHANGED wantedEpoch
    BY DEF session
  <2> QED
    BY <1>1, <1>2, <1>4, <2>1 DEF Refusals
<1>11. Epochs'
  BY <1>1, <1>2 DEF Epochs, session
<1>12. Contents(stored)' = Contents(stored) /\ Contents(rows)' = Contents(rows)
  BY <1>2 DEF Contents
<1>13. Covered'
  <2>1. \A i \in Places(tail') : tail'[i].t = "commit" => \E j \in Places(tail) : tail'[i] = tail[j]
    BY DEF Moved
  <2>2. \A i \in Places(tail) : tail[i].t = "commit" => tail[i].synced \in Nat
    <3>1. \A i \in Places(tail) : tail[i] \in Task
      BY <1>1, Front DEF TypeOK
    <3> QED
      BY <3>1, KeyEpochsAssumption DEF Task
  <2> QED
    BY <1>1, <1>5, <1>12, <2>1, <2>2 DEF Covered
<1>14. EditKept'
  <2>1. 1..edits' \subseteq 1..edits \cup dirty'
    BY <1>5
  <2> QED
    BY <1>1, <1>12, <2>1 DEF EditKept
<1>15. Watched'
  BY <1>1, <1>2, WatchedKept DEF RefusedHead
<1>16. ReplacedNotStored' /\ Walking'
  BY <1>1, <1>2 DEF ReplacedNotStored, Walking
<1> QED
  BY <1>6, <1>7, <1>8, <1>9, <1>10, <1>11, <1>13, <1>14, <1>15, <1>16 DEF KeysInv, StageInv, RowsInv

LEMMA Owners ==
    /\ Owner([t |-> "resume"]) = "drain" /\ DrainStage([t |-> "resume"]) = "waiting"
    /\ Owner([t |-> "enqueue"]) = "drain" /\ DrainStage([t |-> "enqueue"]) = "storing"
    /\ \A op, by : Owner(Mark(op, by)) = by /\ Mark(op, by).t = "mark" /\ Mark(op, by).op = op
                   /\ Mark(op, by).by = by
                   /\ DrainStage(Mark(op, by)) = "marking" /\ WalkStage(Mark(op, by)) = "marking"
    /\ \A w : Owner([t |-> "store", by |-> w]) = w /\ WalkStage([t |-> "store", by |-> w]) = "storing"
    /\ \A w : Owner([t |-> "discard", by |-> w]) = w /\ WalkStage([t |-> "discard", by |-> w]) = "discarding"
    /\ \A op, s : Owner([t |-> "commit", op |-> op, synced |-> s]) = "resend"
    /\ "drain" \notin Walks /\ "resend" \notin Walks
<1>1. "drain" \notin Walks /\ "resend" \notin Walks
  BY KeyEpochsAssumption
<1> QED
  BY <1>1 DEF Owner, DrainStage, WalkStage, Mark

LEMMA NewTasks ==
    /\ [t |-> "resume"] \in Task /\ [t |-> "enqueue"] \in Task
    /\ \A op \in Op, by \in Walks \cup {"drain", "resend"} : Mark(op, by) \in Task
    /\ \A w \in Walks : [t |-> "store", by |-> w] \in Task /\ [t |-> "discard", by |-> w] \in Task
    /\ \A op \in Op, s \in 0..MaxEdits : [t |-> "commit", op |-> op, synced |-> s] \in Task
BY DEF Task, Mark

LEMMA DrainTasks ==
    ASSUME NEW before \in Seq(Task), NEW d
    PROVE  before \o DrainTask(d) = IF d = "no" THEN Append(before, [t |-> "resume"]) ELSE before
BY DEF DrainTask

LEMMA Resends ==
    ASSUME NEW q \in Seq(AnyOp), NEW before \in Seq(Task), Resend(q, before)
    PROVE  \/ /\ q # <<>> /\ Head(q) \in Op /\ drain' = drain
              /\ tail' = Append(before, Mark(Head(q), "resend"))
           \/ drain = "no" /\ drain' = "waiting" /\ tail' = Append(before, [t |-> "resume"])
           \/ drain # "no" /\ drain' = drain /\ tail' = before
<1>1. CASE q # <<>> /\ Head(q) # NoOp
  <2>1. Head(q) \in Op
    BY <1>1, Front DEF AnyOp
  <2> QED
    BY <1>1, <2>1 DEF Resend
<1>2. CASE ~(q # <<>> /\ Head(q) # NoOp)
  <2>1. drain' = Draining(drain) /\ tail' = before \o DrainTask(drain)
    BY <1>2 DEF Resend
  <2> QED
    BY <2>1, DrainTasks DEF Draining
<1> QED
  BY <1>1, <1>2

LEMMA EditKeeps == ASSUME KeysInv, Edit PROVE KeysInv'
<1>1. /\ TypeOK /\ Bounded /\ edits < MaxEdits /\ edits' = edits + 1 /\ dirty' = dirty \cup {edits'}
      /\ timer' = TRUE
      /\ UNCHANGED <<keyEpoch, session, synced, base, sending, keys, tail, rows, rowSynced, wire, relay, bounds>>
  BY DEF KeysInv, Types, Edit
<1>2. /\ Staged /\ OneTask /\ Drafted /\ tail \in Seq(Task)
  BY <1>1 DEF KeysInv, StageInv, TypeOK
<1>3. Moved(tail, tail', 0, {})
  BY <1>1, <1>2, Unmoved
<1>4. UNCHANGED <<walk, drain, draft, durableQueue, captured, missingEpoch, refusedAsStale, c2r, r2c,
                  nextId, opening>>
  BY <1>1 DEF keys, sending, wire, bounds
<1>5. Staged' /\ OneTask' /\ Drafted'
  BY <1>1, <1>2, <1>4 DEF Staged, OneTask, Drafted
<1>6. TextTypes' /\ Bounded'
  <2>1. edits \in 0..MaxEdits /\ MaxEdits \in Nat /\ {synced, base, rowSynced} \subseteq 0..MaxEdits
        /\ {synced, base, rowSynced} \subseteq 0..edits /\ dirty \subseteq 1..MaxEdits
    BY <1>1, KeyEpochsAssumption DEF TypeOK, Bounded
  <2>2. edits' \in 1..MaxEdits /\ 0..edits \subseteq 0..edits'
    BY <1>1, <2>1
  <2>3. TextTypes'
    BY <1>1, <2>1, <2>2 DEF TextTypes
  <2>4. Bounded'
    BY <1>1, <2>1, <2>2 DEF Bounded
  <2> QED
    BY <2>3, <2>4
<1>7. Types'
  BY <1>1, <1>4, <1>6, SameTypes, TypePartsNext DEF Types
<1>8. \A x \in {} : x.t # "commit" /\ (x.t = "mark" => x.op \in Queued)
  OBVIOUS
<1> QED
  BY <1>1, <1>3, <1>4, <1>5, <1>7, <1>8, LocalStep

\* A step that only puts a task at the end of the cache queue.
LEMMA TaskStep ==
    ASSUME KeysInv,
           UNCHANGED <<keyEpoch, session, edits, synced, base, durableQueue, captured, draft, keys, disk,
                       c2r, r2c, relay, bounds>>,
           timer' \in BOOLEAN, open' \in BOOLEAN,
           NEW x \in Task, tail' = tail \/ tail' = Append(tail, x), x.t # "commit",
           x.t = "mark" => x.op \in Queued,
           \/ drain' = drain /\ (tail' = tail \/ Owner(x) = "resend")
           \/ drain = "no" /\ drain' = "waiting" /\ x.t = "resume" /\ tail' = Append(tail, x)
           \/ drain = "sealing" /\ drain' = "storing" /\ x.t = "enqueue" /\ tail' = Append(tail, x)
    PROVE  KeysInv'
<1>1. /\ TypeOK /\ Bounded /\ Staged /\ OneTask /\ Drafted /\ tail \in Seq(Task)
  BY DEF KeysInv, Types, StageInv, TypeOK
<1>2. UNCHANGED <<walk, rows, dirty, rowSynced, nextId, opening, synced, missingEpoch, refusedAsStale>>
  BY DEF keys, disk, bounds
<1>3. PICK X \in {{}, {x}} : Moved(tail, tail', 0, X) /\ (X = {} \/ tail' = Append(tail, x))
  BY <1>1, MovedBy
<1>4. tail' \in Seq(Task) /\ Len(tail) \in Nat
  BY <1>1, MovedBy, Front
<1>5. Staged' /\ OneTask'
  <2>1. \A w \in Walks : walk'[w].pc = walk[w].pc
    BY <1>2
  <2>2. drain' = drain \/ ~At(drain)
    BY DEF At
  <2>3. \A y \in X : /\ Owner(y) \notin Walks
                     /\ Owner(y) = "drain" => drain' = DrainStage(y) /\ ~At(drain)
                     /\ Owner(y) \in Walks \cup {"drain", "resend"}
    <3>1. "drain" \notin Walks /\ "resend" \notin Walks
      BY Owners
    <3>2. x.t = "resume" => Owner(x) = "drain" /\ DrainStage(x) = "waiting"
      BY DEF Owner, DrainStage
    <3>3. x.t = "enqueue" => Owner(x) = "drain" /\ DrainStage(x) = "storing"
      BY DEF Owner, DrainStage
    <3>4. tail' = Append(tail, x) => tail' # tail
      BY <1>1, AppendProperties
    <3> QED
      BY <1>3, <3>1, <3>2, <3>3, <3>4 DEF At
  <2> QED
    BY <1>1, <1>3, <1>4, <2>1, <2>2, <2>3, StagedAgain
<1>6. Drafted'
  BY <1>1 DEF Drafted
<1>7. Types'
  <2>1. TextTypes' /\ SendTypes' /\ WireTypes'
    <3>1. TextTypes /\ SendTypes /\ WireTypes
      BY <1>1, TypeParts
    <3>2. TextTypes'
      BY <1>2, <3>1 DEF TextTypes
    <3>3. SendTypes'
      BY <1>2, <3>1 DEF SendTypes
    <3>4. WireTypes'
      BY <1>4, <3>1 DEF WireTypes
    <3> QED
      BY <3>2, <3>3, <3>4
  <2>2. SessionTypes' /\ WalkTypes' /\ RelayTypes'
    BY <1>1, <1>2, SameTypes
  <2>3. Bounded'
    BY <1>1, <1>2 DEF Bounded
  <2> QED
    BY <2>1, <2>2, <2>3, TypePartsNext DEF Types
<1>8. \A y \in X : y.t # "commit" /\ (y.t = "mark" => y.op \in Queued)
  BY <1>3
<1> QED
  BY <1>2, <1>3, <1>5, <1>6, <1>7, <1>8, LocalStep

LEMMA DebouncedKeeps == ASSUME KeysInv, Debounced PROVE KeysInv'
<1>1. /\ timer' = FALSE /\ drain' = Draining(drain) /\ tail' = tail \o DrainTask(drain)
      /\ UNCHANGED <<keyEpoch, session, edits, synced, base, draft, durableQueue, captured, keys, disk, wire,
                     relay, bounds>>
  BY DEF Debounced
<1>2. tail \in Seq(Task) /\ open \in BOOLEAN /\ UNCHANGED <<open, c2r, r2c>>
  BY <1>1 DEF KeysInv, Types, TypeOK, wire
<1>3. \/ drain' = drain /\ tail' = tail
      \/ drain = "no" /\ drain' = "waiting" /\ tail' = Append(tail, [t |-> "resume"])
  BY <1>1, <1>2, DrainTasks DEF Draining
<1>4. [t |-> "resume"] \in Task /\ [t |-> "resume"].t = "resume"
  BY NewTasks
<1> QED
  BY <1>1, <1>2, <1>3, <1>4, TaskStep

LEMMA DrainSealedKeeps == ASSUME KeysInv, DrainSealed PROVE KeysInv'
<1>1. /\ drain = "sealing" /\ drain' = "storing" /\ tail' = Append(tail, [t |-> "enqueue"])
      /\ UNCHANGED <<keyEpoch, session, text, draft, durableQueue, captured, keys, disk, wire, relay, bounds>>
  BY DEF DrainSealed
<1>2. timer \in BOOLEAN /\ open \in BOOLEAN /\ UNCHANGED <<open, c2r, r2c, edits, synced, base, timer>>
  BY <1>1 DEF KeysInv, Types, TypeOK, wire, text
<1>3. [t |-> "enqueue"] \in Task /\ [t |-> "enqueue"].t = "enqueue"
  BY NewTasks
<1> QED
  BY <1>1, <1>2, <1>3, TaskStep

LEMMA ConnectKeeps == ASSUME KeysInv, Connect PROVE KeysInv'
<1>1. /\ open' = TRUE /\ Resend(durableQueue, tail)
      /\ UNCHANGED <<keyEpoch, session, text, draft, durableQueue, captured, keys, disk, c2r, r2c, relay, bounds>>
  BY DEF Connect
<1>2. /\ durableQueue \in Seq(AnyOp) /\ tail \in Seq(Task) /\ timer \in BOOLEAN
      /\ UNCHANGED <<edits, synced, base, timer>>
  BY <1>1 DEF KeysInv, Types, TypeOK, text
<1>3. CASE /\ durableQueue # <<>> /\ Head(durableQueue) \in Op /\ drain' = drain
           /\ tail' = Append(tail, Mark(Head(durableQueue), "resend"))
  <2>1. Head(durableQueue) \in Queued
    BY <1>2, <1>3, Front, NoOps DEF Queued
  <2>2. Mark(Head(durableQueue), "resend") \in Task
    BY <1>3, NewTasks
  <2>3. /\ Mark(Head(durableQueue), "resend").t = "mark" /\ Owner(Mark(Head(durableQueue), "resend")) = "resend"
        /\ Mark(Head(durableQueue), "resend").op = Head(durableQueue)
    BY Owners
  <2> QED
    BY <1>1, <1>2, <1>3, <2>1, <2>2, <2>3, TaskStep
<1>4. CASE \/ drain = "no" /\ drain' = "waiting" /\ tail' = Append(tail, [t |-> "resume"])
           \/ drain # "no" /\ drain' = drain /\ tail' = tail
  <2>1. [t |-> "resume"] \in Task /\ [t |-> "resume"].t = "resume"
    BY NewTasks
  <2> QED
    BY <1>1, <1>2, <1>4, <2>1, TaskStep
<1> QED
  BY <1>1, <1>2, <1>3, <1>4, Resends

-----------------------------------------------------------------------------
(* The relay, the other devices and the socket.                            *)

LEMMA WireStep ==
    ASSUME KeysInv,
           UNCHANGED <<keyEpoch, session, text, sending, keys, tail, disk, nextId, opening>>,
           Sent' \subseteq Sent, RefusedIds' \subseteq RefusedIds \cup Ids(Sent),
           stored \subseteq stored', stored' \subseteq stored \cup Sent,
           \A op \in stored' \ stored : op.epoch >= graphEpoch,
           graphEpoch' \in graphEpoch..MaxEpoch, open' \in BOOLEAN,
           c2r' \in Seq(ClientMessage), r2c' \in Seq(ServerMessage),
           receipts' \subseteq 1..MaxOps, troubles' \in 0..MaxTroubles,
           \A i \in Places(r2c') : \/ \E j \in Places(r2c) : r2c'[i] = r2c[j]
                                   \/ r2c'[i].t # "ack" => r2c'[i].epoch <= graphEpoch',
           AckInv', Refusals'
    PROVE  KeysInv'
<1>1. /\ TypeOK /\ Bounded /\ OpsInv /\ OneOpPerId /\ StageInv /\ Fresh /\ DistinctQueue /\ NotBehind
      /\ Epochs /\ Covered /\ EditKept /\ Watched /\ ReplacedNotStored /\ Walking
  BY DEF KeysInv, Types, OpsInv, StageInv, QueueInv, RowsInv
<1>2. /\ UNCHANGED <<edits, synced, base, timer, drain, draft, durableQueue, captured, walk, refusedAsStale,
                     missingEpoch, rows, dirty, rowSynced, storedAtOpen, collected, wantedEpoch, idOrder>>
  BY DEF text, sending, keys, disk, opening, session
<1>3. UNCHANGED <<Queued, Behind, Marks, Commits, Olds, News, Drafts>>
  BY <1>2, SamePlaces
<1>4. Out' \subseteq Out /\ Making' = Making /\ Ops' \subseteq Ops
  BY <1>2, <1>3 DEF Out, Making, Ops
<1>5. Sent \subseteq Out /\ Sent \subseteq Ops /\ Behind \subseteq Ops /\ Behind \subseteq Queued
  <2>1. Behind \subseteq Queued
    BY DEF Behind, Queued
  <2> QED
    BY <2>1 DEF Out, Ops
<1>6. OpsInv'
  <2>1. /\ Ops' \subseteq Ops /\ RefusedIds' \subseteq RefusedIds \cup Ids(Ops)
        /\ \A op \in Ops : op.upTo \in Nat
    BY <1>1, <1>4, <1>5, EpochsAreNumbers DEF Ids
  <2>2. edits \in Nat /\ edits' \in Nat /\ edits <= edits' /\ UNCHANGED nextId
    BY <1>1, <1>2, EpochsAreNumbers
  <2> QED
    BY <1>1, <2>1, <2>2, OpsKept
<1>7. Fresh'
  <2>1. /\ \A op \in Out' : op \in Out \/ op \notin Making'
        /\ Making' \subseteq Making /\ News' \subseteq News /\ Drafts' \subseteq Drafts
        /\ \A w \in Walks : walk'[w].new \in {walk[w].new, NoOp}
    BY <1>2, <1>3, <1>4
  <2> QED
    BY <1>1, <2>1, FreshKept
<1>8. QueueInv'
  <2>1. DistinctQueue'
    BY <1>1, <1>2 DEF DistinctQueue
  <2>2. Behind' \cap (Sent' \cup Commits') = {} /\ Behind' \cap stored' \subseteq storedAtOpen'
    BY <1>1, <1>2, <1>3 DEF NotBehind
  <2>3. ASSUME NEW op \in Behind', op.id \in RefusedIds' PROVE FALSE
    <3>1. op \in Behind /\ op.id \notin RefusedIds
      BY <1>1, <1>3 DEF NotBehind, Ids
    <3>2. PICK o \in Sent : o.id = op.id
      BY <2>3, <3>1 DEF Ids
    <3>3. o = op
      BY <1>1, <1>5, <3>1, <3>2 DEF OneOpPerId
    <3> QED
      BY <1>1, <3>1, <3>3 DEF NotBehind
  <2> QED
    BY <2>1, <2>2, <2>3 DEF QueueInv, NotBehind, Ids
<1>9. Epochs'
  <2>1. {keyEpoch, collected, wantedEpoch}' \subseteq 0..graphEpoch'
    <3>1. {keyEpoch, collected, wantedEpoch} \subseteq 0..graphEpoch /\ graphEpoch \in Nat
      BY <1>1, EpochsAreNumbers DEF Epochs
    <3> QED
      BY <1>2, <3>1
  <2>2. ASSUME NEW i \in Places(r2c'), r2c'[i].t # "ack" PROVE r2c'[i].epoch <= graphEpoch'
    <3>1. CASE \E j \in Places(r2c) : r2c'[i] = r2c[j]
      <4>1. PICK j \in Places(r2c) : r2c'[i] = r2c[j]
        BY <3>1
      <4>2. r2c[j] \in ServerMessage /\ r2c[j].t # "ack"
        BY <1>1, <2>2, <4>1, Front DEF TypeOK
      <4>3. r2c[j].epoch \in Nat /\ r2c[j].epoch <= graphEpoch
        BY <1>1, <4>2 DEF ServerMessage, Epochs
      <4>4. graphEpoch \in Nat /\ graphEpoch' \in Nat /\ graphEpoch <= graphEpoch'
        <5>1. graphEpoch \in Nat
          BY <1>1, EpochsAreNumbers
        <5> QED
          BY <1>2, <5>1
      <4> QED
        BY <4>1, <4>3, <4>4
    <3> QED
      BY <2>2, <3>1
  <2> QED
    BY <2>1, <2>2 DEF Epochs
<1>10. RowsInv'
  <2>1. Contents(stored) \subseteq Contents(stored') /\ Contents(rows') = Contents(rows)
    BY <1>2 DEF Contents
  <2>2. Covered'
    BY <1>1, <1>2, <2>1 DEF Covered, Contents
  <2>3. EditKept'
    BY <1>1, <1>2, <2>1 DEF EditKept, Contents
  <2> QED
    BY <2>2, <2>3 DEF RowsInv
<1>11. Watched'
  BY <1>1, <1>2, WatchedKept DEF RefusedHead
<1>12. ReplacedNotStored'
  <2>1. ASSUME NEW w \in Walks, walk[w].old \in stored', walk[w].old \notin stored PROVE FALSE
    <3>1. walk[w].old \in Sent /\ walk[w].old.epoch >= graphEpoch
      BY <2>1
    <3>2. walk[w].old \in Op
      BY <1>1, <1>5, <3>1, OpsTyped
    <3>3. walk[w].old.epoch < walk[w].epoch /\ walk[w].epoch <= keyEpoch
      BY <1>1, <3>2, NoOps DEF Walking
    <3>4. keyEpoch <= graphEpoch
      BY <1>1 DEF Epochs
    <3>5. walk[w].old.epoch \in Nat /\ walk[w].epoch \in Nat /\ keyEpoch \in Nat /\ graphEpoch \in Nat
      BY <1>1, <1>5, <3>1, EpochsAreNumbers
    <3>6. walk[w].old.epoch < graphEpoch
      BY <3>3, <3>4, <3>5
    <3> QED
      BY <3>1, <3>5, <3>6
  <2> QED
    BY <1>1, <1>2, <2>1 DEF ReplacedNotStored
<1>13. StageInv'
  BY <1>1, <1>2 DEF StageInv, Staged, OneTask, Drafted, Walking
<1>14. Types'
  <2>1. SessionTypes' /\ TextTypes' /\ SendTypes' /\ WalkTypes'
    BY <1>1, <1>2, SameTypes
  <2>2. WireTypes'
    BY <1>1 DEF WireTypes, TypeOK
  <2>3. RelayTypes'
    <3>1. graphEpoch' \in 1..MaxEpoch
      <4>1. graphEpoch \in 1..MaxEpoch
        BY <1>1 DEF TypeOK
      <4> QED
        BY <4>1, KeyEpochsAssumption
    <3>2. stored' \subseteq Op
      BY <1>1, <1>5, OpsTyped DEF TypeOK
    <3> QED
      BY <1>1, <1>2, <3>1, <3>2 DEF RelayTypes, TypeOK
  <2>4. Bounded'
    BY <1>1, <1>2 DEF Bounded
  <2> QED
    BY <2>1, <2>2, <2>3, <2>4, TypePartsNext DEF Types
<1> QED
  BY <1>6, <1>7, <1>8, <1>9, <1>10, <1>11, <1>12, <1>13, <1>14 DEF KeysInv

\* The relay tells those connected something other than an answer to an operation.
LEMMA ToldStep ==
    ASSUME KeysInv, UNCHANGED <<keyEpoch, session, text, sending, keys, tail, disk, open, c2r, stored, receipts, bounds>>,
           graphEpoch' \in graphEpoch..MaxEpoch, NEW m \in ServerMessage, m.t \in {"epoch", "other", "update"},
           m.epoch <= graphEpoch', r2c' = r2c \/ r2c' = Append(r2c, m)
    PROVE  KeysInv'
<1>1. TypeOK /\ Acks /\ Finished /\ Refusals /\ r2c \in Seq(ServerMessage)
  BY DEF KeysInv, Types, TypeOK, AckInv
<1>2. UNCHANGED <<refusedAsStale, durableQueue, draft, walk, rows, wantedEpoch, nextId, opening, troubles>>
  BY DEF keys, sending, disk, session, bounds
<1>3. PICK X \in {{}, {m}} : Moved(r2c, r2c', 0, X)
  BY <1>1, MovedBy
<1>4. RefusedIds' \subseteq RefusedIds /\ Acked' \subseteq Acked
  <2>1. \A x \in X : x.t \notin {"stale", "ack"}
    BY <1>3
  <2>2. /\ RefusedIds' \subseteq RefusedIds \cup refusedAsStale' \cup {x.id : x \in {y \in X : y.t = "stale"}}
        /\ Acked' \subseteq Acked \cup {x.id : x \in {y \in X : y.t = "ack"}}
    BY <1>3, AnswerSets
  <2> QED
    BY <1>2, <2>1, <2>2 DEF RefusedIds
<1>5. UNCHANGED <<Queued, Behind, Marks, Commits, Sent, Confirmed, Olds, News, Drafts>>
  BY <1>2, SamePlaces
<1>6. AckInv'
  BY <1>1, <1>2, <1>4, <1>5 DEF AckInv, Acks, Finished
<1>7. Ops' \subseteq Ops
  BY <1>2, <1>5 DEF Ops, Out, Making
<1>8. Refusals'
  <2>1. /\ \A op \in Ops' : op \in Ops \/ op.id \notin RefusedIds'
        /\ \A op \in Ops : op.epoch \in Nat
        /\ \A op \in Ops : op \in stored' => op \in stored \/ op.id \notin RefusedIds'
        /\ \A op \in Ops, x \in X : x.t = "stale" /\ x.id = op.id => op.epoch < x.epoch /\ op \notin stored'
        /\ \A op \in Ops : op.id \in refusedAsStale' =>
               \/ op.id \in refusedAsStale
               \/ op.epoch < wantedEpoch' /\ op \notin stored'
        /\ wantedEpoch \in Nat /\ wantedEpoch' \in Nat /\ wantedEpoch <= wantedEpoch'
    BY <1>1, <1>2, <1>3, <1>7, EpochsAreNumbers
  <2> QED
    BY <1>1, <1>3, <2>1, RefusalsKept
<1>9. /\ r2c' \in Seq(ServerMessage) /\ c2r' \in Seq(ClientMessage) /\ open' \in BOOLEAN
      /\ receipts' \subseteq 1..MaxOps /\ troubles' \in 0..MaxTroubles
  <2>1. r2c' \in Seq(ServerMessage)
    BY <1>1, MovedBy
  <2>2. c2r \in Seq(ClientMessage) /\ open \in BOOLEAN /\ receipts \subseteq 1..MaxOps /\ troubles \in 0..MaxTroubles
    BY <1>1 DEF TypeOK
  <2> QED
    BY <1>2, <2>1, <2>2
<1>10. \A i \in Places(r2c') : \/ \E j \in Places(r2c) : r2c'[i] = r2c[j]
                               \/ r2c'[i].t # "ack" => r2c'[i].epoch <= graphEpoch'
  BY <1>3 DEF Moved
<1> QED
  BY <1>2, <1>4, <1>5, <1>6, <1>8, <1>9, <1>10, WireStep

LEMMA RotateKeeps == ASSUME KeysInv, Rotate PROVE KeysInv'
<1> DEFINE m == [t |-> "epoch", epoch |-> graphEpoch + 1]
<1>1. /\ graphEpoch' = graphEpoch + 1 /\ graphEpoch < MaxEpoch
      /\ UNCHANGED <<keyEpoch, session, text, sending, keys, tail, disk, open, c2r, stored, receipts, bounds>>
      /\ r2c' = r2c \/ r2c' = Append(r2c, m)
  BY DEF Rotate
<1>2. graphEpoch \in 1..MaxEpoch /\ MaxEpoch \in Nat
  BY InRange
<1>3. m \in ServerMessage /\ m.t = "epoch" /\ m.epoch = graphEpoch + 1
  BY <1>1, <1>2 DEF ServerMessage
<1> HIDE DEF m
<1>4. graphEpoch' \in graphEpoch..MaxEpoch /\ m.epoch <= graphEpoch'
  BY <1>1, <1>2, <1>3
<1> QED
  BY <1>1, <1>3, <1>4, ToldStep

LEMMA OthersActKeeps == ASSUME KeysInv, OthersAct PROVE KeysInv'
<1>1. PICK kind \in {"update", "other"} : r2c' = Append(r2c, [t |-> kind, epoch |-> graphEpoch])
  BY DEF OthersAct, Answer
<1>2. UNCHANGED <<keyEpoch, session, text, sending, keys, tail, disk, open, c2r, graphEpoch, stored, receipts, bounds>>
  BY DEF OthersAct, relay
<1>3. graphEpoch \in 1..MaxEpoch /\ MaxEpoch \in Nat
  BY InRange
<1>4. /\ [t |-> kind, epoch |-> graphEpoch] \in ServerMessage
      /\ [t |-> kind, epoch |-> graphEpoch].t \in {"epoch", "other", "update"}
      /\ [t |-> kind, epoch |-> graphEpoch].epoch <= graphEpoch'
      /\ graphEpoch' \in graphEpoch..MaxEpoch
  BY <1>2, <1>3 DEF ServerMessage
<1> QED
  BY <1>1, <1>2, <1>4, ToldStep

LEMMA DropKeeps == ASSUME KeysInv, Drop PROVE KeysInv'
<1>1. /\ open' = FALSE /\ c2r' = <<>> /\ r2c' = <<>> /\ troubles' = troubles + 1 /\ troubles < MaxTroubles
      /\ UNCHANGED <<keyEpoch, session, text, sending, keys, tail, disk, relay, nextId, opening>>
  BY DEF Drop
<1>2. TypeOK /\ Acks /\ Finished /\ Refusals
  BY DEF KeysInv, Types, AckInv
<1>3. UNCHANGED <<refusedAsStale, durableQueue, draft, walk, rows, wantedEpoch, stored, receipts, graphEpoch>>
  BY <1>1 DEF keys, sending, disk, session, relay
<1>4. Places(c2r') = {} /\ Places(r2c') = {}
  BY <1>1 DEF Places
<1>5. Sent' = {} /\ Confirmed' = {} /\ Acked' = {} /\ RefusedIds' = refusedAsStale'
  BY <1>4 DEF Sent, Confirmed, Acked, RefusedIds
<1>6. UNCHANGED <<Queued, Behind, Marks, Commits, Olds, News, Drafts>>
  BY <1>1, <1>3, SamePlaces
<1>7. AckInv'
  BY <1>2, <1>3, <1>4, <1>5, <1>6 DEF AckInv, Acks, Finished
<1>8. Refusals'
  <2>1. Ops' \subseteq Ops
    BY <1>3, <1>5, <1>6 DEF Ops, Out, Making
  <2> QED
    BY <1>2, <1>3, <1>4, <2>1 DEF Refusals
<1>9. /\ r2c' \in Seq(ServerMessage) /\ c2r' \in Seq(ClientMessage) /\ open' \in BOOLEAN
      /\ receipts' \subseteq 1..MaxOps /\ troubles' \in 0..MaxTroubles
  <2>1. troubles \in 0..MaxTroubles /\ MaxTroubles \in Nat /\ receipts \subseteq 1..MaxOps
    BY <1>2, KeyEpochsAssumption DEF TypeOK
  <2>2. troubles' \in 0..MaxTroubles
    BY <1>1, <2>1
  <2>3. r2c' \in Seq(ServerMessage) /\ c2r' \in Seq(ClientMessage)
    BY <1>1, EmptySeq
  <2> QED
    BY <1>1, <1>3, <2>1, <2>2, <2>3
<1>10. graphEpoch' \in graphEpoch..MaxEpoch
  BY <1>3, InRange
<1>11. /\ Sent' \subseteq Sent /\ RefusedIds' \subseteq RefusedIds \cup Ids(Sent)
       /\ stored \subseteq stored' /\ stored' \subseteq stored \cup Sent
       /\ \A op \in stored' \ stored : op.epoch >= graphEpoch
       /\ \A i \in Places(r2c') : \/ \E j \in Places(r2c) : r2c'[i] = r2c[j]
                                  \/ r2c'[i].t # "ack" => r2c'[i].epoch <= graphEpoch'
  BY <1>3, <1>4, <1>5 DEF RefusedIds
<1> QED
  BY <1>1, <1>7, <1>8, <1>9, <1>10, <1>11, WireStep

LEMMA RelayConfirmKeeps == ASSUME KeysInv, RelayConfirm PROVE KeysInv'
<1>1. /\ c2r # <<>> /\ Head(c2r).t = "confirm" /\ c2r' = Tail(c2r) /\ receipts' = receipts \ {Head(c2r).id}
      /\ UNCHANGED <<keyEpoch, session, text, sending, keys, tail, disk, open, r2c, graphEpoch, stored, bounds>>
  BY DEF RelayConfirm
<1>2. TypeOK /\ OneOpPerId /\ Acks /\ Finished /\ Refusals /\ c2r \in Seq(ClientMessage)
  BY DEF KeysInv, Types, TypeOK, AckInv, OpsInv
<1>3. UNCHANGED <<refusedAsStale, durableQueue, draft, walk, rows, wantedEpoch, nextId, opening, troubles>>
  BY <1>1 DEF keys, sending, disk, session, bounds
<1>4. /\ 1 \in Places(c2r) /\ Head(c2r) = c2r[1] /\ Head(c2r) \in ClientMessage
      /\ Moved(c2r, c2r', 1, {}) /\ c2r' \in Seq(ClientMessage)
  <2>1. 1 \in Places(c2r) /\ Head(c2r) = c2r[1] /\ Head(c2r) \in ClientMessage
    BY <1>1, <1>2, Front
  <2> QED
    BY <1>1, <1>2, <2>1, MovedBy
<1>5. \A i \in Places(c2r') : i + 1 \in Places(c2r) /\ c2r'[i] = c2r[i + 1] /\ i \in Nat \ {0}
  BY <1>4 DEF Moved, Places
<1>6. Sent' \subseteq Sent /\ Confirmed' \subseteq Confirmed
  BY <1>5 DEF Sent, Confirmed
<1>7. UNCHANGED <<Queued, Behind, Marks, Commits, Olds, News, Drafts, Acked, RefusedIds>>
  BY <1>1, <1>3, SamePlaces
<1>8. Head(c2r).id \in Confirmed
  BY <1>1, <1>4 DEF Confirmed
<1>9. Acks'
  BY <1>1, <1>2, <1>6, <1>7 DEF Acks
<1>10. Finished'
  <2>1. ASSUME NEW op \in stored', op.id \notin receipts' \/ op.id \in Confirmed'
        PROVE  op \notin rows' \cup Queued'
    BY <1>1, <1>2, <1>3, <1>6, <1>7, <1>8, <2>1 DEF Finished
  <2>2. ASSUME NEW i \in Places(c2r'), c2r'[i].t = "append", c2r'[i].op \in stored'
        PROVE  /\ c2r'[i].op.id \in receipts'
               /\ \A j \in 1..(i - 1) : c2r'[j].t = "confirm" => c2r'[j].id # c2r'[i].op.id
    <3>1. i + 1 \in Places(c2r) /\ c2r'[i] = c2r[i + 1] /\ i \in Nat \ {0}
      BY <1>5
    <3>2. /\ c2r[i + 1].op.id \in receipts
          /\ \A j \in 1..i : c2r[j].t = "confirm" => c2r[j].id # c2r[i + 1].op.id
      <4>1. (i + 1) - 1 = i
        BY <3>1
      <4>2. \A j \in 1..((i + 1) - 1) : c2r[j].t = "confirm" => c2r[j].id # c2r[i + 1].op.id
        BY <1>1, <1>2, <2>2, <3>1 DEF Finished
      <4> QED
        BY <1>1, <1>2, <2>2, <3>1, <4>1, <4>2 DEF Finished
    <3>3. c2r'[i].op.id \in receipts'
      <4>1. 1 \in 1..i
        BY <3>1
      <4>2. c2r[1].id # c2r[i + 1].op.id
        BY <1>1, <1>4, <3>2, <4>1
      <4> QED
        BY <1>1, <1>4, <3>1, <3>2, <4>2
    <3>4. ASSUME NEW j \in 1..(i - 1), c2r'[j].t = "confirm" PROVE c2r'[j].id # c2r'[i].op.id
      <4>1. j \in Places(c2r') /\ j + 1 \in 1..i
        BY <3>1 DEF Places
      <4>2. c2r'[j] = c2r[j + 1]
        BY <1>5, <4>1
      <4> QED
        BY <3>1, <3>2, <3>4, <4>1, <4>2
    <3> QED
      BY <3>3, <3>4
  <2> QED
    BY <2>1, <2>2 DEF Finished
<1>11. Refusals'
  <2>1. Ops' \subseteq Ops
    BY <1>1, <1>3, <1>6, <1>7 DEF Ops, Out, Making
  <2> QED
    BY <1>1, <1>2, <1>3, <2>1 DEF Refusals
<1>12. /\ open' \in BOOLEAN /\ receipts' \subseteq 1..MaxOps /\ troubles' \in 0..MaxTroubles
       /\ r2c' \in Seq(ServerMessage) /\ graphEpoch' \in graphEpoch..MaxEpoch
  <2>1. graphEpoch' \in graphEpoch..MaxEpoch
    BY <1>1, InRange
  <2>2. open \in BOOLEAN /\ receipts \subseteq 1..MaxOps /\ troubles \in 0..MaxTroubles /\ r2c \in Seq(ServerMessage)
    BY <1>2 DEF TypeOK
  <2> QED
    BY <1>1, <1>3, <2>1, <2>2
<1>13. /\ RefusedIds' \subseteq RefusedIds \cup Ids(Sent)
       /\ stored \subseteq stored' /\ stored' \subseteq stored \cup Sent
       /\ \A op \in stored' \ stored : op.epoch >= graphEpoch
       /\ \A i \in Places(r2c') : \/ \E j \in Places(r2c) : r2c'[i] = r2c[j]
                                  \/ r2c'[i].t # "ack" => r2c'[i].epoch <= graphEpoch'
  BY <1>1, <1>7
<1> QED
  BY <1>1, <1>3, <1>4, <1>6, <1>9, <1>10, <1>11, <1>12, <1>13, WireStep DEF AckInv

LEMMA RelayAppendKeeps == ASSUME KeysInv, RelayAppend PROVE KeysInv'
<1> DEFINE op == Head(c2r).op
<1>1. /\ c2r # <<>> /\ Head(c2r).t = "append" /\ c2r' = Tail(c2r)
      /\ UNCHANGED <<keyEpoch, session, text, sending, keys, tail, disk, open, graphEpoch, bounds>>
  BY DEF RelayAppend
<1>2. TypeOK /\ OneOpPerId /\ Acks /\ Finished /\ Refusals /\ Epochs /\ c2r \in Seq(ClientMessage) /\ r2c \in Seq(ServerMessage)
  BY DEF KeysInv, Types, TypeOK, AckInv, OpsInv
<1>3. UNCHANGED <<refusedAsStale, durableQueue, draft, walk, rows, wantedEpoch, nextId, opening, troubles>>
  BY <1>1 DEF keys, sending, disk, session, bounds
<1>4. /\ 1 \in Places(c2r) /\ Head(c2r) = c2r[1] /\ Head(c2r) \in ClientMessage
      /\ Moved(c2r, c2r', 1, {}) /\ c2r' \in Seq(ClientMessage)
  <2>1. 1 \in Places(c2r) /\ Head(c2r) = c2r[1] /\ Head(c2r) \in ClientMessage
    BY <1>1, <1>2, Front
  <2> QED
    BY <1>1, <1>2, <2>1, MovedBy
<1>5. op \in Op /\ op \in Sent /\ op \in Ops /\ op.id \in 1..MaxOps /\ op.epoch \in Nat
  <2>1. op \in Op
    BY <1>1, <1>4 DEF ClientMessage
  <2>2. op \in Sent
    BY <1>1, <1>4 DEF Sent
  <2> QED
    BY <2>1, <2>2 DEF Ops, Out, Op
<1>6. \A i \in Places(c2r') : i + 1 \in Places(c2r) /\ c2r'[i] = c2r[i + 1] /\ i \in Nat \ {0}
  BY <1>4 DEF Moved, Places
<1>7. Sent' \subseteq Sent /\ Confirmed' \subseteq Confirmed
  BY <1>6 DEF Sent, Confirmed
<1>8. UNCHANGED <<Queued, Behind, Marks, Commits, Olds, News, Drafts>>
  BY <1>1, <1>3, SamePlaces
<1>9. op \in stored => op.id \in receipts
  BY <1>1, <1>2, <1>4 DEF Finished
<1>10. \A o \in stored : o.id = op.id => o = op
  BY <1>2, <1>5 DEF OneOpPerId, Ops, Out
<1>11. PICK m \in ServerMessage :
          /\ r2c' = Append(r2c, m) /\ m.id = op.id
          /\ \/ m.t = "ack" /\ op.id \in receipts /\ UNCHANGED <<stored, receipts>>
             \/ /\ m.t = "stale" /\ m.epoch = graphEpoch /\ op.id \notin receipts /\ op.epoch < graphEpoch
                /\ UNCHANGED <<stored, receipts>>
             \/ /\ m.t = "ack" /\ op.id \notin receipts /\ op.epoch >= graphEpoch
                /\ stored' = stored \cup {op} /\ receipts' = receipts \cup {op.id}
  <2>1. graphEpoch \in 1..MaxEpoch /\ graphEpoch \in Nat
    BY InRange
  <2>2. [t |-> "ack", id |-> op.id] \in ServerMessage
    BY <1>5 DEF ServerMessage
  <2>3. [t |-> "stale", id |-> op.id, epoch |-> graphEpoch] \in ServerMessage
    BY <1>5, <2>1 DEF ServerMessage
  <2>4. CASE op.id \in receipts
    <3>1. r2c' = Append(r2c, [t |-> "ack", id |-> op.id]) /\ UNCHANGED <<stored, receipts>>
      BY <2>4 DEF RelayAppend, Answer
    <3> QED
      BY <2>2, <2>4, <3>1
  <2>5. CASE op.id \notin receipts /\ op.epoch < graphEpoch
    <3>1. r2c' = Append(r2c, [t |-> "stale", id |-> op.id, epoch |-> graphEpoch]) /\ UNCHANGED <<stored, receipts>>
      BY <2>5 DEF RelayAppend, Answer
    <3> QED
      BY <2>3, <2>5, <3>1
  <2>6. CASE op.id \notin receipts /\ op.epoch >= graphEpoch
    <3>1. /\ r2c' = Append(r2c, [t |-> "ack", id |-> op.id])
          /\ stored' = stored \cup {op} /\ receipts' = receipts \cup {op.id}
      BY <1>5, <2>1, <2>6 DEF RelayAppend, Answer
    <3> QED
      BY <2>2, <2>6, <3>1
  <2> QED
    BY <1>5, <2>1, <2>4, <2>5, <2>6
<1> HIDE DEF op
<1>12. Moved(r2c, r2c', 0, {m}) /\ r2c' \in Seq(ServerMessage)
  BY <1>2, <1>11, MovedBy
<1>13. /\ RefusedIds' \subseteq RefusedIds \cup Ids(Sent)
       /\ Acked' \subseteq Acked \cup {op.id}
       /\ m.t = "ack" => RefusedIds' \subseteq RefusedIds
       /\ m.t = "stale" => Acked' \subseteq Acked
  <2>1. /\ RefusedIds' \subseteq RefusedIds \cup refusedAsStale' \cup {x.id : x \in {y \in {m} : y.t = "stale"}}
        /\ Acked' \subseteq Acked \cup {x.id : x \in {y \in {m} : y.t = "ack"}}
    BY <1>12, AnswerSets
  <2> QED
    <3>1. {x.id : x \in {y \in {m} : y.t = "ack"}} \subseteq {op.id}
      BY <1>11
    <3>2. {x.id : x \in {y \in {m} : y.t = "stale"}} \subseteq {op.id}
      BY <1>11
    <3>3. m.t = "ack" => {x.id : x \in {y \in {m} : y.t = "stale"}} = {}
      OBVIOUS
    <3>6. m.t = "stale" => {x.id : x \in {y \in {m} : y.t = "ack"}} = {}
      OBVIOUS
    <3>4. op.id \in Ids(Sent)
      BY <1>5 DEF Ids
    <3>5. refusedAsStale' \subseteq RefusedIds
      BY <1>3 DEF RefusedIds
    <3> QED
      BY <2>1, <3>1, <3>2, <3>3, <3>4, <3>5, <3>6
<1>14. op.id \notin receipts => op.id \notin Confirmed /\ op \notin stored
  <2>1. op.id \in Confirmed => op \in stored
    BY <1>2, <1>10 DEF Acks, Ids
  <2> QED
    BY <1>9, <2>1
<1>15. Acks'
  <2>1. CASE m.t = "ack"
    <3>1. \/ stored' = stored /\ receipts' = receipts /\ op.id \in receipts
          \/ stored' = stored \cup {op} /\ receipts' = receipts \cup {op.id}
      BY <1>11, <2>1
    <3>2. op.id \in Ids(stored') /\ Ids(stored) \subseteq Ids(stored')
      BY <1>2, <3>1 DEF Acks, Ids
    <3>3. stored \subseteq stored' /\ receipts' \subseteq receipts \cup {op.id}
      BY <3>1
    <3> QED
      BY <1>2, <1>7, <1>8, <1>13, <3>2, <3>3 DEF Acks
  <2>2. CASE m.t = "stale"
    <3>1. UNCHANGED <<stored, receipts>> /\ Acked' \subseteq Acked
      BY <1>11, <1>13, <2>2
    <3> QED
      BY <1>2, <1>7, <1>8, <3>1 DEF Acks, Ids
  <2> QED
    BY <1>11, <2>1, <2>2
<1>16. Finished'
  <2>1. ASSUME NEW o \in stored', o.id \notin receipts' \/ o.id \in Confirmed'
        PROVE  o \notin rows' \cup Queued'
    <3>1. o \in stored
      BY <1>7, <1>11, <1>14, <2>1
    <3>2. o.id \notin receipts \/ o.id \in Confirmed
      BY <1>7, <1>11, <2>1
    <3> QED
      BY <1>2, <1>3, <1>8, <3>1, <3>2 DEF Finished
  <2>2. ASSUME NEW i \in Places(c2r'), c2r'[i].t = "append", c2r'[i].op \in stored'
        PROVE  /\ c2r'[i].op.id \in receipts'
               /\ \A j \in 1..(i - 1) : c2r'[j].t = "confirm" => c2r'[j].id # c2r'[i].op.id
    <3>1. i + 1 \in Places(c2r) /\ c2r'[i] = c2r[i + 1] /\ i \in Nat \ {0}
      BY <1>6
    <3>2. CASE c2r'[i].op \in stored
      <4>1. (i + 1) - 1 = i
        BY <3>1
      <4>2. /\ c2r[i + 1].op.id \in receipts
            /\ \A j \in 1..((i + 1) - 1) : c2r[j].t = "confirm" => c2r[j].id # c2r[i + 1].op.id
        BY <1>2, <2>2, <3>1, <3>2 DEF Finished
      <4>3. ASSUME NEW j \in 1..(i - 1), c2r'[j].t = "confirm" PROVE c2r'[j].id # c2r'[i].op.id
        <5>1. j \in Places(c2r') /\ j + 1 \in 1..i
          BY <3>1 DEF Places
        <5>2. c2r'[j] = c2r[j + 1]
          BY <1>6, <5>1
        <5> QED
          BY <3>1, <4>1, <4>2, <4>3, <5>1, <5>2
      <4> QED
        BY <1>11, <3>1, <4>2, <4>3
    <3>3. CASE c2r'[i].op \notin stored
      <4>1. c2r'[i].op = op /\ op.id \in receipts' /\ op.id \notin receipts
        BY <1>11, <2>2, <3>3
      <4>2. ASSUME NEW j \in 1..(i - 1), c2r'[j].t = "confirm" PROVE c2r'[j].id # op.id
        <5>1. j \in Places(c2r')
          BY <3>1 DEF Places
        <5>2. c2r'[j].id \in Confirmed'
          BY <4>2, <5>1 DEF Confirmed
        <5> QED
          BY <1>7, <1>14, <4>1, <5>2
      <4> QED
        BY <4>1, <4>2
    <3> QED
      BY <3>2, <3>3
  <2> QED
    BY <2>1, <2>2 DEF Finished
<1>17. op.epoch >= graphEpoch => op.id \notin RefusedIds
  <2>0. op.epoch \in Nat /\ graphEpoch \in Nat /\ wantedEpoch \in Nat
    BY <1>2, <1>5, EpochsAreNumbers
  <2>1. ASSUME op.id \in refusedAsStale PROVE op.epoch < graphEpoch
    <3>1. op.epoch < wantedEpoch /\ wantedEpoch \in 0..graphEpoch
      BY <1>2, <1>5, <2>1 DEF Refusals, Epochs
    <3> QED
      BY <2>0, <3>1
  <2>2. ASSUME NEW i \in Places(r2c), r2c[i].t = "stale", r2c[i].id = op.id PROVE op.epoch < graphEpoch
    <3>1. r2c[i] \in ServerMessage
      BY <1>2, Front
    <3>2. r2c[i].epoch \in Nat
      BY <2>2, <3>1 DEF ServerMessage
    <3>3. op.epoch < r2c[i].epoch /\ r2c[i].epoch <= graphEpoch
      BY <1>2, <1>5, <2>2 DEF Refusals, Epochs
    <3> QED
      BY <2>0, <3>2, <3>3
  <2>3. ~(op.epoch >= graphEpoch /\ op.epoch < graphEpoch)
    BY <2>0
  <2>4. ASSUME op.id \in RefusedIds PROVE op.epoch < graphEpoch
    BY <2>1, <2>2, <2>4 DEF RefusedIds
  <2> QED
    BY <2>3, <2>4
<1>18. \A o \in Ops : o \in stored' => o \in stored \/ o.id \notin RefusedIds'
  BY <1>11, <1>13, <1>17
<1>19. Refusals'
  <2>1. Ops' \subseteq Ops
    <3>1. stored' \subseteq stored \cup Sent
      BY <1>5, <1>11
    <3> QED
      BY <1>3, <1>7, <1>8, <3>1 DEF Ops, Out, Making
  <2>2. \A o \in Ops, x \in {m} : x.t = "stale" /\ x.id = o.id => o.epoch < x.epoch /\ o \notin stored'
    <3>1. ASSUME NEW o \in Ops, m.t = "stale", m.id = o.id PROVE o.epoch < m.epoch /\ o \notin stored'
      <4>1. o = op
        BY <1>2, <1>5, <1>11, <3>1 DEF OneOpPerId
      <4> QED
        BY <1>11, <1>14, <3>1, <4>1
    <3> QED
      BY <3>1
  <2>3. wantedEpoch \in Nat /\ wantedEpoch' \in Nat /\ wantedEpoch <= wantedEpoch'
        /\ \A o \in Ops : o.epoch \in Nat
    BY <1>2, <1>3, EpochsAreNumbers
  <2>4. \A o \in Ops' : o \in Ops \/ o.id \notin RefusedIds'
    BY <2>1
  <2>5. \A o \in Ops : o.id \in refusedAsStale' =>
               \/ o.id \in refusedAsStale
               \/ o.epoch < wantedEpoch' /\ o \notin stored'
    BY <1>3
  <2> QED
    BY <1>2, <1>12, <1>18, <2>2, <2>3, <2>4, <2>5, RefusalsKept
<1>20. /\ stored \subseteq stored' /\ stored' \subseteq stored \cup Sent
       /\ \A o \in stored' \ stored : o.epoch >= graphEpoch
  BY <1>5, <1>11
<1>21. \A i \in Places(r2c') : \/ \E j \in Places(r2c) : r2c'[i] = r2c[j]
                               \/ r2c'[i].t # "ack" => r2c'[i].epoch <= graphEpoch'
  <2>1. m.t # "ack" => m.epoch <= graphEpoch'
    BY <1>1, <1>11, InRange
  <2> QED
    BY <1>12, <2>1 DEF Moved
<1>22. /\ open' \in BOOLEAN /\ receipts' \subseteq 1..MaxOps /\ troubles' \in 0..MaxTroubles
       /\ graphEpoch' \in graphEpoch..MaxEpoch
  <2>1. open \in BOOLEAN /\ receipts \subseteq 1..MaxOps /\ troubles \in 0..MaxTroubles
    BY <1>2 DEF TypeOK
  <2>2. graphEpoch' \in graphEpoch..MaxEpoch
    BY <1>1, InRange
  <2> QED
    BY <1>1, <1>3, <1>5, <1>11, <2>1, <2>2
<1> QED
  BY <1>1, <1>3, <1>4, <1>7, <1>12, <1>13, <1>15, <1>16, <1>19, <1>20, <1>21, <1>22, WireStep DEF AckInv

\* What an operation that is stored covers.
LEMMA Covers ==
    ASSUME Lawful, NEW op \in Ops, op \in stored, op.from \in Nat, op.upTo \in Nat
    PROVE  1..op.upTo \subseteq Contents(stored) /\ op.upTo <= edits
<1>1. 1..op.from \subseteq Contents(stored) /\ op.upTo <= edits
  BY DEF Lawful
<1>2. Content(op) \subseteq Contents(stored)
  BY DEF Contents
<1>3. 1..op.upTo \subseteq 1..op.from \cup Content(op)
  BY DEF Content
<1> QED
  BY <1>1, <1>2, <1>3

LEMMA OnAckKeeps == ASSUME KeysInv, OnAck PROVE KeysInv'
<1> DEFINE op == Head(durableQueue)
           task == [t |-> "commit", op |-> op, synced |-> Greater(synced, op.upTo)]
<1>1. /\ r2c # <<>> /\ Head(r2c).t = "ack" /\ r2c' = Tail(r2c)
      /\ tail' = IF durableQueue # <<>> /\ op.id = Head(r2c).id THEN Append(tail, task) ELSE tail
      /\ UNCHANGED <<keyEpoch, session, text, sending, keys, disk, open, c2r, relay, bounds>>
  BY DEF OnAck, Received
<1>2. /\ TypeOK /\ Bounded /\ OpsInv /\ OneOpPerId /\ Lawful /\ StageInv /\ Staged /\ OneTask /\ Fresh
      /\ Acks /\ Finished /\ DistinctQueue /\ NotBehind
      /\ Refusals /\ Epochs /\ Covered /\ EditKept /\ Watched /\ ReplacedNotStored /\ Walking
  BY DEF KeysInv, Types, OpsInv, StageInv, AckInv, QueueInv, RowsInv
<1>3. r2c \in Seq(ServerMessage) /\ tail \in Seq(Task) /\ durableQueue \in Seq(AnyOp)
  BY <1>2 DEF TypeOK
<1>4. UNCHANGED <<refusedAsStale, durableQueue, draft, drain, walk, rows, dirty, rowSynced, wantedEpoch, nextId,
                  storedAtOpen, troubles, stored, receipts, graphEpoch, edits, synced, base, timer, captured,
                  missingEpoch, collected, opening>>
  BY <1>1 DEF keys, sending, disk, session, bounds, relay, text, opening
<1>5. /\ 1 \in Places(r2c) /\ Head(r2c) = r2c[1] /\ Head(r2c) \in ServerMessage
      /\ Moved(r2c, r2c', 1, {}) /\ r2c' \in Seq(ServerMessage)
  <2>1. 1 \in Places(r2c) /\ Head(r2c) = r2c[1] /\ Head(r2c) \in ServerMessage
    BY <1>1, <1>3, Front
  <2> QED
    BY <1>1, <1>3, <2>1, MovedBy
<1>6. \A i \in Places(r2c') : i + 1 \in Places(r2c) /\ r2c'[i] = r2c[i + 1]
  BY <1>5 DEF Moved
<1>7. Acked' \subseteq Acked /\ RefusedIds' \subseteq RefusedIds
  BY <1>4, <1>6 DEF Acked, RefusedIds
<1>8. ASSUME durableQueue # <<>>, op.id = Head(r2c).id
      PROVE  /\ op \in stored /\ op \in Op /\ op \in Queued /\ op \notin Behind /\ task \in Task
             /\ task.synced <= edits /\ 1..task.synced \subseteq Contents(stored)
  <2>1. 1 \in Places(durableQueue) /\ op = durableQueue[1] /\ op \in AnyOp
    BY <1>3, <1>8, Front
  <2>2. op.id \in Acked /\ op.id \in 1..MaxOps
    BY <1>1, <1>5, <1>8 DEF Acked, ServerMessage
  <2>3. op # NoOp /\ op \in Queued /\ op \in Op
    BY <2>1, <2>2, NoOps, KeyEpochsAssumption DEF Queued, AnyOp
  <2>4. PICK o \in stored : o.id = op.id
    BY <1>2, <2>2 DEF Acks, Ids
  <2>5. op \in stored /\ op \in Ops
    BY <1>2, <2>3, <2>4 DEF OneOpPerId, Ops, Out
  <2>6. op \notin Behind
    <3>1. ASSUME NEW i \in Places(durableQueue) \ {1}, durableQueue[i] = op PROVE FALSE
      BY <1>2, <2>1, <2>3, <3>1 DEF DistinctQueue
    <3> QED
      BY <3>1 DEF Behind
  <2>7. op.upTo \in 0..MaxEdits /\ op.from \in Nat /\ synced \in 0..MaxEdits /\ op.upTo \in Nat /\ synced \in Nat
        /\ edits \in Nat
    <3>1. op.upTo \in 1..MaxEdits /\ op.from \in 0..MaxEdits /\ MaxEdits \in Nat
      BY <2>3, KeyEpochsAssumption DEF Op
    <3>2. synced \in 0..MaxEdits /\ edits \in 0..MaxEdits
      BY <1>2 DEF TypeOK
    <3> QED
      BY <3>1, <3>2
  <2>8. 1..op.upTo \subseteq Contents(stored) /\ op.upTo <= edits
    BY <1>2, <2>5, <2>7, Covers
  <2>9. 1..synced \subseteq Contents(stored) /\ synced <= edits
    BY <1>2, <2>7 DEF Covered, Bounded
  <2>10. task.synced = op.upTo \/ task.synced = synced
    BY DEF Greater
  <2>11. task \in Task
    BY <2>3, <2>7, NewTasks DEF Greater
  <2> QED
    BY <2>3, <2>5, <2>6, <2>8, <2>9, <2>10, <2>11
<1>9. PICK X \in {{}, {task}} :
          /\ Moved(tail, tail', 0, X)
          /\ X # {} => durableQueue # <<>> /\ op.id = Head(r2c).id
  <2>1. CASE durableQueue # <<>> /\ op.id = Head(r2c).id
    <3>1. tail' = Append(tail, task) /\ task \in Task
      BY <1>1, <1>8, <2>1
    <3>2. Moved(tail, tail', 0, {task})
      BY <1>3, <3>1, MovedBy
    <3> QED
      BY <2>1, <3>2
  <2>2. CASE ~(durableQueue # <<>> /\ op.id = Head(r2c).id)
    <3>1. Moved(tail, tail', 0, {})
      BY <1>1, <1>3, <2>2, Unmoved
    <3> QED
      BY <3>1
  <2> QED
    BY <2>1, <2>2
<1>10. tail' \in Seq(Task)
  BY <1>1, <1>3, <1>8, MovedBy
<1>11. task.t = "commit" /\ task.op = op /\ Owner(task) = "resend"
  BY Owners
<1> HIDE DEF task, op
<1>12. /\ UNCHANGED <<Queued, Behind, Sent, Confirmed, Olds, News, Drafts>>
       /\ Marks' \subseteq Marks /\ Commits' \subseteq Commits \cup (({op} \cap stored \cap Queued) \ Behind)
  <2>1. UNCHANGED <<Queued, Behind, Sent, Confirmed, Olds, News, Drafts>>
    BY <1>1, <1>4, SamePlaces
  <2>2. /\ Marks' \subseteq Marks \cup {x.op : x \in {y \in X : y.t = "mark"}}
        /\ Commits' \subseteq Commits \cup {x.op : x \in {y \in X : y.t = "commit"}}
    BY <1>9, TailSets
  <2>3. {x.op : x \in {y \in X : y.t = "mark"}} = {}
    BY <1>9, <1>11
  <2>4. {x.op : x \in {y \in X : y.t = "commit"}} \subseteq ({op} \cap stored \cap Queued) \ Behind
    BY <1>8, <1>9, <1>11
  <2> QED
    BY <2>1, <2>2, <2>3, <2>4
<1>13. Out' \subseteq Out /\ Making' = Making /\ Ops' \subseteq Ops
  BY <1>4, <1>12 DEF Out, Making, Ops
<1>14. OpsInv'
  <2>1. /\ Ops' \subseteq Ops /\ RefusedIds' \subseteq RefusedIds \cup Ids(Ops) /\ stored \subseteq stored'
        /\ \A o \in Ops : o.upTo \in Nat
        /\ edits \in Nat /\ edits' \in Nat /\ edits <= edits'
    BY <1>2, <1>4, <1>7, <1>13, EpochsAreNumbers
  <2> QED
    BY <1>2, <1>4, <2>1, OpsKept
<1>15. Fresh'
  <2>1. /\ \A o \in Out' : o \in Out \/ o \notin Making'
        /\ Making' \subseteq Making /\ News' \subseteq News /\ Drafts' \subseteq Drafts
        /\ RefusedIds' \subseteq RefusedIds \cup Ids(Sent)
        /\ \A w \in Walks : walk'[w].new \in {walk[w].new, NoOp}
    BY <1>4, <1>7, <1>12, <1>13
  <2> QED
    BY <1>2, <2>1, FreshKept
<1>16. AckInv'
  <2>1. Acks'
    BY <1>2, <1>4, <1>7, <1>12 DEF Acks
  <2>2. Finished'
    BY <1>1, <1>2, <1>4, <1>12 DEF Finished
  <2> QED
    BY <2>1, <2>2 DEF AckInv
<1>17. QueueInv'
  <2>1. DistinctQueue'
    BY <1>2, <1>4 DEF DistinctQueue
  <2>2. NotBehind'
    BY <1>2, <1>4, <1>7, <1>12 DEF NotBehind, Ids
  <2> QED
    BY <2>1, <2>2 DEF QueueInv
<1>18. Refusals' /\ Epochs'
  BY <1>1, <1>2, <1>4, <1>6, <1>13 DEF Refusals, Epochs
<1>19. Contents(stored)' = Contents(stored) /\ Contents(rows)' = Contents(rows)
  BY <1>4 DEF Contents
<1>20. RowsInv'
  <2>1. \A i \in Places(tail') : tail'[i].t = "commit" =>
           tail'[i].synced <= edits /\ 1..tail'[i].synced \subseteq Contents(stored)
    BY <1>2, <1>8, <1>9 DEF Moved, Covered
  <2>2. Covered' /\ EditKept'
    BY <1>2, <1>4, <1>19, <2>1 DEF Covered, EditKept
  <2> QED
    BY <2>2 DEF RowsInv
<1>21. Watched'
  BY <1>1, <1>2, <1>4, WatchedKept DEF RefusedHead
<1>22. ReplacedNotStored' /\ Walking' /\ Drafted'
  BY <1>1, <1>2, <1>4 DEF ReplacedNotStored, Walking, StageInv, Drafted
<1>23. Staged' /\ OneTask'
  <2>1. Len(tail) \in Nat
    BY <1>3, Front
  <2>2. \A x \in X : Owner(x) = "resend"
    BY <1>9, <1>11
  <2> QED
    BY <1>2, <1>4, <1>9, <2>1, <2>2, Owners, StagedAgain
<1>24. Types'
  <2>1. SessionTypes' /\ TextTypes' /\ SendTypes' /\ WalkTypes' /\ RelayTypes'
    BY <1>1, <1>2, <1>4, SameTypes
  <2>2. WireTypes'
    BY <1>1, <1>2, <1>5, <1>10 DEF WireTypes, TypeOK
  <2>3. Bounded'
    BY <1>2, <1>4 DEF Bounded
  <2> QED
    BY <2>1, <2>2, <2>3, TypePartsNext DEF Types
<1> QED
  BY <1>14, <1>15, <1>16, <1>17, <1>18, <1>20, <1>21, <1>22, <1>23, <1>24 DEF KeysInv, StageInv

-----------------------------------------------------------------------------
(* An operation is made, by a drain or by a walk.                          *)

LEMMA NextIdIsNew ==
    ASSUME OpsInv, nextId \in Nat
    PROVE  nextId \notin Ids(Ops) /\ nextId \notin RefusedIds
BY DEF OpsInv, IdsAreOld

LEMMA MakeStep ==
    ASSUME KeysInv, NEW op \in Op, op.id = nextId, nextId' = nextId + 1,
           op.upTo <= edits, 1..op.from \subseteq Contents(stored),
           UNCHANGED <<keyEpoch, session, text, durableQueue, captured, refusedAsStale, missingEpoch, disk, wire, relay,
                       troubles, opening>>,
           NEW k \in {0, 1}, NEW X, Moved(tail, tail', k, X), \A x \in X : x.t \notin {"commit", "mark"},
           Olds' \subseteq Olds, Making' \subseteq Making \cup {op},
           News' \cap Drafts' = {}, \A v, w \in Walks : walk'[v].new = walk'[w].new /\ walk'[v].new # NoOp => v = w,
           \A w \in Walks : walk'[w].old = walk[w].old /\ walk'[w].index = walk[w].index
    PROVE  /\ OpsInv' /\ Fresh' /\ AckInv' /\ QueueInv' /\ Refusals' /\ Epochs' /\ RowsInv' /\ Watched'
           /\ ReplacedNotStored'
<1>1. /\ TypeOK /\ OpsInv /\ OneOpPerId /\ Fresh /\ Acks /\ Finished /\ DistinctQueue /\ NotBehind
      /\ Refusals /\ Epochs /\ Covered /\ EditKept /\ Watched /\ ReplacedNotStored
  BY DEF KeysInv, Types, OpsInv, AckInv, QueueInv, RowsInv
<1>2. UNCHANGED <<edits, synced, base, timer, rows, dirty, rowSynced, open, c2r, r2c, graphEpoch, stored,
                  receipts, storedAtOpen, wantedEpoch, collected>>
  BY DEF text, disk, wire, relay, opening, session
<1>3. /\ UNCHANGED <<Queued, Behind, Sent, Confirmed, Acked, RefusedIds>>
      /\ Marks' \subseteq Marks /\ Commits' \subseteq Commits
  <2>1. UNCHANGED <<Queued, Behind, Sent, Confirmed, Acked, RefusedIds>>
    BY <1>2, SamePlaces
  <2>2. /\ Marks' \subseteq Marks \cup {x.op : x \in {y \in X : y.t = "mark"}}
        /\ Commits' \subseteq Commits \cup {x.op : x \in {y \in X : y.t = "commit"}}
    BY TailSets
  <2> QED
    BY <2>1, <2>2
<1>4. nextId \in Nat \ {0}
  BY <1>1, EpochsAreNumbers
<1>5. nextId \notin Ids(Ops) /\ nextId \notin RefusedIds
  BY <1>1, <1>4, NextIdIsNew
<1>6. Out' \subseteq Out /\ Ops' \subseteq Ops \cup {op}
  BY <1>2, <1>3 DEF Out, Ops
<1>7. OpsInv'
  BY <1>1, <1>2, <1>3, <1>4, <1>6, OpsAdded
<1>8. Fresh'
  <2>1. op \notin Out
    BY <1>5 DEF Ids, Ops
  <2>2. Making' \cap Out' = {}
    BY <1>1, <1>6, <2>1 DEF Fresh
  <2>3. Ids(Making') \cap RefusedIds' = {}
    BY <1>1, <1>3, <1>5 DEF Fresh, Ids
  <2> QED
    BY <2>2, <2>3 DEF Fresh
<1>9. AckInv'
  BY <1>1, <1>2, <1>3 DEF AckInv, Acks, Finished
<1>10. QueueInv'
  BY <1>1, <1>2, <1>3 DEF QueueInv, DistinctQueue, NotBehind
<1>11. Refusals'
  <2>1. ASSUME NEW o \in Ops', NEW i \in Places(r2c), r2c[i].t = "stale", r2c[i].id = o.id PROVE o \in Ops
    BY <1>5, <1>6, <2>1 DEF RefusedIds
  <2>2. ASSUME NEW o \in Ops', o.id \in refusedAsStale PROVE o \in Ops
    BY <1>5, <1>6, <2>2 DEF RefusedIds
  <2> QED
    BY <1>1, <1>2, <2>1, <2>2 DEF Refusals
<1>12. Epochs'
  BY <1>1, <1>2 DEF Epochs
<1>13. RowsInv'
  <2>1. \A i \in Places(tail') : tail'[i].t = "commit" => \E j \in Places(tail) : tail'[i] = tail[j]
    BY DEF Moved
  <2>2. Covered' /\ EditKept'
    BY <1>1, <1>2, <2>1 DEF Covered, EditKept, Contents
  <2> QED
    BY <2>2 DEF RowsInv
<1>14. Watched'
  BY <1>1, WatchedKept DEF RefusedHead
<1>15. ReplacedNotStored'
  BY <1>1, <1>2 DEF ReplacedNotStored
<1> QED
  BY <1>7, <1>8, <1>9, <1>10, <1>11, <1>12, <1>13, <1>14, <1>15

LEMMA FrontTask ==
    ASSUME TypeOK, tail # <<>>
    PROVE  /\ 1 \in Places(tail) /\ Head(tail) = tail[1] /\ Head(tail) \in Task /\ Len(tail) \in Nat
           /\ Moved(tail, Tail(tail), 1, {}) /\ Tail(tail) \in Seq(Task)
           /\ \A x \in Task : Moved(tail, Append(Tail(tail), x), 1, {x}) /\ Append(Tail(tail), x) \in Seq(Task)
<1>1. tail \in Seq(Task)
  BY DEF TypeOK
<1>2. 1 \in Places(tail) /\ Head(tail) = tail[1] /\ Head(tail) \in Task /\ Len(tail) \in Nat
  BY <1>1, Front
<1>3. \A x \in Task : /\ Moved(tail, Tail(tail), 1, {}) /\ Tail(tail) \in Seq(Task)
                      /\ Moved(tail, Append(Tail(tail), x), 1, {x}) /\ Append(Tail(tail), x) \in Seq(Task)
  <2>1. ASSUME NEW x \in Task
        PROVE  /\ Moved(tail, Tail(tail), 1, {}) /\ Tail(tail) \in Seq(Task)
               /\ Moved(tail, Append(Tail(tail), x), 1, {x}) /\ Append(Tail(tail), x) \in Seq(Task)
    <3>1. tail # <<>>
      OBVIOUS
    <3> QED
      BY <1>1, <2>1, <3>1, MovedBy
  <2> QED
    BY <2>1
<1> QED
  BY <1>2, <1>3

LEMMA RunResumeKeeps == ASSUME KeysInv, RunResume PROVE KeysInv'
<1>1. /\ tail # <<>> /\ Head(tail).t = "resume" /\ tail' = Tail(tail)
      /\ UNCHANGED <<keyEpoch, session, text, durableQueue, captured, keys, disk, wire, relay, troubles, opening>>
  BY DEF RunResume
<1>2. /\ TypeOK /\ Bounded /\ Staged /\ OneTask /\ Drafted /\ Walking /\ Fresh /\ OpsInv /\ Covered
      /\ StageInv
  BY DEF KeysInv, Types, StageInv, OpsInv, RowsInv
<1>3. /\ 1 \in Places(tail) /\ Head(tail) = tail[1] /\ Moved(tail, tail', 1, {}) /\ tail' \in Seq(Task) /\ Len(tail) \in Nat
  BY <1>1, <1>2, FrontTask
<1>4. Owner(tail[1]) = "drain" /\ drain = "waiting"
  <2>1. Owner(tail[1]) = "drain" /\ DrainStage(tail[1]) = "waiting"
    BY <1>1, <1>3 DEF Owner, DrainStage
  <2> QED
    BY <1>2, <1>3, <2>1 DEF Staged
<1>5. UNCHANGED <<walk, refusedAsStale, missingEpoch, rows, dirty, rowSynced, open, c2r, r2c, edits, synced, base, timer>>
  BY <1>1 DEF keys, disk, wire, text
<1>6. Staged' /\ OneTask'
  <2>1. \A x \in {} : /\ Owner(x) \in Walks =>
                             /\ walk'[Owner(x)].pc = WalkStage(x)
                             /\ ~At(walk[Owner(x)].pc) \/ (1 = 1 /\ Owner(tail[1]) = Owner(x))
                      /\ Owner(x) = "drain" =>
                             /\ drain' = DrainStage(x)
                             /\ ~At(drain) \/ (1 = 1 /\ Owner(tail[1]) = Owner(x))
                      /\ Owner(x) \in Walks \cup {"drain", "resend"}
    OBVIOUS
  <2> QED
    BY <1>2, <1>3, <1>4, <1>5, <2>1, StagedAgain
<1>7. SessionTypes' /\ TextTypes' /\ WalkTypes'
  BY <1>1, <1>2, <1>5, SameTypes
<1>8. WireTypes' /\ Bounded'
  BY <1>2, <1>3, <1>5 DEF WireTypes, TypeOK, Bounded
<1>9. draft = NoOp
  BY <1>2, <1>4 DEF Drafted
<1>10. CASE drain' = "no" /\ UNCHANGED <<draft, nextId>>
  <2>1. Drafted'
    BY <1>9, <1>10 DEF Drafted
  <2>2. SendTypes' /\ RelayTypes'
    <3>1. SendTypes /\ UNCHANGED <<durableQueue, captured, rows>>
      BY <1>1, <1>2, <1>5, TypeParts
    <3>2. SendTypes'
      BY <1>10, <3>1 DEF SendTypes
    <3>3. RelayTypes'
      BY <1>1, <1>2, <1>10, SameTypes DEF bounds
    <3> QED
      BY <3>2, <3>3
  <2>3. Types'
    BY <1>7, <1>8, <2>2, TypePartsNext DEF Types
  <2>4. UNCHANGED <<keyEpoch, session, synced, durableQueue, draft, keys, rows, rowSynced,
                    c2r, r2c, relay, nextId, opening, edits, dirty>>
    BY <1>1, <1>5, <1>10
  <2>5. \A x \in {} : x.t # "commit" /\ (x.t = "mark" => x.op \in Queued)
    OBVIOUS
  <2> QED
    BY <1>3, <1>6, <2>1, <2>3, <2>4, <2>5, LocalStep
<1>11. CASE /\ ~(durableQueue # <<>> \/ base = edits \/ synced = edits)
            /\ nextId <= MaxOps /\ drain' = "sealing" /\ nextId' = nextId + 1
            /\ draft' = [id |-> nextId, from |-> synced, upTo |-> edits, epoch |-> keyEpoch]
  <2> DEFINE op == [id |-> nextId, from |-> synced, upTo |-> edits, epoch |-> keyEpoch]
  <2>1. op \in Op /\ nextId \in Nat \ {0} /\ nextId' \in 1..(MaxOps + 1)
    <3>1. nextId \in 1..MaxOps /\ edits \in 0..MaxEdits /\ synced \in 0..edits /\ synced \in 0..MaxEdits
          /\ MaxOps \in Nat /\ MaxEdits \in Nat
      BY <1>2, <1>11, KeyEpochsAssumption DEF TypeOK, Bounded
    <3>2. edits # synced
      BY <1>11
    <3>5. edits \in 1..MaxEdits
      BY <3>1, <3>2
    <3>6. keyEpoch \in 1..MaxEpoch
      BY <1>2 DEF TypeOK
    <3>3. op \in Op
      BY <3>1, <3>5, <3>6 DEF Op
    <3>4. nextId' \in 1..(MaxOps + 1)
      BY <1>11, <3>1
    <3> QED
      BY <3>1, <3>3, <3>4
  <2>2. op.id = nextId /\ op.upTo = edits /\ op.from = synced
    OBVIOUS
  <2>3. draft' = op
    BY <1>11
  <2> HIDE DEF op
  <2>4. op.upTo <= edits /\ 1..op.from \subseteq Contents(stored)
    BY <1>2, <2>2, EpochsAreNumbers DEF Covered
  <2>5. op # NoOp
    BY <2>1, NoOps
  <2>6. Drafts' = {op} /\ Drafts = {}
    BY <1>9, <2>3, <2>5 DEF Drafts
  <2>7. UNCHANGED <<Olds, News>>
    BY <1>5, SamePlaces
  <2>8. op \notin Ops
    BY <1>2, <2>1, <2>2, NextIdIsNew DEF Ids
  <2>9. News' \cap Drafts' = {} /\ Making' \subseteq Making \cup {op}
    BY <2>6, <2>7, <2>8 DEF Making, Ops
  <2>10. /\ OpsInv' /\ Fresh' /\ AckInv' /\ QueueInv' /\ Refusals' /\ Epochs' /\ RowsInv' /\ Watched'
         /\ ReplacedNotStored'
    <3>1. \A v, w \in Walks : walk'[v].new = walk'[w].new /\ walk'[v].new # NoOp => v = w
      BY <1>2, <1>5 DEF Fresh
    <3>2. \A x \in {} : x.t \notin {"commit", "mark"}
      OBVIOUS
    <3>3. \A w \in Walks : walk'[w].old = walk[w].old /\ walk'[w].index = walk[w].index
      BY <1>5
    <3> QED
      BY <1>1, <1>3, <1>5, <1>11, <2>1, <2>2, <2>4, <2>7, <2>9, <3>1, <3>2, <3>3, MakeStep
  <2>11. Drafted' /\ Walking'
    BY <1>1, <1>2, <1>5, <1>11, <2>3, <2>5 DEF Drafted, Walking
  <2>12. Types'
    <3>1. SendTypes'
      BY <1>1, <1>2, <1>5, <1>11, <2>1, <2>3 DEF SendTypes, TypeOK, AnyOp
    <3>2. RelayTypes'
      BY <1>1, <1>2, <2>1 DEF RelayTypes, TypeOK, relay, opening
    <3> QED
      BY <1>7, <1>8, <3>1, <3>2, TypePartsNext DEF Types
  <2> QED
    BY <1>6, <2>10, <2>11, <2>12 DEF KeysInv, StageInv
<1> QED
  BY <1>10, <1>11 DEF RunResume

LEMMA SealedKeeps == ASSUME KeysInv, NEW w \in Walks, Sealed(w) PROVE KeysInv'
<1> DEFINE old == walk[w].old
           op  == [old EXCEPT !.id = nextId, !.epoch = walk[w].epoch]
           task == [t |-> "store", by |-> w]
<1>1. /\ walk[w].pc = "sealing" /\ nextId <= MaxOps
      /\ walk' = [walk EXCEPT ![w].pc = "storing", ![w].new = op]
      /\ tail' = Append(tail, task) /\ nextId' = nextId + 1
      /\ UNCHANGED <<keyEpoch, session, text, sending, refusedAsStale, missingEpoch, disk, wire, relay,
                     troubles, opening>>
  BY DEF Sealed
<1>2. /\ TypeOK /\ Bounded /\ Staged /\ OneTask /\ Drafted /\ Walking /\ Fresh /\ OpsInv /\ Lawful /\ StageInv
      /\ walk \in [Walks -> Walk] /\ tail \in Seq(Task)
  BY TypedWalks DEF KeysInv, Types, StageInv, OpsInv, TypeOK
<1>3. UNCHANGED <<durableQueue, captured, draft, drain, rows, dirty, rowSynced, open, c2r, r2c, edits, synced,
                  base, timer, stored>>
  BY <1>1 DEF sending, disk, wire, text, relay
<1>4. /\ old # NoOp /\ walk[w].new = NoOp /\ walk[w].epoch <= keyEpoch /\ old.epoch < walk[w].epoch
      /\ walk[w].index # 0
  BY <1>1, <1>2 DEF Walking
<1>5. old \in Op /\ old \in Ops /\ old \in Olds
  <2>1. old \in AnyOp
    BY <1>2 DEF Walk
  <2> QED
    BY <1>4, <2>1 DEF AnyOp, Olds, Ops, Out
<1>6. op \in Op /\ op.id = nextId /\ op.from = old.from /\ op.upTo = old.upTo /\ op.epoch = walk[w].epoch
  <2>1. nextId \in 1..MaxOps
    <3>1. nextId \in Nat \ {0} /\ MaxOps \in Nat
      BY <1>2, EpochsAreNumbers, KeyEpochsAssumption
    <3> QED
      BY <1>1, <3>1
  <2>2. walk[w].epoch \in 1..MaxEpoch
    <3>1. walk[w].epoch \in Nat /\ old.epoch \in Nat
      BY <1>2, <1>5, EpochsAreNumbers
    <3> QED
      BY <1>4, <3>1, InRange
  <2> QED
    BY <1>5, <2>1, <2>2 DEF Op
<1>7. op # NoOp /\ task \in Task /\ Owner(task) = w /\ WalkStage(task) = "storing" /\ task.t = "store"
  BY <1>6, NoOps, NewTasks, Owners
<1> HIDE DEF op, task
<1>8. /\ \A v \in Walks \ {w} : walk'[v] = walk[v]
      /\ walk'[w].pc = "storing" /\ walk'[w].new = op /\ walk'[w].old = old /\ walk'[w].index = walk[w].index
      /\ walk'[w].epoch = walk[w].epoch /\ walk'[w].headReplaced = walk[w].headReplaced
      /\ walk' \in [Walks -> Walk]
  <2>1. op \in AnyOp
    BY <1>6 DEF AnyOp
  <2>2. walk[w] \in Walk /\ \A v \in Walks : walk[v] \in Walk
    BY <1>2
  <2>3. walk' = [walk EXCEPT ![w] = [walk[w] EXCEPT !.pc = "storing", !.new = op]]
    BY <1>1
  <2>4. /\ walk' \in [Walks -> Walk] /\ \A v \in Walks \ {w} : walk'[v] = walk[v]
        /\ walk'[w] = [walk[w] EXCEPT !.pc = "storing", !.new = op]
    <3>1. [walk[w] EXCEPT !.pc = "storing", !.new = op] \in Walk
      BY <2>1, <2>2 DEF Walk
    <3> QED
      BY <1>2, <2>3, <3>1
  <2> QED
    BY <2>2, <2>4 DEF Walk
<1>9. Olds' = Olds /\ News' \subseteq News \cup {op} /\ Drafts' = Drafts
  BY <1>3, <1>8 DEF Olds, News, Drafts
<1>10. op \notin Ops
  BY <1>2, <1>6, EpochsAreNumbers, NextIdIsNew DEF Ids
<1>11. /\ News' \cap Drafts' = {} /\ Making' \subseteq Making \cup {op}
       /\ \A v, u \in Walks : walk'[v].new = walk'[u].new /\ walk'[v].new # NoOp => v = u
  <2>1. News' \cap Drafts' = {} /\ Making' \subseteq Making \cup {op}
    BY <1>2, <1>9, <1>10 DEF Fresh, Making, Ops
  <2>2. \A v \in Walks \ {w} : walk'[v].new # op
    <3>1. ASSUME NEW v \in Walks \ {w}, walk[v].new = op PROVE FALSE
      BY <1>7, <1>10, <3>1 DEF Ops, Making, News
    <3> QED
      BY <1>8, <3>1
  <2>3. \A v, u \in Walks : walk[v].new = walk[u].new /\ walk[v].new # NoOp => v = u
    BY <1>2 DEF Fresh
  <2> QED
    BY <1>8, <2>1, <2>2, <2>3
<1>12. Moved(tail, tail', 0, {task}) /\ tail' \in Seq(Task) /\ Len(tail) \in Nat
  BY <1>1, <1>2, <1>7, MovedBy, Front
<1>13. /\ OpsInv' /\ Fresh' /\ AckInv' /\ QueueInv' /\ Refusals' /\ Epochs' /\ RowsInv' /\ Watched'
       /\ ReplacedNotStored'
  <2>1. op.upTo <= edits /\ 1..op.from \subseteq Contents(stored)
    BY <1>2, <1>5, <1>6 DEF Lawful
  <2>2. \A v \in Walks : walk'[v].old = walk[v].old /\ walk'[v].index = walk[v].index
    BY <1>8
  <2>3. \A x \in {task} : x.t \notin {"commit", "mark"}
    BY <1>7
  <2>4. Olds' \subseteq Olds
    BY <1>9
  <2>5. 0 \in {0, 1}
    OBVIOUS
  <2>6. UNCHANGED <<keyEpoch, session, text, durableQueue, captured, refusedAsStale, missingEpoch, disk, wire,
                    relay, troubles, opening>>
    BY <1>1, <1>3
  <2>7. op \in Op /\ op.id = nextId /\ nextId' = nextId + 1
    BY <1>1, <1>6
  <2>8. Moved(tail, tail', 0, {task})
    BY <1>12
  <2>9. /\ Making' \subseteq Making \cup {op} /\ News' \cap Drafts' = {}
        /\ \A v, u \in Walks : walk'[v].new = walk'[u].new /\ walk'[v].new # NoOp => v = u
    BY <1>11
  <2> QED
    BY <2>1, <2>2, <2>3, <2>4, <2>5, <2>6, <2>7, <2>8, <2>9, MakeStep
<1>14. Staged' /\ OneTask'
  <2>1. \A v \in Walks : walk'[v].pc = walk[v].pc \/ ~At(walk[v].pc)
    BY <1>1, <1>8 DEF At
  <2>2. w # "drain"
    BY Owners
  <2> QED
    BY <1>1, <1>2, <1>3, <1>7, <1>8, <1>12, <2>1, <2>2, StagedAgain DEF At
<1>15. Drafted' /\ Walking'
  <2>1. Drafted'
    BY <1>2, <1>3 DEF Drafted
  <2>2. Content(op) = Content(old)
    BY <1>6 DEF Content
  <2>3. ASSUME NEW v \in Walks \ {w}
        PROVE  /\ walk'[v].old # NoOp <=> walk'[v].pc \in {"sealing", "storing", "discarding"}
               /\ walk'[v].new # NoOp <=> walk'[v].pc \in {"storing", "discarding"}
               /\ walk'[v].old # NoOp => walk'[v].index # 0 /\ walk'[v].old.epoch < walk'[v].epoch
               /\ walk'[v].new # NoOp => Content(walk'[v].new) = Content(walk'[v].old)
               /\ walk'[v].new # NoOp => walk'[v].new.from = walk'[v].old.from
               /\ walk'[v].pc = "discarding" => walk'[v].new \in rows
               /\ walk'[v].epoch <= keyEpoch
    BY <1>2, <1>8 DEF Walking
  <2>4. Walking'
    BY <1>1, <1>3, <1>4, <1>6, <1>7, <1>8, <2>2, <2>3 DEF Walking
  <2> QED
    BY <2>1, <2>4
<1>16. Types'
  <2>1. WalkTypes'
    BY <1>1, <1>2, <1>8 DEF WalkTypes, TypeOK
  <2>2. WireTypes'
    BY <1>2, <1>3, <1>12 DEF WireTypes, TypeOK
  <2>3. RelayTypes'
    <3>1. nextId' \in 1..(MaxOps + 1)
      <4>1. nextId \in Nat \ {0} /\ MaxOps \in Nat
        BY <1>2, EpochsAreNumbers, KeyEpochsAssumption
      <4>2. nextId <= MaxOps /\ nextId' = nextId + 1
        BY <1>1
      <4> QED
        BY <4>1, <4>2
    <3> QED
      BY <1>1, <1>2, <3>1 DEF RelayTypes, TypeOK, relay, opening
  <2>4. SessionTypes' /\ TextTypes' /\ SendTypes'
    BY <1>1, <1>2, <1>3, SameTypes
  <2>5. Bounded'
    BY <1>2, <1>3 DEF Bounded
  <2> QED
    BY <2>1, <2>2, <2>3, <2>4, <2>5, TypePartsNext DEF Types
<1> QED
  BY <1>13, <1>14, <1>15, <1>16 DEF KeysInv, StageInv

-----------------------------------------------------------------------------
(* The two transactions of a reseal.                                       *)

LEMMA RunStoreKeeps == ASSUME KeysInv, RunStore PROVE KeysInv'
<1> DEFINE w == Head(tail).by
           new == walk[w].new
           task == [t |-> "discard", by |-> w]
<1>1. /\ tail # <<>> /\ Head(tail).t = "store" /\ tail' = Append(Tail(tail), task)
      /\ rows' = rows \cup {new} /\ walk' = [walk EXCEPT ![w].pc = "discarding"]
      /\ UNCHANGED <<keyEpoch, session, text, sending, refusedAsStale, missingEpoch, dirty, rowSynced, wire,
                     relay, bounds>>
  BY DEF RunStore, RowsAfter
<1>2. /\ TypeOK /\ Bounded /\ Staged /\ OneTask /\ Drafted /\ Walking /\ Fresh /\ OpsInv /\ StageInv
      /\ Acks /\ Finished /\ DistinctQueue /\ NotBehind /\ Refusals /\ Epochs /\ Covered /\ EditKept
      /\ Watched /\ ReplacedNotStored
      /\ walk \in [Walks -> Walk] /\ tail \in Seq(Task)
  BY TypedWalks DEF KeysInv, Types, StageInv, OpsInv, TypeOK, AckInv, QueueInv, RowsInv
<1>3. UNCHANGED <<durableQueue, captured, draft, drain, open, c2r, r2c, edits, synced,
                  base, timer, stored, receipts, nextId, graphEpoch, storedAtOpen, wantedEpoch, collected>>
  BY <1>1 DEF sending, wire, text, relay, bounds, opening, session
<1>4. 1 \in Places(tail) /\ Head(tail) = tail[1] /\ Head(tail) \in Task /\ Len(tail) \in Nat
  BY <1>1, <1>2, FrontTask
<1>5. w \in Walks /\ Owner(tail[1]) = w /\ walk[w].pc = "storing"
  <2>1. w \in Walks
    BY <1>1, <1>4 DEF Task
  <2>2. Owner(tail[1]) = w /\ WalkStage(tail[1]) = "storing"
    BY <1>1, <1>4 DEF Owner, WalkStage
  <2> QED
    BY <1>2, <1>4, <2>1, <2>2 DEF Staged
<1>6. new # NoOp /\ walk[w].old # NoOp
  BY <1>2, <1>5 DEF Walking
<1>7. new \in Op /\ new \in News /\ new \in Making /\ new \in Ops /\ new \notin Out
  <2>1. new \in AnyOp
    BY <1>2, <1>5 DEF Walk
  <2>2. new \in Op /\ new \in News
    BY <1>5, <1>6, <2>1 DEF AnyOp, News
  <2> QED
    BY <1>2, <2>2 DEF Making, Ops, Fresh
<1>8. /\ task \in Task /\ Owner(task) = w /\ WalkStage(task) = "discarding" /\ task.t = "discard"
      /\ w # "drain" /\ w # "resend"
  BY <1>5, NewTasks, Owners
<1> HIDE DEF new, task, w
<1>9. Moved(tail, tail', 1, {task}) /\ tail' \in Seq(Task)
  BY <1>1, <1>2, <1>8, FrontTask
<1>10. /\ \A v \in Walks \ {w} : walk'[v] = walk[v]
       /\ walk'[w].pc = "discarding" /\ walk'[w].new = walk[w].new /\ walk'[w].old = walk[w].old
       /\ walk'[w].index = walk[w].index /\ walk'[w].epoch = walk[w].epoch
       /\ walk' \in [Walks -> Walk]
  BY <1>1, <1>2, <1>5 DEF Walk
<1>11. /\ UNCHANGED <<Queued, Behind, Sent, Confirmed, Acked, RefusedIds, Drafts>>
       /\ Olds' = Olds /\ News' = News /\ Marks' \subseteq Marks /\ Commits' \subseteq Commits
  <2>1. UNCHANGED <<Queued, Behind, Sent, Confirmed, Acked, RefusedIds, Drafts>>
    BY <1>1, <1>3, SamePlaces
  <2>2. /\ Marks' \subseteq Marks \cup {x.op : x \in {y \in {task} : y.t = "mark"}}
        /\ Commits' \subseteq Commits \cup {x.op : x \in {y \in {task} : y.t = "commit"}}
    BY <1>9, TailSets
  <2>3. Olds' = Olds /\ News' = News
    BY <1>10 DEF Olds, News
  <2> QED
    BY <1>8, <2>1, <2>2, <2>3
<1>12. Out' \subseteq Out /\ Making' = Making /\ Ops' \subseteq Ops
  BY <1>1, <1>3, <1>7, <1>11 DEF Out, Making, Ops
<1>13. OpsInv'
  <2>1. /\ Ops' \subseteq Ops /\ RefusedIds' \subseteq RefusedIds \cup Ids(Ops) /\ stored \subseteq stored'
        /\ \A o \in Ops : o.upTo \in Nat
        /\ edits \in Nat /\ edits' \in Nat /\ edits <= edits'
    BY <1>2, <1>3, <1>11, <1>12, EpochsAreNumbers
  <2> QED
    BY <1>2, <1>3, <2>1, OpsKept
<1>14. Fresh'
  <2>1. /\ \A o \in Out' : o \in Out \/ o \notin Making'
        /\ Making' \subseteq Making /\ News' \subseteq News /\ Drafts' \subseteq Drafts
        /\ RefusedIds' \subseteq RefusedIds \cup Ids(Sent)
        /\ \A v \in Walks : walk'[v].new \in {walk[v].new, NoOp}
    BY <1>10, <1>11, <1>12
  <2> QED
    BY <1>2, <2>1, FreshKept DEF OpsInv
<1>15. AckInv'
  <2>1. Acks'
    BY <1>2, <1>3, <1>11 DEF Acks
  <2>2. new \notin stored
    BY <1>7 DEF Out
  <2>3. Finished'
    BY <1>1, <1>2, <1>3, <1>11, <2>2 DEF Finished
  <2> QED
    BY <2>1, <2>3 DEF AckInv
<1>16. QueueInv'
  BY <1>2, <1>3, <1>11 DEF QueueInv, DistinctQueue, NotBehind
<1>17. Refusals' /\ Epochs'
  BY <1>1, <1>2, <1>3, <1>12 DEF Refusals, Epochs
<1>18. RowsInv'
  <2>1. \A i \in Places(tail') : tail'[i].t = "commit" => \E j \in Places(tail) : tail'[i] = tail[j]
    BY <1>8, <1>9 DEF Moved
  <2>2. Covered'
    BY <1>1, <1>2, <1>3, <2>1 DEF Covered, Contents
  <2>3. Contents(rows) \subseteq Contents(rows')
    BY <1>1 DEF Contents
  <2>4. EditKept'
    BY <1>1, <1>2, <1>3, <2>3 DEF EditKept, Contents
  <2> QED
    BY <2>2, <2>4 DEF RowsInv
<1>19. Watched'
  BY <1>1, <1>2, <1>3, <1>10, WatchedKept DEF RefusedHead
<1>20. ReplacedNotStored'
  BY <1>2, <1>3, <1>10 DEF ReplacedNotStored
<1>21. Staged' /\ OneTask'
  <2>1. \A v \in Walks : walk'[v].pc = walk[v].pc \/ Owner(tail[1]) = v
    BY <1>5, <1>10
  <2>2. \A x \in {task} : Owner(x) = w /\ WalkStage(x) = "discarding"
    BY <1>8
  <2> QED
    BY <1>2, <1>3, <1>4, <1>5, <1>8, <1>9, <1>10, <2>1, <2>2, StagedAgain
<1>22. Drafted' /\ Walking'
  <2>1. Drafted'
    BY <1>2, <1>3 DEF Drafted
  <2>2. ASSUME NEW v \in Walks \ {w}
        PROVE  /\ walk'[v].old # NoOp <=> walk'[v].pc \in {"sealing", "storing", "discarding"}
               /\ walk'[v].new # NoOp <=> walk'[v].pc \in {"storing", "discarding"}
               /\ walk'[v].old # NoOp => walk'[v].index # 0 /\ walk'[v].old.epoch < walk'[v].epoch
               /\ walk'[v].new # NoOp => Content(walk'[v].new) = Content(walk'[v].old)
               /\ walk'[v].new # NoOp => walk'[v].new.from = walk'[v].old.from
               /\ walk'[v].pc = "discarding" => walk'[v].new \in rows'
               /\ walk'[v].epoch <= keyEpoch
    BY <1>1, <1>2, <1>10 DEF Walking
  <2>3. /\ walk[w].index # 0 /\ walk[w].old.epoch < walk[w].epoch
        /\ Content(walk[w].new) = Content(walk[w].old) /\ walk[w].new.from = walk[w].old.from
        /\ walk[w].epoch <= keyEpoch /\ walk[w].new \in rows' /\ walk[w].new # NoOp
    BY <1>1, <1>2, <1>5, <1>6 DEF Walking, new
  <2>4. Walking'
    BY <1>1, <1>6, <1>10, <2>2, <2>3 DEF Walking
  <2> QED
    BY <2>1, <2>4
<1>23. Types'
  <2>1. WalkTypes'
    BY <1>1, <1>2, <1>10 DEF WalkTypes, TypeOK
  <2>2. WireTypes'
    BY <1>2, <1>3, <1>9 DEF WireTypes, TypeOK
  <2>3. SendTypes'
    BY <1>1, <1>2, <1>3, <1>7 DEF SendTypes, TypeOK
  <2>4. SessionTypes' /\ TextTypes' /\ RelayTypes'
    BY <1>1, <1>2, <1>3, SameTypes
  <2>5. Bounded'
    BY <1>1, <1>2, <1>3 DEF Bounded
  <2> QED
    BY <2>1, <2>2, <2>3, <2>4, <2>5, TypePartsNext DEF Types
<1> QED
  BY <1>13, <1>14, <1>15, <1>16, <1>17, <1>18, <1>19, <1>20, <1>21, <1>22, <1>23 DEF KeysInv, StageInv

-----------------------------------------------------------------------------
(* An attempt is marked, and what is still at the head is sent.            *)

\* The head of the queue is in no other place of it.
LEMMA HeadOnce ==
    ASSUME TypeOK, DistinctQueue, durableQueue # <<>>, Head(durableQueue) # NoOp
    PROVE  /\ Head(durableQueue) \in Op /\ Head(durableQueue) \in Queued /\ Head(durableQueue) \notin Behind
           /\ 1 \in Places(durableQueue) /\ Head(durableQueue) = durableQueue[1]
<1>1. 1 \in Places(durableQueue) /\ Head(durableQueue) = durableQueue[1] /\ Head(durableQueue) \in AnyOp
  BY Front DEF TypeOK
<1>2. Head(durableQueue) \in Op /\ Head(durableQueue) \in Queued
  BY <1>1 DEF AnyOp, Queued
<1>3. ASSUME NEW i \in Places(durableQueue) \ {1}, durableQueue[i] = Head(durableQueue) PROVE FALSE
  BY <1>1, <1>3 DEF DistinctQueue
<1>4. Head(durableQueue) \notin Behind
  BY <1>3 DEF Behind
<1> QED
  BY <1>1, <1>2, <1>4

LEMMA RunMarkKeeps == ASSUME KeysInv, RunMark PROVE KeysInv'
<1> DEFINE op == Head(tail).op
           by == Head(tail).by
           m  == [t |-> "append", op |-> op]
<1>1. /\ tail # <<>> /\ Head(tail).t = "mark" /\ tail' = Tail(tail)
      /\ c2r' = IF open /\ durableQueue # <<>> /\ Head(durableQueue).id = op.id THEN Append(c2r, m) ELSE c2r
      /\ drain' = IF by = "drain" THEN "no" ELSE drain
      /\ IF by \in Walks
         THEN walk' = [walk EXCEPT ![by] = Idle] /\ missingEpoch' = AskAgain(missingEpoch, keyEpoch)
         ELSE UNCHANGED <<walk, missingEpoch>>
      /\ UNCHANGED <<keyEpoch, session, text, draft, durableQueue, captured, refusedAsStale, disk, open, r2c,
                     relay, bounds>>
  BY DEF RunMark
<1>2. /\ TypeOK /\ Bounded /\ Staged /\ OneTask /\ Drafted /\ Walking /\ Fresh /\ OpsInv /\ StageInv
      /\ Acks /\ Finished /\ DistinctQueue /\ NotBehind /\ Refusals /\ Epochs /\ Covered /\ EditKept
      /\ Watched /\ ReplacedNotStored /\ OneOpPerId
      /\ walk \in [Walks -> Walk] /\ tail \in Seq(Task) /\ c2r \in Seq(ClientMessage)
  BY TypedWalks DEF KeysInv, Types, StageInv, OpsInv, TypeOK, AckInv, QueueInv, RowsInv
<1>3. UNCHANGED <<rows, dirty, rowSynced, edits, synced, base, timer, stored, receipts, nextId, graphEpoch,
                  storedAtOpen, wantedEpoch, collected>>
  BY <1>1 DEF disk, text, relay, bounds, opening, session
<1>4. /\ 1 \in Places(tail) /\ Head(tail) = tail[1] /\ Head(tail) \in Task /\ Len(tail) \in Nat
      /\ Moved(tail, tail', 1, {}) /\ tail' \in Seq(Task)
  BY <1>1, <1>2, FrontTask
<1>5. /\ op \in Op /\ by \in Walks \cup {"drain", "resend"} /\ Owner(tail[1]) = by
      /\ WalkStage(tail[1]) = "marking" /\ DrainStage(tail[1]) = "marking" /\ op \in Marks
  <2>1. op \in Op /\ by \in Walks \cup {"drain", "resend"}
    BY <1>1, <1>4 DEF Task
  <2> QED
    BY <1>1, <1>4, <2>1 DEF Owner, WalkStage, DrainStage, Marks
<1>6. "drain" \notin Walks
  BY Owners
<1>7. (by \in Walks => walk[by].pc = "marking") /\ (by = "drain" => drain = "marking")
  BY <1>2, <1>4, <1>5 DEF Staged
<1>8. op.id \in 1..MaxOps /\ op \in Ops
  BY <1>5, NoOps DEF Ops, Out
<1>9. m \in ClientMessage /\ m.t = "append" /\ m.op = op
  BY <1>5 DEF ClientMessage
<1> HIDE DEF op, by, m
<1>10. ASSUME durableQueue # <<>>, Head(durableQueue).id = op.id
       PROVE  op \in Queued /\ op \notin Behind
  <2>1. Head(durableQueue) # NoOp
    BY <1>8, <1>10, NoOps
  <2>2. Head(durableQueue) \in Ops /\ Head(durableQueue) \in Queued /\ Head(durableQueue) \notin Behind
    BY <1>2, <1>10, <2>1, HeadOnce DEF Ops, Out
  <2> QED
    BY <1>2, <1>8, <1>10, <2>2 DEF OneOpPerId
<1>11. PICK X \in {{}, {m}} :
           /\ Moved(c2r, c2r', 0, X) /\ c2r' \in Seq(ClientMessage)
           /\ X # {} => durableQueue # <<>> /\ Head(durableQueue).id = op.id
  <2>1. CASE open /\ durableQueue # <<>> /\ Head(durableQueue).id = op.id
    BY <1>1, <1>2, <1>9, <2>1, MovedBy
  <2>2. CASE ~(open /\ durableQueue # <<>> /\ Head(durableQueue).id = op.id)
    BY <1>1, <1>2, <2>2, Unmoved
  <2> QED
    BY <2>1, <2>2
<1>12. X # {} => op \in Queued /\ op \notin Behind
  BY <1>10, <1>11
<1>13. /\ walk' \in [Walks -> Walk]
       /\ \A v \in Walks : /\ walk'[v].old = walk[v].old /\ walk'[v].new = walk[v].new
                           /\ \/ walk'[v] = walk[v]
                              \/ v = by /\ walk'[v] = Idle /\ walk[v].old = NoOp /\ walk[v].new = NoOp
  <2>1. CASE by \in Walks
    <3>1. walk'[by] = Idle /\ \A v \in Walks \ {by} : walk'[v] = walk[v]
      BY <1>1, <1>2, <2>1
    <3>2. walk[by].old = NoOp /\ walk[by].new = NoOp
      BY <1>2, <1>7, <2>1 DEF Walking
    <3>3. walk' \in [Walks -> Walk]
      BY <1>1, <1>2, <2>1, Idles
    <3> QED
      BY <2>1, <3>1, <3>2, <3>3, Idles
  <2>2. CASE by \notin Walks
    BY <1>1, <1>2, <2>2
  <2> QED
    BY <2>1, <2>2
<1>14. missingEpoch' \in {0, missingEpoch}
  BY <1>1, AsksAgain
<1>15. /\ UNCHANGED <<Queued, Behind, Acked, RefusedIds, Drafts>>
       /\ Olds' = Olds /\ News' = News /\ Marks' \subseteq Marks /\ Commits' \subseteq Commits
       /\ Sent' \subseteq Sent \cup (Queued \ Behind) /\ Confirmed' \subseteq Confirmed
  <2>1. UNCHANGED <<Queued, Behind, Acked, RefusedIds, Drafts>>
    BY <1>1, <1>3, SamePlaces
  <2>2. /\ Marks' \subseteq Marks \cup {x.op : x \in {y \in {} : y.t = "mark"}}
        /\ Commits' \subseteq Commits \cup {x.op : x \in {y \in {} : y.t = "commit"}}
    BY <1>4, TailSets
  <2>3. Olds' = Olds /\ News' = News
    BY <1>13 DEF Olds, News
  <2>4. /\ Sent' \subseteq Sent \cup {x.op : x \in {y \in X : y.t = "append"}}
        /\ Confirmed' \subseteq Confirmed \cup {x.id : x \in {y \in X : y.t = "confirm"}}
    BY <1>11, SentSets
  <2>5. {x.op : x \in {y \in X : y.t = "append"}} \subseteq Queued \ Behind
    BY <1>9, <1>11, <1>12
  <2>6. {x.id : x \in {y \in X : y.t = "confirm"}} = {}
    BY <1>9, <1>11
  <2>7. Marks' \subseteq Marks /\ Commits' \subseteq Commits
    BY <2>2
  <2> QED
    BY <2>1, <2>3, <2>4, <2>5, <2>6, <2>7
<1>16. Out' \subseteq Out /\ Making' = Making /\ Ops' \subseteq Ops
  BY <1>3, <1>15 DEF Out, Making, Ops
<1>17. OpsInv'
  <2>1. /\ Ops' \subseteq Ops /\ RefusedIds' \subseteq RefusedIds \cup Ids(Ops) /\ stored \subseteq stored'
        /\ \A o \in Ops : o.upTo \in Nat
        /\ edits \in Nat /\ edits' \in Nat /\ edits <= edits'
    BY <1>2, <1>3, <1>15, <1>16, EpochsAreNumbers
  <2> QED
    BY <1>2, <1>3, <2>1, OpsKept
<1>18. Fresh'
  <2>1. /\ \A o \in Out' : o \in Out \/ o \notin Making'
        /\ Making' \subseteq Making /\ News' \subseteq News /\ Drafts' \subseteq Drafts
        /\ RefusedIds' \subseteq RefusedIds \cup Ids(Sent)
        /\ \A v \in Walks : walk'[v].new \in {walk[v].new, NoOp}
    BY <1>13, <1>15, <1>16
  <2> QED
    BY <1>2, <2>1, FreshKept
<1>19. Acks'
  BY <1>2, <1>3, <1>15 DEF Acks
<1>20. Finished'
  <2>1. \A o \in stored' : o.id \notin receipts' \/ o.id \in Confirmed' => o \notin rows' \cup Queued'
    BY <1>2, <1>3, <1>15 DEF Finished
  <2>2. ASSUME NEW i \in Places(c2r'), c2r'[i].t = "append", c2r'[i].op \in stored'
        PROVE  /\ c2r'[i].op.id \in receipts'
               /\ \A j \in 1..(i - 1) : c2r'[j].t = "confirm" => c2r'[j].id # c2r'[i].op.id
    <3>0. Len(c2r) \in Nat /\ i \in Nat \ {0}
      BY <1>2, <1>11, Front
    <3>1. CASE i \in Places(c2r) /\ c2r'[i] = c2r[i]
      <4>1. /\ c2r[i].op.id \in receipts
            /\ \A j \in 1..(i - 1) : c2r[j].t = "confirm" => c2r[j].id # c2r[i].op.id
        BY <1>2, <1>3, <2>2, <3>1 DEF Finished
      <4>2. ASSUME NEW j \in 1..(i - 1) PROVE c2r'[j] = c2r[j]
        <5>1. j \in Places(c2r') /\ j + 0 = j /\ j # Len(c2r) + 1
          BY <3>0, <3>1 DEF Places
        <5> QED
          BY <1>11, <5>1 DEF Moved
      <4> QED
        BY <1>3, <3>1, <4>1, <4>2
    <3>2. CASE i = Len(c2r) + 1 /\ c2r'[i] \in X
      <4>1. c2r'[i].op = op /\ op \in Queued /\ op \in stored
        BY <1>3, <1>9, <1>11, <1>12, <2>2, <3>2
      <4>2. op.id \in receipts /\ op.id \notin Confirmed
        BY <1>2, <4>1 DEF Finished
      <4>3. ASSUME NEW j \in 1..(i - 1), c2r'[j].t = "confirm" PROVE c2r'[j].id # op.id
        <5>1. j \in Places(c2r')
          BY <3>0 DEF Places
        <5>2. c2r'[j].id \in Confirmed'
          BY <4>3, <5>1 DEF Confirmed
        <5> QED
          BY <1>15, <4>2, <5>2
      <4> QED
        BY <1>3, <4>1, <4>2, <4>3
    <3>3. i + 0 = i
      BY <3>0
    <3> QED
      BY <1>11, <3>1, <3>2, <3>3 DEF Moved
  <2> QED
    BY <2>1, <2>2 DEF Finished
<1>21. QueueInv'
  <2>1. DistinctQueue'
    BY <1>1, <1>2 DEF DistinctQueue
  <2>2. NotBehind'
    BY <1>2, <1>3, <1>15 DEF NotBehind, Ids
  <2> QED
    BY <2>1, <2>2 DEF QueueInv
<1>22. Refusals' /\ Epochs'
  BY <1>1, <1>2, <1>3, <1>16 DEF Refusals, Epochs
<1>23. RowsInv'
  <2>1. \A i \in Places(tail') : tail'[i].t = "commit" => \E j \in Places(tail) : tail'[i] = tail[j]
    BY <1>4 DEF Moved
  <2>2. Covered' /\ EditKept'
    BY <1>2, <1>3, <2>1 DEF Covered, EditKept, Contents
  <2> QED
    BY <2>2 DEF RowsInv
<1>24. Watched'
  <2>1. RefusedHead' => RefusedHead
    BY <1>1 DEF RefusedHead
  <2> QED
    BY <1>1, <1>2, <1>13, <1>14, <2>1, WatchedKept
<1>25. ReplacedNotStored'
  <2>1. \A v \in Walks : walk'[v].old \in stored => walk'[v] = walk[v]
    BY <1>2, <1>13, NoOps, Idles DEF TypeOK
  <2> QED
    BY <1>2, <1>3, <1>13, <2>1 DEF ReplacedNotStored
<1>26. Staged' /\ OneTask'
  <2>1. \A v \in Walks : walk'[v].pc = walk[v].pc \/ Owner(tail[1]) = v
    BY <1>5, <1>13
  <2>2. drain' = drain \/ Owner(tail[1]) = "drain"
    BY <1>1, <1>5
  <2>3. \A x \in {} : /\ Owner(x) \in Walks =>
                             /\ walk'[Owner(x)].pc = WalkStage(x)
                             /\ ~At(walk[Owner(x)].pc) \/ (1 = 1 /\ Owner(tail[1]) = Owner(x))
                      /\ Owner(x) = "drain" =>
                             /\ drain' = DrainStage(x)
                             /\ ~At(drain) \/ (1 = 1 /\ Owner(tail[1]) = Owner(x))
                      /\ Owner(x) \in Walks \cup {"drain", "resend"}
    OBVIOUS
  <2> QED
    BY <1>2, <1>4, <2>1, <2>2, <2>3, StagedAgain
<1>27. Drafted' /\ Walking'
  <2>1. Drafted'
    BY <1>1, <1>2, <1>7 DEF Drafted
  <2>2. keyEpoch \in Nat
    BY <1>2, EpochsAreNumbers
  <2>3. Walking'
    BY <1>1, <1>2, <1>3, <1>13, <2>2, Idles DEF Walking
  <2> QED
    BY <2>1, <2>3
<1>28. Types'
  <2>1. WalkTypes'
    BY <1>1, <1>2, <1>13 DEF WalkTypes, TypeOK
  <2>2. WireTypes'
    BY <1>1, <1>2, <1>4, <1>11 DEF WireTypes, TypeOK
  <2>3. SendTypes'
    BY <1>1, <1>2, <1>3 DEF SendTypes, TypeOK
  <2>4. SessionTypes'
    <3>1. SessionTypes /\ missingEpoch \in 0..MaxEpoch /\ 0 \in 0..MaxEpoch
      BY <1>2, TypeParts, InRange
    <3> QED
      BY <1>1, <1>14, <3>1 DEF SessionTypes, session
  <2>5. TextTypes' /\ RelayTypes'
    BY <1>1, <1>2, <1>3, SameTypes
  <2>6. Bounded'
    BY <1>2, <1>3 DEF Bounded
  <2> QED
    BY <2>1, <2>2, <2>3, <2>4, <2>5, <2>6, TypePartsNext DEF Types
<1> QED
  BY <1>17, <1>18, <1>19, <1>20, <1>21, <1>22, <1>23, <1>24, <1>25, <1>26, <1>27, <1>28
  DEF KeysInv, StageInv, AckInv

-----------------------------------------------------------------------------
(* What a drain made is queued and marked.                                 *)

LEMMA RunEnqueueKeeps == ASSUME KeysInv, RunEnqueue PROVE KeysInv'
<1> DEFINE mark == Mark(draft, "drain")
<1>1. /\ tail # <<>> /\ Head(tail).t = "enqueue" /\ tail' = Append(Tail(tail), mark)
      /\ rows' = rows \cup {draft} /\ dirty' = dirty \ (1..draft.upTo)
      /\ durableQueue' = Append(durableQueue, draft) /\ captured' = captured \cup {draft.id}
      /\ drain' = "marking" /\ draft' = NoOp
      /\ UNCHANGED <<keyEpoch, session, text, keys, rowSynced, wire, relay, bounds>>
  BY DEF RunEnqueue
<1>2. /\ TypeOK /\ Bounded /\ Staged /\ OneTask /\ Drafted /\ Walking /\ Fresh /\ OpsInv /\ StageInv
      /\ Acks /\ Finished /\ DistinctQueue /\ NotBehind /\ Refusals /\ Epochs /\ Covered /\ EditKept
      /\ Watched /\ ReplacedNotStored /\ OneOpPerId /\ Lawful
      /\ walk \in [Walks -> Walk] /\ tail \in Seq(Task) /\ durableQueue \in Seq(AnyOp)
  BY TypedWalks DEF KeysInv, Types, StageInv, OpsInv, TypeOK, AckInv, QueueInv, RowsInv
<1>3. UNCHANGED <<walk, refusedAsStale, missingEpoch, open, c2r, r2c, edits, synced, base, timer, stored, receipts,
                  nextId, graphEpoch, storedAtOpen, wantedEpoch, collected>>
  BY <1>1 DEF keys, wire, text, relay, bounds, opening, session
<1>4. 1 \in Places(tail) /\ Head(tail) = tail[1] /\ Head(tail) \in Task /\ Len(tail) \in Nat
  BY <1>1, <1>2, FrontTask
<1>5. Owner(tail[1]) = "drain" /\ drain = "storing"
  <2>1. Owner(tail[1]) = "drain" /\ DrainStage(tail[1]) = "storing"
    BY <1>1, <1>4 DEF Owner, DrainStage
  <2> QED
    BY <1>2, <1>4, <2>1 DEF Staged
<1>6. draft # NoOp /\ draft \in Op /\ draft \in AnyOp /\ draft.id \in 1..MaxOps
  <2>1. draft # NoOp /\ draft \in AnyOp
    BY <1>2, <1>5 DEF Drafted, TypeOK
  <2>2. draft \in Op
    BY <2>1 DEF AnyOp
  <2> QED
    BY <2>1, <2>2, NoOps
<1>7. /\ draft \in Drafts /\ draft \in Making /\ draft \in Ops /\ draft \notin Out /\ draft \notin News
      /\ draft.id \notin RefusedIds
  <2>1. draft \in Drafts
    BY <1>6 DEF Drafts
  <2> QED
    BY <1>2, <2>1 DEF Making, Ops, Fresh, Ids
<1>8. /\ mark \in Task /\ Owner(mark) = "drain" /\ DrainStage(mark) = "marking" /\ mark.t = "mark"
      /\ mark.op = draft /\ "drain" \notin Walks
  BY <1>6, NewTasks, Owners
<1> HIDE DEF mark
<1>9. Moved(tail, tail', 1, {mark}) /\ tail' \in Seq(Task)
  BY <1>1, <1>2, <1>8, FrontTask
<1>10. /\ durableQueue' \in Seq(AnyOp) /\ Moved(durableQueue, durableQueue', 0, {draft})
       /\ Len(durableQueue) \in Nat
  BY <1>1, <1>2, <1>6, MovedBy, Front
<1>11. \A i \in Places(durableQueue') :
          /\ i \in Nat \ {0}
          /\ \/ i \in Places(durableQueue) /\ durableQueue'[i] = durableQueue[i]
             \/ i = Len(durableQueue) + 1 /\ durableQueue'[i] = draft
  <2>1. \A i \in Places(durableQueue') : i \in Nat \ {0} /\ i + 0 = i
    BY <1>10, Front
  <2> QED
    BY <1>10, <2>1 DEF Moved
<1>12. /\ UNCHANGED <<Sent, Confirmed, Acked, RefusedIds, Olds, News>> /\ Drafts' = {}
       /\ Queued' \subseteq Queued \cup {draft} /\ Behind' \subseteq Behind \cup {draft}
       /\ Marks' \subseteq Marks \cup {draft} /\ Commits' \subseteq Commits
  <2>1. UNCHANGED <<Sent, Confirmed, Acked, RefusedIds, Olds, News>>
    BY <1>3, SamePlaces
  <2>2. /\ Marks' \subseteq Marks \cup {x.op : x \in {y \in {mark} : y.t = "mark"}}
        /\ Commits' \subseteq Commits \cup {x.op : x \in {y \in {mark} : y.t = "commit"}}
    BY <1>9, TailSets
  <2>3. Marks' \subseteq Marks \cup {draft} /\ Commits' \subseteq Commits
    BY <1>8, <2>2
  <2>4. Queued' \subseteq Queued \cup {draft} /\ Behind' \subseteq Behind \cup {draft}
    BY <1>11 DEF Queued, Behind
  <2>5. Drafts' = {}
    BY <1>1 DEF Drafts
  <2> QED
    BY <2>1, <2>3, <2>4, <2>5
<1>13. Out' \subseteq Out \cup {draft} /\ Making' \subseteq Making \ {draft} /\ Ops' \subseteq Ops
  <2>1. Out' \subseteq Out \cup {draft}
    BY <1>3, <1>12 DEF Out
  <2>2. Making' \subseteq Making \ {draft}
    BY <1>7, <1>12 DEF Making
  <2> QED
    BY <1>1, <1>7, <2>1, <2>2 DEF Ops
<1>14. OpsInv'
  <2>1. /\ Ops' \subseteq Ops /\ RefusedIds' \subseteq RefusedIds \cup Ids(Ops) /\ stored \subseteq stored'
        /\ \A o \in Ops : o.upTo \in Nat
        /\ edits \in Nat /\ edits' \in Nat /\ edits <= edits'
    BY <1>2, <1>3, <1>12, <1>13, EpochsAreNumbers
  <2> QED
    BY <1>2, <1>3, <2>1, OpsKept
<1>15. Fresh'
  <2>1. /\ \A o \in Out' : o \in Out \/ o \notin Making'
        /\ Making' \subseteq Making /\ News' \subseteq News /\ Drafts' \subseteq Drafts
        /\ RefusedIds' \subseteq RefusedIds \cup Ids(Sent)
        /\ \A v \in Walks : walk'[v].new \in {walk[v].new, NoOp}
    BY <1>3, <1>12, <1>13
  <2> QED
    BY <1>2, <2>1, FreshKept
<1>16. AckInv'
  <2>1. Acks'
    BY <1>2, <1>3, <1>12 DEF Acks
  <2>2. draft \notin stored
    BY <1>7 DEF Out
  <2>3. Finished'
    BY <1>1, <1>2, <1>3, <1>12, <2>2 DEF Finished
  <2> QED
    BY <2>1, <2>3 DEF AckInv
<1>17. QueueInv'
  <2>1. DistinctQueue'
    <3>1. \A i \in Places(durableQueue) : durableQueue[i] # draft
      BY <1>6, <1>7 DEF Out, Queued
    <3> QED
      BY <1>2, <1>11, <3>1 DEF DistinctQueue
  <2>2. draft \notin Sent \cup Commits /\ draft \notin stored
    BY <1>7 DEF Out
  <2>3. NotBehind'
    BY <1>2, <1>3, <1>7, <1>12, <2>2 DEF NotBehind, Ids
  <2> QED
    BY <2>1, <2>3 DEF QueueInv
<1>18. Refusals' /\ Epochs'
  BY <1>1, <1>2, <1>3, <1>13 DEF Refusals, Epochs
<1>19. RowsInv'
  <2>1. \A i \in Places(tail') : tail'[i].t = "commit" => \E j \in Places(tail) : tail'[i] = tail[j]
    BY <1>8, <1>9 DEF Moved
  <2>2. Covered'
    BY <1>1, <1>2, <1>3, <2>1 DEF Covered, Contents
  <2>3. Contents(rows') = Contents(rows) \cup Content(draft)
    BY <1>1 DEF Contents
  <2>4. 1..draft.upTo \subseteq Contents(stored) \cup Content(draft)
    <3>1. 1..draft.from \subseteq Contents(stored) /\ draft.from \in Nat /\ draft.upTo \in Nat
      BY <1>2, <1>7, EpochsAreNumbers DEF Lawful
    <3>2. 1..draft.upTo \subseteq 1..draft.from \cup Content(draft)
      BY <3>1 DEF Content
    <3> QED
      BY <3>1, <3>2
  <2>5. Contents(stored') = Contents(stored)
    BY <1>3 DEF Contents
  <2>6. EditKept'
    BY <1>1, <1>2, <1>3, <2>3, <2>4, <2>5 DEF EditKept
  <2> QED
    BY <2>2, <2>6 DEF RowsInv
<1>20. Watched'
  <2>1. ASSUME RefusedHead' PROVE RefusedHead /\ Head(durableQueue') = Head(durableQueue)
    <3>1. CASE durableQueue = <<>>
      <4>1. Head(durableQueue') = draft
        BY <1>1, <3>1
      <4> QED
        BY <1>3, <1>7, <2>1, <4>1 DEF RefusedHead, RefusedIds
    <3>2. CASE durableQueue # <<>>
      <4>1. 1 \in Places(durableQueue) /\ Head(durableQueue) = durableQueue[1]
        BY <1>2, <3>2, Front
      <4>2. durableQueue' # <<>>
        BY <2>1 DEF RefusedHead
      <4>3. 1 \in Places(durableQueue') /\ Head(durableQueue') = durableQueue'[1]
        BY <1>10, <4>2, Front
      <4>4. 1 # Len(durableQueue) + 1
        BY <1>10, <4>1 DEF Places
      <4> QED
        BY <1>3, <1>11, <2>1, <3>2, <4>1, <4>3, <4>4 DEF RefusedHead
    <3> QED
      BY <3>1, <3>2
  <2> QED
    BY <1>1, <1>2, <1>3, <2>1, WatchedKept
<1>21. ReplacedNotStored'
  BY <1>2, <1>3 DEF ReplacedNotStored
<1>22. Staged' /\ OneTask'
  <2>1. \A v \in Walks : walk'[v].pc = walk[v].pc
    BY <1>3
  <2>2. \A x \in {mark} : Owner(x) = "drain" /\ DrainStage(x) = "marking"
    BY <1>8
  <2> QED
    BY <1>1, <1>2, <1>4, <1>5, <1>8, <1>9, <2>1, <2>2, StagedAgain
<1>23. Drafted' /\ Walking'
  <2>1. Drafted'
    BY <1>1 DEF Drafted
  <2>2. Walking'
    BY <1>1, <1>2, <1>3 DEF Walking
  <2> QED
    BY <2>1, <2>2
<1>24. Types'
  <2>1. WireTypes'
    BY <1>2, <1>3, <1>9 DEF WireTypes, TypeOK
  <2>2. SendTypes'
    <3>1. captured \subseteq 1..MaxOps /\ rows \subseteq Op
      BY <1>2 DEF TypeOK
    <3>2. NoOp \in AnyOp
      BY NoOps
    <3> QED
      BY <1>1, <1>6, <1>10, <3>1, <3>2 DEF SendTypes
  <2>3. TextTypes'
    <3>1. TextTypes
      BY <1>2, TypeParts
    <3> QED
      BY <1>1, <1>3, <3>1 DEF TextTypes
  <2>4. SessionTypes' /\ WalkTypes' /\ RelayTypes'
    BY <1>1, <1>2, <1>3, SameTypes
  <2>5. Bounded'
    BY <1>1, <1>2, <1>3 DEF Bounded
  <2> QED
    BY <2>1, <2>2, <2>3, <2>4, <2>5, TypePartsNext DEF Types
<1> QED
  BY <1>14, <1>15, <1>16, <1>17, <1>18, <1>19, <1>20, <1>21, <1>22, <1>23, <1>24 DEF KeysInv, StageInv

-----------------------------------------------------------------------------
(* An acknowledged operation leaves the cache.                             *)

LEMMA RestOfQueue ==
    ASSUME NEW q \in Seq(AnyOp)
    PROVE  LET rest == SubSeq(q, 2, Len(q)) IN
           /\ rest \in Seq(AnyOp)
           /\ \A i \in Places(rest) : i \in Nat \ {0} /\ i + 1 \in Places(q) \ {1} /\ rest[i] = q[i + 1]
<1>1. Len(q) \in Nat
  BY LenProperties
<1>2. CASE q = <<>>
  <2>1. SubSeq(q, 2, Len(q)) = <<>>
    BY <1>2, EmptySeq
  <2> QED
    BY <2>1, EmptySeq DEF Places
<1>3. CASE q # <<>>
  <2>1. Len(q) # 0
    BY <1>3, EmptySeq
  <2>2. \A i \in 2..Len(q) : q[i] \in AnyOp
    BY LenProperties
  <2>3. /\ SubSeq(q, 2, Len(q)) \in Seq(AnyOp) /\ Len(SubSeq(q, 2, Len(q))) = Len(q) - 1
        /\ \A i \in 1..(Len(q) - 1) : SubSeq(q, 2, Len(q))[i] = q[i + 1]
    <3>1. /\ 2 \in 1..(Len(q) + 1) /\ Len(q) \in 1..Len(q) /\ Len(q) - 2 + 1 = Len(q) - 1
          /\ \A i \in 1..(Len(q) - 1) : 2 + i - 1 = i + 1
      BY <1>1, <2>1
    <3> QED
      BY <1>1, <2>1, <3>1, SubSeqProperties
  <2> QED
    BY <1>1, <2>1, <2>3 DEF Places
<1> QED
  BY <1>2, <1>3

\* The operation is no longer at rest: its task is over.
LEMMA CommitPasses ==
    ASSUME KeysInv, tail # <<>>, Head(tail).t = "commit", tail' = Tail(tail),
           UNCHANGED <<text, sending, disk, c2r, keyEpoch, session, keys, open, r2c, relay, bounds>>
    PROVE  KeysInv'
<1>1. /\ TypeOK /\ Bounded /\ Staged /\ OneTask /\ Drafted
  BY DEF KeysInv, Types, StageInv
<1>2. /\ 1 \in Places(tail) /\ Head(tail) = tail[1] /\ Len(tail) \in Nat
      /\ Moved(tail, tail', 1, {}) /\ tail' \in Seq(Task)
  BY <1>1, FrontTask
<1>3. UNCHANGED <<walk, drain, draft, durableQueue, captured, rows, dirty, rowSynced, edits, synced, base, timer,
                  nextId, opening, missingEpoch, refusedAsStale>>
  BY DEF keys, sending, disk, text, bounds
<1>4. Staged' /\ OneTask'
  <2>1. \A x \in {} : /\ Owner(x) \in Walks =>
                             /\ walk'[Owner(x)].pc = WalkStage(x)
                             /\ ~At(walk[Owner(x)].pc) \/ (1 = 1 /\ Owner(tail[1]) = Owner(x))
                      /\ Owner(x) = "drain" =>
                             /\ drain' = DrainStage(x)
                             /\ ~At(drain) \/ (1 = 1 /\ Owner(tail[1]) = Owner(x))
                      /\ Owner(x) \in Walks \cup {"drain", "resend"}
    OBVIOUS
  <2> QED
    BY <1>1, <1>2, <1>3, <2>1, StagedAgain
<1>5. Drafted'
  BY <1>1, <1>3 DEF Drafted
<1>6. Types'
  <2>1. WireTypes'
    BY <1>1, <1>2 DEF WireTypes, TypeOK
  <2>2. SessionTypes' /\ TextTypes' /\ SendTypes' /\ WalkTypes' /\ RelayTypes'
    BY <1>1, <1>3, SameTypes
  <2>3. Bounded'
    BY <1>1, <1>3 DEF Bounded
  <2> QED
    BY <2>1, <2>2, <2>3, TypePartsNext DEF Types
<1>7. \A x \in {} : x.t # "commit" /\ (x.t = "mark" => x.op \in Queued)
  OBVIOUS
<1> QED
  BY <1>2, <1>3, <1>4, <1>5, <1>6, <1>7, LocalStep

LEMMA RunCommitKeeps == ASSUME KeysInv, RunCommit PROVE KeysInv'
<1> DEFINE op == Head(tail).op
           saved == Head(tail).synced
           m  == [t |-> "confirm", id |-> op.id]
<1>1. /\ tail # <<>> /\ Head(tail).t = "commit"
      /\ UNCHANGED <<keyEpoch, session, keys, open, r2c, relay, bounds>>
  BY DEF RunCommit
<1>2. /\ TypeOK /\ Bounded /\ Staged /\ OneTask /\ Drafted /\ Walking /\ Fresh /\ OpsInv /\ StageInv
      /\ Acks /\ Finished /\ DistinctQueue /\ NotBehind /\ Refusals /\ Epochs /\ Covered /\ EditKept
      /\ Watched /\ ReplacedNotStored /\ OneOpPerId /\ Lawful
      /\ walk \in [Walks -> Walk] /\ tail \in Seq(Task) /\ durableQueue \in Seq(AnyOp) /\ c2r \in Seq(ClientMessage)
  BY TypedWalks DEF KeysInv, Types, StageInv, OpsInv, TypeOK, AckInv, QueueInv, RowsInv
<1>3. CASE op \notin rows
  <2>1. tail' = Tail(tail) /\ UNCHANGED <<text, sending, disk, c2r>>
    BY <1>3 DEF RunCommit
  <2> QED
    BY <1>1, <2>1, CommitPasses
<1>4. CASE op \in rows
  <2>1. /\ rows' = rows \ {op} /\ rowSynced' = saved /\ dirty' = dirty
        /\ synced' = Greater(synced, op.upTo) /\ base' = IF op.id \in captured THEN op.upTo ELSE base
        /\ captured' = captured \ {op.id} /\ durableQueue' = SubSeq(durableQueue, 2, Len(durableQueue))
        /\ c2r' = IF open THEN Append(c2r, m) ELSE c2r
        /\ Resend(durableQueue', Tail(tail))
        /\ UNCHANGED <<edits, timer, draft>>
    BY <1>4 DEF RunCommit
  <2>2. UNCHANGED <<walk, refusedAsStale, missingEpoch, stored, receipts, nextId, graphEpoch, storedAtOpen,
                    wantedEpoch, collected, opening, troubles>>
    BY <1>1 DEF keys, relay, bounds, opening, session
  <2>3. /\ 1 \in Places(tail) /\ Head(tail) = tail[1] /\ Head(tail) \in Task /\ Len(tail) \in Nat
        /\ Tail(tail) \in Seq(Task)
    BY <1>1, <1>2, FrontTask
  <2>4. op \in Op /\ saved \in 0..MaxEdits /\ Owner(tail[1]) = "resend" /\ op \in Commits
    <3>1. op \in Op /\ saved \in 0..MaxEdits
      BY <1>1, <2>3 DEF Task
    <3> QED
      BY <1>1, <2>3, <3>1 DEF Owner, Commits
  <2>5. op \in stored /\ op \in Ops /\ saved <= edits /\ 1..saved \subseteq Contents(stored)
    <3>1. op \in stored
      BY <1>2, <2>4 DEF Acks
    <3> QED
      BY <1>1, <1>2, <2>3, <3>1 DEF Covered, Ops, Out
  <2>6. m \in ClientMessage /\ m.t = "confirm" /\ m.id = op.id
    BY <2>4, NoOps DEF ClientMessage
  <2> HIDE DEF op, m, saved
  <2>7. /\ durableQueue' \in Seq(AnyOp)
        /\ \A i \in Places(durableQueue') :
              i \in Nat \ {0} /\ i + 1 \in Places(durableQueue) \ {1} /\ durableQueue'[i] = durableQueue[i + 1]
    BY <1>2, <2>1, RestOfQueue
  <2>8. Queued' \subseteq Behind /\ Behind' \subseteq Behind
    BY <2>7 DEF Queued, Behind
  <2>9. PICK X \in SUBSET Task :
           /\ Moved(tail, tail', 1, X) /\ tail' \in Seq(Task)
           /\ \/ X = {} /\ drain' = drain
              \/ X = {Mark(Head(durableQueue'), "resend")} /\ drain' = drain /\ Head(durableQueue') \in Queued'
              \/ X = {[t |-> "resume"]} /\ drain = "no" /\ drain' = "waiting"
    <3>1. CASE /\ durableQueue' # <<>> /\ Head(durableQueue') \in Op /\ drain' = drain
               /\ tail' = Append(Tail(tail), Mark(Head(durableQueue'), "resend"))
      <4>1. Mark(Head(durableQueue'), "resend") \in Task
        BY <3>1, NewTasks
      <4>2. Head(durableQueue') \in Queued'
        BY <2>7, <3>1, Front, NoOps DEF Queued
      <4>3. Moved(tail, tail', 1, {Mark(Head(durableQueue'), "resend")}) /\ tail' \in Seq(Task)
        BY <1>1, <1>2, <3>1, <4>1, FrontTask
      <4> QED
        BY <3>1, <4>1, <4>2, <4>3
    <3>2. CASE drain = "no" /\ drain' = "waiting" /\ tail' = Append(Tail(tail), [t |-> "resume"])
      <4>1. [t |-> "resume"] \in Task
        BY NewTasks
      <4>2. Moved(tail, tail', 1, {[t |-> "resume"]}) /\ tail' \in Seq(Task)
        BY <1>1, <1>2, <3>2, <4>1, FrontTask
      <4> QED
        BY <3>2, <4>1, <4>2
    <3>3. CASE drain # "no" /\ drain' = drain /\ tail' = Tail(tail)
      <4>1. Moved(tail, tail', 1, {}) /\ tail' \in Seq(Task)
        BY <1>1, <1>2, <3>3, FrontTask
      <4> QED
        BY <3>3, <4>1
    <3> QED
      BY <2>1, <2>3, <2>7, <3>1, <3>2, <3>3, Resends
  <2>10. \A x \in X : /\ x.t # "commit" /\ (x.t = "mark" => x.op \in Queued')
                      /\ Owner(x) \in {"drain", "resend"} /\ Owner(x) \notin Walks
                      /\ Owner(x) = "drain" => drain' = DrainStage(x) /\ ~At(drain)
    BY <2>9, Owners DEF At
  <2>11. Marks' \subseteq Marks \cup Queued' /\ Commits' \subseteq Commits
    <3>1. /\ Marks' \subseteq Marks \cup {x.op : x \in {y \in X : y.t = "mark"}}
          /\ Commits' \subseteq Commits \cup {x.op : x \in {y \in X : y.t = "commit"}}
      BY <2>9, TailSets
    <3> QED
      BY <2>10, <3>1
  <2>12. PICK Y \in {{}, {m}} : Moved(c2r, c2r', 0, Y) /\ c2r' \in Seq(ClientMessage)
    <3>1. CASE open
      BY <1>2, <2>1, <2>6, <3>1, MovedBy
    <3>2. CASE ~open
      BY <1>2, <2>1, <3>2, Unmoved
    <3> QED
      BY <3>1, <3>2
  <2>13. Sent' \subseteq Sent /\ Confirmed' \subseteq Confirmed \cup {op.id}
    <3>1. /\ Sent' \subseteq Sent \cup {x.op : x \in {y \in Y : y.t = "append"}}
          /\ Confirmed' \subseteq Confirmed \cup {x.id : x \in {y \in Y : y.t = "confirm"}}
      BY <2>12, SentSets
    <3>2. {x.op : x \in {y \in Y : y.t = "append"}} = {} /\ {x.id : x \in {y \in Y : y.t = "confirm"}} \subseteq {op.id}
      BY <2>6, <2>12
    <3> QED
      BY <3>1, <3>2
  <2>14. UNCHANGED <<Acked, RefusedIds, Olds, News, Drafts>> /\ Behind \subseteq Queued
    <3>1. UNCHANGED <<Acked, RefusedIds, Olds, News, Drafts>>
      BY <1>1, <2>1, <2>2, SamePlaces
    <3> QED
      BY <3>1 DEF Behind, Queued
  <2>15. Out' \subseteq Out /\ Making' = Making /\ Ops' \subseteq Ops
    BY <2>1, <2>2, <2>8, <2>11, <2>13, <2>14 DEF Out, Making, Ops
  <2>16. OpsInv'
    <3>1. /\ Ops' \subseteq Ops /\ RefusedIds' \subseteq RefusedIds \cup Ids(Ops) /\ stored \subseteq stored'
          /\ \A o \in Ops : o.upTo \in Nat
          /\ edits \in Nat /\ edits' \in Nat /\ edits <= edits'
      <4>1. edits \in Nat /\ \A o \in Ops : o.upTo \in Nat
        BY <1>2, EpochsAreNumbers
      <4>2. edits' = edits /\ stored' = stored
        BY <2>1, <2>2
      <4> QED
        BY <2>14, <2>15, <4>1, <4>2
    <3> QED
      BY <1>2, <2>2, <3>1, OpsKept
  <2>17. Fresh'
    <3>1. /\ \A o \in Out' : o \in Out \/ o \notin Making'
          /\ Making' \subseteq Making /\ News' \subseteq News /\ Drafts' \subseteq Drafts
          /\ RefusedIds' \subseteq RefusedIds \cup Ids(Sent)
          /\ \A v \in Walks : walk'[v].new \in {walk[v].new, NoOp}
      BY <2>2, <2>14, <2>15
    <3> QED
      BY <1>2, <3>1, FreshKept
  <2>18. Acks'
    BY <1>2, <2>2, <2>5, <2>11, <2>13, <2>14 DEF Acks, Ids
  <2>19. Finished'
    <3>1. ASSUME NEW o \in stored', o.id \notin receipts' \/ o.id \in Confirmed'
          PROVE  o \notin rows' \cup Queued'
      <4>1. CASE o.id = op.id
        <5>1. o = op
          BY <1>2, <2>2, <2>5, <4>1 DEF OneOpPerId, Ops, Out
        <5>2. op \notin Behind
          BY <1>2, <2>4 DEF NotBehind
        <5> QED
          BY <2>1, <2>8, <5>1, <5>2
      <4>2. CASE o.id # op.id
        <5>1. o \in stored /\ (o.id \notin receipts \/ o.id \in Confirmed)
          BY <2>2, <2>13, <3>1, <4>2
        <5>2. o \notin rows \cup Queued
          BY <1>2, <5>1 DEF Finished
        <5> QED
          BY <2>1, <2>8, <2>14, <5>2
      <4> QED
        BY <4>1, <4>2
    <3>2. ASSUME NEW i \in Places(c2r'), c2r'[i].t = "append", c2r'[i].op \in stored'
          PROVE  /\ c2r'[i].op.id \in receipts'
                 /\ \A j \in 1..(i - 1) : c2r'[j].t = "confirm" => c2r'[j].id # c2r'[i].op.id
      <4>1. Len(c2r) \in Nat /\ i \in Nat \ {0} /\ i + 0 = i
        BY <1>2, <2>12, Front
      <4>2. c2r'[i] \notin Y
        BY <2>6, <2>12, <3>2
      <4>3. i \in Places(c2r) /\ c2r'[i] = c2r[i]
        BY <2>12, <4>1, <4>2 DEF Moved
      <4>4. /\ c2r[i].op.id \in receipts
            /\ \A j \in 1..(i - 1) : c2r[j].t = "confirm" => c2r[j].id # c2r[i].op.id
        BY <1>2, <2>2, <3>2, <4>3 DEF Finished
      <4>5. ASSUME NEW j \in 1..(i - 1) PROVE c2r'[j] = c2r[j]
        <5>1. j \in Places(c2r') /\ j + 0 = j /\ j # Len(c2r) + 1
          BY <4>1, <4>3 DEF Places
        <5> QED
          BY <2>12, <5>1 DEF Moved
      <4> QED
        BY <2>2, <4>3, <4>4, <4>5
    <3> QED
      BY <3>1, <3>2 DEF Finished
  <2>20. DistinctQueue'
    <3>1. ASSUME NEW i \in Places(durableQueue'), NEW j \in Places(durableQueue'),
                 durableQueue'[i] = durableQueue'[j], durableQueue'[i] # NoOp
          PROVE  i = j
      <4>1. /\ i + 1 \in Places(durableQueue) /\ durableQueue'[i] = durableQueue[i + 1] /\ i \in Nat
            /\ j + 1 \in Places(durableQueue) /\ durableQueue'[j] = durableQueue[j + 1] /\ j \in Nat
        BY <2>7
      <4>2. i + 1 = j + 1
        BY <1>2, <3>1, <4>1 DEF DistinctQueue
      <4> QED
        BY <4>1, <4>2
    <3> QED
      BY <3>1 DEF DistinctQueue
  <2>21. NotBehind'
    BY <1>2, <2>2, <2>8, <2>11, <2>13, <2>14 DEF NotBehind, Ids
  <2>22. Refusals' /\ Epochs'
    BY <1>1, <1>2, <2>2, <2>15 DEF Refusals, Epochs
  <2>23. op.upTo \in 1..MaxEdits /\ op.from \in Nat /\ op.upTo \in Nat /\ 1..op.upTo \subseteq Contents(stored)
         /\ op.upTo <= edits /\ synced \in 0..edits /\ synced \in 0..MaxEdits /\ edits \in Nat /\ MaxEdits \in Nat
         /\ 1..synced \subseteq Contents(stored) /\ base \in 0..edits /\ base \in 0..MaxEdits
    <3>1. op.upTo \in 1..MaxEdits /\ op.from \in 0..MaxEdits /\ MaxEdits \in Nat
      BY <2>4, KeyEpochsAssumption DEF Op
    <3>2. 1..op.upTo \subseteq Contents(stored) /\ op.upTo <= edits
      BY <1>2, <2>5, <3>1, Covers
    <3>3. synced \in 0..edits /\ synced \in 0..MaxEdits /\ base \in 0..edits /\ base \in 0..MaxEdits /\ edits \in 0..MaxEdits
      BY <1>2 DEF Bounded, TypeOK
    <3>4. 1..synced \subseteq Contents(stored)
      BY <1>2 DEF Covered
    <3> QED
      BY <3>1, <3>2, <3>3, <3>4
  <2>24. /\ synced' \in 0..edits /\ synced' \in 0..MaxEdits /\ 1..synced' \subseteq Contents(stored)
         /\ base' \in 0..edits /\ base' \in 0..MaxEdits /\ rowSynced' \in 0..edits /\ rowSynced' \in 0..MaxEdits
    <3>1. synced' = synced \/ synced' = op.upTo
      BY <2>1 DEF Greater
    <3>2. base' = base \/ base' = op.upTo
      BY <2>1
    <3>3. op.upTo \in 0..edits /\ op.upTo \in 0..MaxEdits
      BY <2>23
    <3>4. rowSynced' \in 0..edits /\ rowSynced' \in 0..MaxEdits
      BY <2>1, <2>4, <2>5, <2>23
    <3> QED
      BY <2>23, <3>1, <3>2, <3>3, <3>4
  <2>25. Contents(stored)' = Contents(stored) /\ Contents(rows) \subseteq Contents(rows') \cup Contents(stored)
    <3>1. Contents(stored)' = Contents(stored)
      BY <2>2 DEF Contents
    <3>2. Contents(rows) \subseteq Contents(rows') \cup Contents(stored)
      BY <2>1, <2>5 DEF Contents
    <3> QED
      BY <3>1, <3>2
  <2>26. RowsInv'
    <3>1. \A i \in Places(tail') : tail'[i].t = "commit" => \E j \in Places(tail) : tail'[i] = tail[j]
      BY <2>9, <2>10 DEF Moved
    <3>2. \A i \in Places(tail') : tail'[i].t = "commit" =>
             tail'[i].synced <= edits' /\ 1..tail'[i].synced \subseteq Contents(stored)'
      BY <1>2, <2>1, <2>25, <3>1 DEF Covered
    <3>3. 1..synced' \cup 1..rowSynced' \subseteq Contents(stored)'
      BY <2>1, <2>5, <2>24, <2>25
    <3>4. Covered'
      BY <3>2, <3>3 DEF Covered
    <3>5. Contents(rows)' = Contents(rows')
      BY DEF Contents
    <3>6. EditKept'
      BY <1>2, <2>1, <2>25, <3>5 DEF EditKept
    <3> QED
      BY <3>4, <3>6 DEF RowsInv
  <2>27. Watched'
    <3>1. ASSUME RefusedHead' PROVE FALSE
      <4>1. durableQueue' # <<>> /\ Head(durableQueue').id \in refusedAsStale
        BY <2>2, <3>1 DEF RefusedHead
      <4>2. 1 \in Places(durableQueue') /\ Head(durableQueue') = durableQueue'[1]
        BY <2>7, <4>1, Front
      <4>3. Head(durableQueue') # NoOp
        BY <1>2, <4>1, GapNotRefused
      <4>4. Head(durableQueue') \in Behind
        BY <2>8, <4>2, <4>3 DEF Queued
      <4> QED
        BY <1>2, <4>1, <4>4 DEF NotBehind, Ids, RefusedIds
    <3> QED
      BY <1>1, <1>2, <2>2, <3>1, WatchedKept
  <2>28. ReplacedNotStored'
    BY <1>2, <2>2 DEF ReplacedNotStored
  <2>29. Staged' /\ OneTask'
    <3>1. \A v \in Walks : walk'[v].pc = walk[v].pc
      BY <2>2
    <3>2. drain' = drain \/ ~At(drain)
      BY <2>9 DEF At
    <3> QED
      BY <1>2, <2>3, <2>9, <2>10, <3>1, <3>2, StagedAgain
  <2>30. Drafted' /\ Walking'
    <3>1. draft = NoOp \/ drain \in {"sealing", "storing"}
      BY <1>2 DEF Drafted
    <3>2. Drafted'
      BY <1>2, <2>1, <2>9 DEF Drafted
    <3>3. \A v \in Walks : walk[v].pc = "discarding" => walk[v].new \in rows'
      <4>1. ASSUME NEW v \in Walks, walk[v].pc = "discarding" PROVE walk[v].new # op
        <5>1. walk[v].new # NoOp
          BY <1>2, <4>1 DEF Walking
        <5>2. walk[v].new \in Making
          BY <5>1 DEF Making, News
        <5> QED
          BY <1>2, <2>5, <5>2 DEF Fresh, Out
      <4> QED
        BY <1>2, <2>1, <4>1 DEF Walking
    <3>4. Walking'
      BY <1>1, <1>2, <2>2, <3>3 DEF Walking
    <3> QED
      BY <3>2, <3>4
  <2>31. Types'
    <3>1. WireTypes'
      BY <1>1, <1>2, <2>9, <2>12 DEF WireTypes, TypeOK
    <3>2. SendTypes'
      <4>1. captured \subseteq 1..MaxOps /\ rows \subseteq Op /\ draft \in AnyOp
            /\ drain \in {"no", "waiting", "sealing", "storing", "marking"}
        BY <1>2 DEF TypeOK
      <4> QED
        BY <2>1, <2>7, <2>9, <4>1 DEF SendTypes
    <3>3. TextTypes'
      <4>1. edits \in 0..MaxEdits /\ dirty \subseteq 1..MaxEdits /\ timer \in BOOLEAN
        BY <1>2 DEF TypeOK
      <4> QED
        BY <2>1, <2>24, <4>1 DEF TextTypes
    <3>4. SessionTypes' /\ WalkTypes' /\ RelayTypes'
      BY <1>1, <1>2, <2>2, SameTypes
    <3>5. Bounded'
      BY <2>1, <2>24 DEF Bounded
    <3> QED
      BY <3>1, <3>2, <3>3, <3>4, <3>5, TypePartsNext DEF Types
  <2> QED
    BY <2>16, <2>17, <2>18, <2>19, <2>20, <2>21, <2>22, <2>26, <2>27, <2>28, <2>29, <2>30, <2>31
    DEF KeysInv, StageInv, AckInv, QueueInv
<1> QED
  BY <1>3, <1>4

-----------------------------------------------------------------------------
(* The resealed operation takes a place in the queue, and the walk goes on. *)

LEMMA PutQueue ==
    ASSUME NEW q \in Seq(AnyOp), NEW index \in Nat \ {0}, NEW op \in AnyOp
    PROVE  LET put == Put(q, index, op) IN
           /\ put \in Seq(AnyOp) /\ put # <<>> /\ index \in Places(put) /\ put[index] = op
           /\ \A i \in Places(put) : /\ i \in Nat \ {0}
                                     /\ \/ i = index /\ put[i] = op
                                        \/ i # index /\ i \in Places(q) /\ put[i] = q[i]
                                        \/ i # index /\ i \notin Places(q) /\ put[i] = NoOp
<1> DEFINE put == Put(q, index, op)
           n == Greater(index, Len(q))
<1>1. Len(q) \in Nat /\ \A i \in 1..Len(q) : q[i] \in AnyOp
  BY LenProperties
<1>2. n \in Nat \ {0} /\ index \in 1..n /\ Len(q) <= n
  BY <1>1 DEF Greater
<1>3. put = [j \in 1..n |-> IF j = index THEN op ELSE IF j <= Len(q) THEN q[j] ELSE NoOp]
  BY DEF Put
<1> HIDE DEF n
<1>4. \A j \in 1..n : /\ j \in Nat \ {0} /\ put[j] \in AnyOp
                      /\ j = index => put[j] = op
                      /\ j # index /\ j \in 1..Len(q) => put[j] = q[j]
                      /\ j # index /\ j \notin 1..Len(q) => put[j] = NoOp
  <2>1. \A j \in 1..n : j <= Len(q) <=> j \in 1..Len(q)
    BY <1>1, <1>2
  <2>2. \A j \in 1..n : j \in Nat \ {0}
    BY <1>2
  <2> QED
    BY <1>1, <1>3, <2>1, <2>2, NoOps
<1>5. put \in [1..n -> AnyOp]
  BY <1>3, <1>4
<1>6. put \in Seq(AnyOp) /\ Len(put) = n
  BY <1>2, <1>5
<1>7. put # <<>>
  BY <1>2, <1>6, EmptySeq
<1> QED
  BY <1>2, <1>4, <1>6, <1>7 DEF Places

LEMMA RunDiscardKeeps == ASSUME KeysInv, RunDiscard PROVE KeysInv'
<1> DEFINE w     == Head(tail).by
           old   == walk[w].old
           new   == walk[w].new
           index == walk[w].index
           queue == Put(durableQueue, index, new)
           left  == refusedAsStale \ {old.id}
           was   == [walk[w] EXCEPT !.headReplaced = HeadReplaced(w)]
           on    == WalkOn(was, queue, left, index + 1)
           mark  == Mark(Head(queue), w)
<1>1. /\ tail # <<>> /\ Head(tail).t = "discard"
      /\ rows' = rows \ {old} /\ refusedAsStale' = left /\ durableQueue' = queue
      /\ captured' = IF old.id \in captured THEN (captured \ {old.id}) \cup {new.id} ELSE captured
      /\ walk' = [walk EXCEPT ![w] = on]
      /\ tail' = IF on.pc = "marking" THEN Append(Tail(tail), mark) ELSE Tail(tail)
      /\ missingEpoch' = IF on = Idle THEN AskAgain(missingEpoch, keyEpoch) ELSE missingEpoch
      /\ UNCHANGED <<keyEpoch, session, text, drain, draft, dirty, rowSynced, wire, relay, bounds>>
  BY DEF RunDiscard, RowsAfter, Mark
<1>2. /\ TypeOK /\ Bounded /\ Staged /\ OneTask /\ Drafted /\ Walking /\ Fresh /\ OpsInv /\ StageInv
      /\ Acks /\ Finished /\ DistinctQueue /\ NotBehind /\ Refusals /\ Epochs /\ Covered /\ EditKept
      /\ Watched /\ ReplacedNotStored
      /\ walk \in [Walks -> Walk] /\ tail \in Seq(Task) /\ durableQueue \in Seq(AnyOp)
  BY TypedWalks DEF KeysInv, Types, StageInv, OpsInv, TypeOK, AckInv, QueueInv, RowsInv
<1>3. UNCHANGED <<open, c2r, r2c, edits, synced, base, timer, stored, receipts, nextId, graphEpoch,
                  storedAtOpen, wantedEpoch, collected>>
  BY <1>1 DEF wire, text, relay, bounds, opening, session
<1>4. 1 \in Places(tail) /\ Head(tail) = tail[1] /\ Head(tail) \in Task /\ Len(tail) \in Nat
  BY <1>1, <1>2, FrontTask
<1>5. w \in Walks /\ Owner(tail[1]) = w /\ walk[w].pc = "discarding"
  <2>1. w \in Walks
    BY <1>1, <1>4 DEF Task
  <2>2. Owner(tail[1]) = w /\ WalkStage(tail[1]) = "discarding"
    BY <1>1, <1>4 DEF Owner, WalkStage
  <2> QED
    BY <1>2, <1>4, <2>1, <2>2 DEF Staged
<1>6. /\ new # NoOp /\ old # NoOp /\ new \in rows /\ Content(new) = Content(old)
      /\ walk[w].epoch <= keyEpoch /\ index \in Nat \ {0}
  <2>1. index \in Nat
    BY <1>2, <1>5 DEF Walk
  <2> QED
    BY <1>2, <1>5, <2>1 DEF Walking
<1>7. new \in Op /\ old \in Op /\ new \in AnyOp /\ old \in Out /\ new \in News /\ new.id \in 1..MaxOps
  <2>1. new \in AnyOp /\ old \in AnyOp
    BY <1>2, <1>5 DEF Walk
  <2> QED
    BY <1>5, <1>6, <2>1, NoOps DEF AnyOp, Out, Olds, News
<1>8. new \in Making /\ new \in Ops /\ new \notin Out /\ new.id \notin RefusedIds /\ new \notin Drafts /\ new # old
  BY <1>2, <1>7 DEF Making, Ops, Fresh, Ids
<1>9. /\ queue \in Seq(AnyOp) /\ queue # <<>> /\ index \in Places(queue) /\ queue[index] = new
      /\ \A i \in Places(queue) : /\ i \in Nat \ {0}
                                  /\ \/ i = index /\ queue[i] = new
                                     \/ i # index /\ i \in Places(durableQueue) /\ queue[i] = durableQueue[i]
                                     \/ i # index /\ i \notin Places(durableQueue) /\ queue[i] = NoOp
  <2>1. durableQueue \in Seq(AnyOp) /\ index \in Nat \ {0} /\ new \in AnyOp
    BY <1>2, <1>6, <1>7
  <2> HIDE DEF index, new
  <2> QED
    BY <2>1, PutQueue
<1>10. was \in Walk /\ was.epoch = walk[w].epoch
  <2>1. walk[w] \in Walk
    BY <1>2, <1>5
  <2>2. HeadReplaced(w) \in BOOLEAN
    BY <2>1 DEF HeadReplaced, Walk
  <2> QED
    BY <2>1, <2>2 DEF Walk
<1> HIDE DEF queue, was, left, w
<1>11. /\ on \in Walk
       /\ \/ on = Idle
          \/ Picked(on, walk[w].epoch, queue, left, index + 1)
          \/ Sends(on, walk[w].epoch, queue)
  <2>1. index + 1 \in Nat \ {0}
    BY <1>6
  <2>2. /\ on \in Walk
        /\ \/ on = Idle
           \/ Picked(on, was.epoch, queue, left, index + 1)
           \/ Sends(on, was.epoch, queue) /\ was.headReplaced
    BY <1>9, <1>10, <2>1, WalksOn
  <2> QED
    BY <1>10, <2>2
<1> HIDE DEF on, old, new, index
<1>12. on.old # NoOp =>
         /\ on.pc = "sealing" /\ on.old \in Behind /\ on.index > 1 /\ on.index # 0
         /\ on.old.epoch < on.epoch
  <2>1. ASSUME Picked(on, walk[w].epoch, queue, left, index + 1)
        PROVE  on.old \in Behind /\ on.index > 1 /\ on.index # 0
    <3>1. Len(queue) \in Nat /\ on.index \in (index + 1)..Len(queue)
      BY <1>9, <2>1, Front DEF Picked
    <3>2. on.index \in Places(queue) /\ on.index # index /\ on.index > 1 /\ on.index # 1 /\ on.index # 0
      BY <1>6, <3>1 DEF Places
    <3>3. on.old = durableQueue[on.index] /\ on.index \in Places(durableQueue) /\ on.old # NoOp
      BY <1>9, <2>1, <3>2 DEF Picked
    <3> QED
      BY <3>2, <3>3 DEF Behind
  <2>2. Picked(on, walk[w].epoch, queue, left, index + 1) => on.pc = "sealing" /\ on.old.epoch < on.epoch
    BY DEF Picked
  <2> QED
    BY <1>11, <2>1, <2>2, Idles DEF Sends
<1>13. /\ on.new = NoOp /\ on.epoch \in {0, walk[w].epoch} /\ on.pc \in {"idle", "sealing", "marking"}
       /\ on.old # NoOp <=> on.pc = "sealing"
       /\ on.pc = "marking" => Head(queue) # NoOp
  BY <1>11, Idles DEF Picked, Sends
<1>14. /\ walk' \in [Walks -> Walk] /\ walk'[w] = on /\ \A v \in Walks \ {w} : walk'[v] = walk[v]
  BY <1>1, <1>2, <1>5, <1>11
<1>15. PICK X \in {{}, {mark}} :
           /\ Moved(tail, tail', 1, X) /\ tail' \in Seq(Task)
           /\ X # {} => on.pc = "marking" /\ Head(queue) \in Op
  <2>1. CASE on.pc = "marking"
    <3>1. Head(queue) \in Op
      BY <1>9, <1>13, <2>1, Front DEF AnyOp
    <3>2. mark \in Task
      BY <1>5, <3>1, NewTasks
    <3> QED
      BY <1>1, <1>2, <2>1, <3>1, <3>2, FrontTask
  <2>2. CASE on.pc # "marking"
    BY <1>1, <1>2, <2>2, FrontTask
  <2> QED
    BY <2>1, <2>2
<1>16. mark.t = "mark" /\ mark.op = Head(queue) /\ Owner(mark) = w /\ WalkStage(mark) = "marking"
       /\ w # "drain" /\ w # "resend"
  BY <1>5, Owners
<1> HIDE DEF mark
<1>17. Queued' \subseteq Queued \cup {new} /\ Behind' \subseteq Behind \cup {new} /\ Behind \subseteq Queued
  BY <1>1, <1>9 DEF Queued, Behind
<1>18. X # {} => Head(queue) \in Queued'
  <2>1. 1 \in Places(queue) /\ Head(queue) = queue[1]
    BY <1>9, Front
  <2> QED
    BY <1>1, <1>13, <1>15, <2>1 DEF Queued
<1>19. Marks' \subseteq Marks \cup Queued' /\ Commits' \subseteq Commits
  <2>1. /\ Marks' \subseteq Marks \cup {x.op : x \in {y \in X : y.t = "mark"}}
        /\ Commits' \subseteq Commits \cup {x.op : x \in {y \in X : y.t = "commit"}}
    BY <1>15, TailSets
  <2>2. {x.op : x \in {y \in X : y.t = "mark"}} \subseteq Queued'
    BY <1>15, <1>16, <1>18
  <2>3. {x.op : x \in {y \in X : y.t = "commit"}} = {}
    BY <1>15, <1>16
  <2> QED
    BY <2>1, <2>2, <2>3
<1>20. UNCHANGED <<Sent, Confirmed, Acked, Drafts>> /\ RefusedIds' \subseteq RefusedIds
       /\ refusedAsStale' \subseteq refusedAsStale /\ refusedAsStale' \subseteq RefusedIds
  <2>1. UNCHANGED <<Sent, Confirmed, Acked, Drafts>>
    BY <1>1, <1>3, SamePlaces
  <2>2. refusedAsStale' \subseteq refusedAsStale
    BY <1>1 DEF left
  <2> QED
    BY <1>3, <2>1, <2>2 DEF RefusedIds
<1>21. Olds' \subseteq Olds \cup Queued /\ News' \subseteq News \ {new}
  <2>1. Olds' \subseteq Olds \cup Queued
    BY <1>12, <1>14, <1>17 DEF Olds
  <2>2. ASSUME NEW v \in Walks, walk'[v].new # NoOp
        PROVE  walk'[v].new \in News /\ walk'[v].new # new
    <3>1. v # w
      BY <1>13, <1>14, <2>2
    <3>2. walk'[v].new = walk[v].new /\ walk[v].new \in News
      BY <1>14, <2>2, <3>1 DEF News
    <3>3. walk[v].new # new
      <4>1. \A u \in Walks : walk[u].new = walk[w].new /\ walk[u].new # NoOp => u = w
        BY <1>2, <1>5 DEF Fresh
      <4> QED
        BY <2>2, <3>1, <3>2, <4>1 DEF new
    <3> QED
      BY <3>2, <3>3
  <2>3. News' \subseteq News \ {new}
    BY <2>2 DEF News
  <2> QED
    BY <2>1, <2>3
<1>22. Out' \subseteq Out \cup {new} /\ Making' \subseteq Making \ {new} /\ Ops' \subseteq Ops
  <2>1. Out' \subseteq Out \cup {new}
    BY <1>3, <1>17, <1>19, <1>20, <1>21 DEF Out
  <2>2. Making' \subseteq Making \ {new}
    BY <1>8, <1>20, <1>21 DEF Making
  <2>3. rows' \subseteq rows
    BY <1>1
  <2> QED
    BY <1>8, <2>1, <2>2, <2>3 DEF Ops
<1>23. OpsInv'
  <2>1. /\ Ops' \subseteq Ops /\ RefusedIds' \subseteq RefusedIds \cup Ids(Ops) /\ stored \subseteq stored'
        /\ \A o \in Ops : o.upTo \in Nat
        /\ edits \in Nat /\ edits' \in Nat /\ edits <= edits'
    BY <1>2, <1>3, <1>20, <1>22, EpochsAreNumbers
  <2> QED
    BY <1>2, <1>3, <2>1, OpsKept
<1>24. Fresh'
  <2>1. /\ \A o \in Out' : o \in Out \/ o \notin Making'
        /\ Making' \subseteq Making /\ News' \subseteq News /\ Drafts' \subseteq Drafts
        /\ RefusedIds' \subseteq RefusedIds \cup Ids(Sent)
    BY <1>20, <1>21, <1>22
  <2>2. \A v \in Walks : walk'[v].new \in {walk[v].new, NoOp}
    BY <1>13, <1>14
  <2>3. OneOpPerId
    BY <1>2 DEF OpsInv
  <2> QED
    BY <1>2, <2>1, <2>2, <2>3, FreshKept
<1>25. AckInv'
  <2>1. Acks'
    BY <1>2, <1>3, <1>19, <1>20 DEF Acks
  <2>2. new \notin stored
    BY <1>8 DEF Out
  <2>3. Finished'
    BY <1>1, <1>2, <1>3, <1>17, <1>20, <2>2 DEF Finished
  <2> QED
    BY <2>1, <2>3 DEF AckInv
<1>26. QueueInv'
  <2>1. DistinctQueue'
    <3>1. \A i \in Places(durableQueue) : durableQueue[i] # new
      BY <1>6, <1>8 DEF Out, Queued
    <3>2. ASSUME NEW i \in Places(queue), NEW j \in Places(queue), queue[i] = queue[j], queue[i] # NoOp
          PROVE  i = j
      BY <1>2, <1>9, <3>1, <3>2 DEF DistinctQueue
    <3> QED
      BY <1>1, <3>2 DEF DistinctQueue
  <2>2. new \notin Sent \cup Commits /\ new \notin stored
    BY <1>8 DEF Out
  <2>3. NotBehind'
    BY <1>2, <1>3, <1>8, <1>17, <1>19, <1>20, <2>2 DEF NotBehind, Ids
  <2> QED
    BY <2>1, <2>3 DEF QueueInv
<1>27. Refusals' /\ Epochs'
  BY <1>1, <1>2, <1>3, <1>20, <1>22 DEF Refusals, Epochs
<1>28. RowsInv'
  <2>1. \A i \in Places(tail') : tail'[i].t = "commit" => \E j \in Places(tail) : tail'[i] = tail[j]
    BY <1>15, <1>16 DEF Moved
  <2>2. Covered'
    BY <1>1, <1>2, <1>3, <2>1 DEF Covered, Contents
  <2>3. Contents(rows) \subseteq Contents(rows')
    BY <1>1, <1>6, <1>8 DEF Contents
  <2>4. EditKept'
    BY <1>1, <1>2, <1>3, <2>3 DEF EditKept, Contents
  <2> QED
    BY <2>2, <2>4 DEF RowsInv
<1>29. Watched'
  <2>1. ASSUME RefusedHead'
        PROVE  /\ RefusedHead /\ Head(durableQueue') = Head(durableQueue)
               /\ \A v \in Walks : walk[v].old = Head(durableQueue) => walk'[v].old = walk[v].old
    <3>1. Head(queue).id \in left /\ left \subseteq refusedAsStale /\ old.id \notin left
      BY <1>1, <2>1 DEF RefusedHead, left
    <3>2. 1 \in Places(queue) /\ Head(queue) = queue[1]
      BY <1>9, Front
    <3>3. queue[1] # new
      BY <1>1, <1>8, <1>20, <3>1, <3>2
    <3>4. queue[1] # NoOp
      BY <1>2, <3>1, <3>2, GapNotRefused
    <3>5. 1 \in Places(durableQueue) /\ queue[1] = durableQueue[1]
      BY <1>9, <3>2, <3>3, <3>4
    <3>6. durableQueue # <<>>
      BY <3>5 DEF Places
    <3>7. Head(durableQueue) = durableQueue[1]
      BY <1>2, <3>6, Front
    <3>8. RefusedHead /\ Head(durableQueue') = Head(durableQueue)
      BY <1>1, <3>1, <3>2, <3>5, <3>6, <3>7 DEF RefusedHead
    <3>9. walk[w].old # Head(durableQueue)
      BY <3>1, <3>2, <3>5, <3>7 DEF old
    <3> QED
      BY <1>14, <3>8, <3>9
  <2>2. missingEpoch' \in {0, missingEpoch}
    BY <1>1, AsksAgain
  <2> QED
    BY <1>1, <1>2, <2>1, <2>2, WatchedKept
<1>30. ReplacedNotStored'
  <2>1. on.old \in stored => on.index > 1 /\ on.old \in storedAtOpen
    <3>1. on.old \in stored => on.old # NoOp
      BY <1>2, NoOps DEF TypeOK
    <3> QED
      BY <1>2, <1>12, <3>1 DEF NotBehind
  <2> QED
    BY <1>2, <1>3, <1>14, <2>1 DEF ReplacedNotStored
<1>31. Staged' /\ OneTask'
  <2>1. \A v \in Walks : walk'[v].pc = walk[v].pc \/ Owner(tail[1]) = v
    BY <1>5, <1>14
  <2>2. \A x \in X : Owner(x) = w /\ WalkStage(x) = "marking" /\ walk'[w].pc = "marking"
    BY <1>14, <1>15, <1>16
  <2> QED
    BY <1>1, <1>2, <1>4, <1>5, <1>15, <1>16, <2>1, <2>2, StagedAgain
<1>32. Drafted' /\ Walking'
  <2>1. Drafted'
    BY <1>1, <1>2 DEF Drafted
  <2>2. ASSUME NEW v \in Walks \ {w}, walk[v].pc = "discarding" PROVE walk[v].new \in rows'
    <3>1. walk[v].new # NoOp /\ walk[v].new \in rows
      BY <1>2, <2>2 DEF Walking
    <3>2. walk[v].new \in Making
      BY <3>1 DEF Making, News
    <3>3. walk[v].new # old
      BY <1>2, <1>7, <3>2 DEF Fresh
    <3> QED
      BY <1>1, <3>1, <3>3
  <2>3. ASSUME NEW v \in Walks \ {w}
        PROVE  /\ walk'[v].old # NoOp <=> walk'[v].pc \in {"sealing", "storing", "discarding"}
               /\ walk'[v].new # NoOp <=> walk'[v].pc \in {"storing", "discarding"}
               /\ walk'[v].old # NoOp => walk'[v].index # 0 /\ walk'[v].old.epoch < walk'[v].epoch
               /\ walk'[v].new # NoOp => Content(walk'[v].new) = Content(walk'[v].old)
               /\ walk'[v].new # NoOp => walk'[v].new.from = walk'[v].old.from
               /\ walk'[v].pc = "discarding" => walk'[v].new \in rows'
               /\ walk'[v].epoch <= keyEpoch'
    BY <1>1, <1>2, <1>14, <2>2 DEF Walking
  <2>4. on.epoch <= keyEpoch'
    <3>1. on.epoch = walk[w].epoch \/ on.epoch = 0
      BY <1>13
    <3>2. keyEpoch \in Nat
      BY <1>2, EpochsAreNumbers
    <3> QED
      BY <1>1, <1>6, <3>1, <3>2
  <2>5. Walking'
    BY <1>12, <1>13, <1>14, <2>3, <2>4 DEF Walking
  <2> QED
    BY <2>1, <2>5
<1>33. Types'
  <2>1. WalkTypes'
    BY <1>2, <1>14, <1>20 DEF WalkTypes, TypeOK
  <2>2. WireTypes'
    BY <1>2, <1>3, <1>15 DEF WireTypes, TypeOK
  <2>3. SendTypes'
    <3>1. captured \subseteq 1..MaxOps /\ rows \subseteq Op /\ draft \in AnyOp
          /\ drain \in {"no", "waiting", "sealing", "storing", "marking"}
      BY <1>2 DEF TypeOK
    <3> QED
      BY <1>1, <1>7, <1>9, <3>1 DEF SendTypes
  <2>4. SessionTypes'
    <3>1. SessionTypes /\ missingEpoch \in 0..MaxEpoch /\ 0 \in 0..MaxEpoch
      BY <1>2, TypeParts, InRange
    <3>2. missingEpoch' \in {0, missingEpoch}
      BY <1>1, AsksAgain
    <3> QED
      BY <1>1, <3>1, <3>2 DEF SessionTypes, session
  <2>5. TextTypes' /\ RelayTypes'
    BY <1>1, <1>2, <1>3, SameTypes
  <2>6. Bounded'
    BY <1>1, <1>2, <1>3 DEF Bounded
  <2> QED
    BY <2>1, <2>2, <2>3, <2>4, <2>5, <2>6, TypePartsNext DEF Types
<1> QED
  BY <1>23, <1>24, <1>25, <1>26, <1>27, <1>28, <1>29, <1>30, <1>31, <1>32, <1>33 DEF KeysInv, StageInv

-----------------------------------------------------------------------------
(* The tab dies and the document is opened again.                          *)

\* A state in which nothing is under way but what is at rest and at the relay.
LEMMA AtRest ==
    ASSUME tail = <<>>, c2r = <<>>, r2c = <<>>, draft = NoOp, walk = [w \in Walks |-> Idle]
    PROVE  /\ Marks = {} /\ Commits = {} /\ Sent = {} /\ Olds = {} /\ News = {} /\ Drafts = {}
           /\ Confirmed = {} /\ Acked = {} /\ RefusedIds = refusedAsStale
           /\ Places(tail) = {} /\ Places(c2r) = {} /\ Places(r2c) = {}
           /\ Making = {} /\ Out = stored \cup Queued /\ Ops = rows \cup stored \cup Queued
           /\ Staged /\ OneTask
<1>1. Places(tail) = {} /\ Places(c2r) = {} /\ Places(r2c) = {}
  BY DEF Places
<1>2. /\ Marks = {} /\ Commits = {} /\ Sent = {}
      /\ Confirmed = {} /\ Acked = {} /\ RefusedIds = refusedAsStale
  BY <1>1 DEF Marks, Commits, Sent, Confirmed, Acked, RefusedIds
<1>3. \A w \in Walks : walk[w].old = NoOp /\ walk[w].new = NoOp
  BY Idles
<1>4. Olds = {} /\ News = {} /\ Drafts = {}
  BY <1>3 DEF Olds, News, Drafts
<1>5. Making = {} /\ Out = stored \cup Queued /\ Ops = rows \cup stored \cup Queued
  BY <1>2, <1>4 DEF Making, Out, Ops
<1>6. Staged /\ OneTask
  BY <1>1 DEF Staged, OneTask
<1> QED
  BY <1>1, <1>2, <1>4, <1>5, <1>6

LEMMA AtRestNext ==
    (/\ tail = <<>> /\ c2r = <<>> /\ r2c = <<>> /\ draft = NoOp /\ walk = [w \in Walks |-> Idle])'
    => (/\ Marks = {} /\ Commits = {} /\ Sent = {} /\ Olds = {} /\ News = {} /\ Drafts = {}
        /\ Confirmed = {} /\ Acked = {} /\ RefusedIds = refusedAsStale
        /\ Places(tail) = {} /\ Places(c2r) = {} /\ Places(r2c) = {}
        /\ Making = {} /\ Out = stored \cup Queued /\ Ops = rows \cup stored \cup Queued
        /\ Staged /\ OneTask)'
BY AtRest, PTL

LEMMA IdleWalks ==
    ASSUME NEW walks, walks = [w \in Walks |-> Idle], keyEpoch \in Nat
    PROVE  /\ walks \in [Walks -> Walk]
           /\ \A w \in Walks : /\ walks[w].old = NoOp /\ walks[w].new = NoOp /\ walks[w].pc = "idle"
                               /\ walks[w].epoch <= keyEpoch
BY Idles

\* The outbox at rest is finite: no two of its operations share an id.
LEMMA FiniteRows ==
    ASSUME TypeOK, OneOpPerId
    PROVE  IsFiniteSet(rows) /\ Cardinality(rows) \in Nat
<1> DEFINE idOf == [op \in rows |-> op.id]
<1>1. IsFiniteSet(1..MaxOps)
  BY KeyEpochsAssumption, FS_Interval
<1>2. idOf \in [rows -> 1..MaxOps]
  BY NoOps DEF TypeOK
<1>3. \A a, b \in rows : idOf[a] = idOf[b] => a = b
  BY DEF OneOpPerId, Ops
<1>4. idOf \in Injection(rows, 1..MaxOps)
  BY <1>2, <1>3 DEF Injection, IsInjective
<1>5. IsFiniteSet(rows)
  BY <1>1, <1>4, FS_Injection
<1> QED
  BY <1>5, FS_CardinalityType

LEMMA RestartKeeps == ASSUME KeysInv, Restart PROVE KeysInv'
<1>1. /\ troubles < MaxTroubles /\ troubles' = troubles + 1
      /\ wantedEpoch' = 0 /\ waitingForKey' = 0 /\ refreshing' = "no" /\ collected' = 0
      /\ recent' = FALSE /\ keyRetryTimer' = FALSE
      /\ synced' = rowSynced /\ timer' = FALSE /\ UNCHANGED edits
      /\ base' = IF rows # {} \/ dirty # {} THEN 0 ELSE edits
      /\ drain' = "no" /\ draft' = NoOp /\ captured' = {}
      /\ refusedAsStale' = {} /\ missingEpoch' = 0 /\ walk' = [w \in Walks |-> Idle] /\ tail' = <<>>
      /\ open' = FALSE /\ c2r' = <<>> /\ r2c' = <<>>
      /\ storedAtOpen' = stored
      /\ UNCHANGED <<keyEpoch, disk, relay, nextId>>
  BY DEF Restart
<1>2. PICK order \in {"rising", "falling"} :
         /\ idOrder' = IF Cardinality(rows) > 1 THEN order ELSE idOrder
         /\ \E queue \in [1..Cardinality(rows) -> rows] :
                 /\ \A i, j \in DOMAIN queue : i < j => Before(order, queue[i], queue[j])
                 /\ durableQueue' = queue
  BY DEF Restart
<1>3. PICK queue \in [1..Cardinality(rows) -> rows] :
         /\ \A i, j \in DOMAIN queue : i < j => Before(order, queue[i], queue[j])
         /\ durableQueue' = queue
  BY <1>2
<1>4. /\ TypeOK /\ Bounded /\ OpsInv /\ OneOpPerId /\ Acks /\ Finished /\ Epochs /\ Covered /\ EditKept
  BY DEF KeysInv, Types, OpsInv, AckInv, RowsInv
<1>5. UNCHANGED <<rows, dirty, rowSynced, stored, receipts, graphEpoch>>
  BY <1>1 DEF disk, relay
<1>6. rows \subseteq Op /\ rows \subseteq AnyOp
  BY <1>4 DEF TypeOK, AnyOp
<1>7. /\ durableQueue' \in Seq(AnyOp) /\ Places(durableQueue') = 1..Cardinality(rows)
      /\ \A i \in Places(durableQueue') : durableQueue'[i] \in rows /\ i \in Nat
  <2>1. Cardinality(rows) \in Nat
    BY <1>4, FiniteRows
  <2>2. queue \in Seq(AnyOp) /\ Len(queue) = Cardinality(rows)
    BY <1>6, <2>1
  <2> QED
    BY <1>3, <2>1, <2>2 DEF Places
<1>8. Queued' \subseteq rows /\ Behind' \subseteq rows
  BY <1>7 DEF Queued, Behind
<1>9. /\ Marks' = {} /\ Commits' = {} /\ Sent' = {} /\ Olds' = {} /\ News' = {} /\ Drafts' = {}
      /\ Confirmed' = {} /\ Acked' = {} /\ RefusedIds' = {}
      /\ Places(tail') = {} /\ Places(c2r') = {} /\ Places(r2c') = {}
      /\ Making' = {} /\ Out' \subseteq stored \cup rows /\ Ops' \subseteq Ops
      /\ Staged' /\ OneTask'
  <2>1. /\ Marks' = {} /\ Commits' = {} /\ Sent' = {} /\ Olds' = {} /\ News' = {} /\ Drafts' = {}
        /\ Confirmed' = {} /\ Acked' = {} /\ RefusedIds' = refusedAsStale'
        /\ Places(tail') = {} /\ Places(c2r') = {} /\ Places(r2c') = {}
        /\ Making' = {} /\ Out' = stored' \cup Queued' /\ Ops' = rows' \cup stored' \cup Queued'
        /\ Staged' /\ OneTask'
    BY <1>1, AtRestNext
  <2>2. Ops' \subseteq Ops
    BY <1>5, <1>8, <2>1 DEF Ops, Out
  <2> QED
    BY <1>1, <1>5, <1>8, <2>1, <2>2
<1>10. edits \in Nat /\ rowSynced \in 0..edits /\ rowSynced \in 0..MaxEdits /\ edits \in 0..MaxEdits
  BY <1>4, EpochsAreNumbers DEF TypeOK, Bounded
<1>11. OpsInv'
  <2>1. /\ Ops' \subseteq Ops /\ RefusedIds' \subseteq RefusedIds \cup Ids(Ops) /\ stored \subseteq stored'
        /\ \A o \in Ops : o.upTo \in Nat
        /\ edits' \in Nat /\ edits <= edits' /\ nextId' = nextId
    BY <1>1, <1>4, <1>5, <1>9, <1>10, EpochsAreNumbers
  <2> QED
    BY <1>4, <1>10, <2>1, OpsKept
<1>12. \A w \in Walks : /\ walk'[w].old = NoOp /\ walk'[w].new = NoOp /\ walk'[w].pc = "idle"
                        /\ walk'[w].epoch <= keyEpoch
  BY <1>1, <1>4, IdleWalks, EpochsAreNumbers
<1>13. Fresh'
  <2>1. \A v, w \in Walks : walk'[v].new = walk'[w].new /\ walk'[v].new # NoOp => v = w
    BY <1>12
  <2> QED
    BY <1>9, <2>1 DEF Fresh, Ids
<1>14. AckInv'
  <2>1. Acks'
    BY <1>4, <1>5, <1>9 DEF Acks
  <2>2. Finished'
    BY <1>4, <1>5, <1>8, <1>9 DEF Finished
  <2> QED
    BY <2>1, <2>2 DEF AckInv
<1>15. QueueInv'
  <2>1. DistinctQueue'
    <3>1. \A op \in Op : op.upTo \in Int /\ op.id \in Int
      BY DEF Op
    <3>2. \A op \in Op : ~Before(order, op, op)
      BY <3>1 DEF Before
    <3>3. ASSUME NEW i \in Places(durableQueue'), NEW j \in Places(durableQueue'), i < j,
                 durableQueue'[i] = durableQueue'[j]
          PROVE  FALSE
      <4>1. Before(order, durableQueue'[i], durableQueue'[j])
        BY <1>3, <1>7, <3>3
      <4> QED
        BY <1>6, <1>7, <3>2, <3>3, <4>1
    <3>4. \A i, j \in Places(durableQueue') : i < j \/ j < i \/ i = j
      BY <1>7
    <3> QED
      BY <3>3, <3>4 DEF DistinctQueue
  <2>2. NotBehind'
    BY <1>1, <1>5, <1>9 DEF NotBehind, Ids
  <2> QED
    BY <2>1, <2>2 DEF QueueInv
<1>16. Refusals'
  BY <1>1, <1>9 DEF Refusals
<1>17. Epochs'
  <2>1. keyEpoch \in 0..graphEpoch /\ 0 \in 0..graphEpoch
    BY <1>4, InRange DEF Epochs
  <2> QED
    BY <1>1, <1>5, <1>9, <2>1 DEF Epochs
<1>18. RowsInv'
  <2>1. Covered'
    BY <1>1, <1>4, <1>5, <1>9 DEF Covered, Contents
  <2>2. EditKept'
    BY <1>1, <1>4, <1>5 DEF EditKept, Contents
  <2> QED
    BY <2>1, <2>2 DEF RowsInv
<1>19. Watched'
  BY <1>1 DEF Watched, RefusedHead
<1>20. ReplacedNotStored'
  <2>1. NoOp \notin stored'
    BY <1>4, <1>5, NoOps DEF TypeOK
  <2> QED
    BY <1>12, <2>1 DEF ReplacedNotStored
<1>21. Drafted' /\ Walking'
  BY <1>1, <1>12 DEF Drafted, Walking
<1>22. Types'
  <2>1. SessionTypes'
    <3>1. 0 \in 0..MaxEpoch
      BY InRange
    <3>2. {recent', keyRetryTimer'} \subseteq BOOLEAN
      BY <1>1
    <3> QED
      BY <1>1, <3>1, <3>2 DEF SessionTypes
  <2>2. TextTypes' /\ Bounded'
    <3>1. 0 \in 0..edits /\ edits \in 0..edits /\ 0 \in 0..MaxEdits
      BY <1>10, KeyEpochsAssumption
    <3>2. dirty \subseteq 1..MaxEdits
      BY <1>4 DEF TypeOK
    <3> QED
      BY <1>1, <1>5, <1>10, <3>1, <3>2 DEF TextTypes, Bounded
  <2>3. SendTypes'
    BY <1>1, <1>5, <1>6, <1>7, NoOps DEF SendTypes
  <2>4. WalkTypes'
    BY <1>1, <1>4, IdleWalks, EpochsAreNumbers DEF WalkTypes
  <2>5. WireTypes'
    <3>1. tail' \in Seq(Task) /\ c2r' \in Seq(ClientMessage) /\ r2c' \in Seq(ServerMessage)
      BY <1>1, EmptySeq
    <3> QED
      BY <1>1, <3>1 DEF WireTypes
  <2>6. RelayTypes'
    <3>1. troubles' \in 0..MaxTroubles
      <4>1. troubles \in 0..MaxTroubles /\ MaxTroubles \in Nat
        BY <1>4, KeyEpochsAssumption DEF TypeOK
      <4> QED
        BY <1>1, <4>1
    <3>2. idOrder' \in {"any", "rising", "falling"}
      BY <1>2, <1>4 DEF TypeOK
    <3> QED
      BY <1>1, <1>4, <1>5, <3>1, <3>2 DEF RelayTypes, TypeOK
  <2> QED
    BY <2>1, <2>2, <2>3, <2>4, <2>5, <2>6, TypePartsNext DEF Types
<1> QED
  BY <1>9, <1>11, <1>13, <1>14, <1>15, <1>16, <1>17, <1>18, <1>19, <1>20, <1>21, <1>22 DEF KeysInv, StageInv

-----------------------------------------------------------------------------
(* The beginning, and a step that changes nothing.                         *)

LEMMA InitKeeps == ASSUME Init PROVE KeysInv
<1>1. /\ keyEpoch = 1 /\ wantedEpoch = 0 /\ waitingForKey = 0 /\ refreshing = "no" /\ collected = 0
      /\ recent = FALSE /\ keyRetryTimer = FALSE /\ missingEpoch = 0 /\ refusedAsStale = {}
      /\ walk = [w \in Walks |-> Idle] /\ graphEpoch = 1
      /\ nextId = 1 /\ troubles = 0 /\ idOrder = "any" /\ storedAtOpen = {}
  BY DEF Init
<1>2. /\ edits = 0 /\ synced = 0 /\ base = 0 /\ timer = FALSE
      /\ drain = "no" /\ draft = NoOp /\ durableQueue = <<>> /\ captured = {} /\ tail = <<>>
      /\ rows = {} /\ dirty = {} /\ rowSynced = 0
      /\ open = FALSE /\ c2r = <<>> /\ r2c = <<>> /\ stored = {} /\ receipts = {}
  BY DEF Init
<1>3. Places(durableQueue) = {}
  BY <1>2 DEF Places
<1>4. Queued = {} /\ Behind = {}
  BY <1>3 DEF Queued, Behind
<1>5. /\ Marks = {} /\ Commits = {} /\ Sent = {} /\ Confirmed = {} /\ Acked = {} /\ RefusedIds = {}
      /\ Places(tail) = {} /\ Places(c2r) = {} /\ Places(r2c) = {}
      /\ Making = {} /\ Out = {} /\ Ops = {} /\ News = {} /\ Drafts = {} /\ Staged /\ OneTask
  <2>1. /\ Marks = {} /\ Commits = {} /\ Sent = {} /\ Confirmed = {} /\ Acked = {}
        /\ RefusedIds = refusedAsStale
        /\ Places(tail) = {} /\ Places(c2r) = {} /\ Places(r2c) = {} /\ News = {} /\ Drafts = {}
        /\ Making = {} /\ Out = stored \cup Queued /\ Ops = rows \cup stored \cup Queued
        /\ Staged /\ OneTask
    BY <1>1, <1>2, AtRest
  <2> QED
    BY <1>1, <1>2, <1>4, <2>1
<1>6. \A w \in Walks : /\ walk[w].old = NoOp /\ walk[w].new = NoOp /\ walk[w].pc = "idle"
                       /\ walk[w].epoch <= keyEpoch
  BY <1>1, IdleWalks
<1>7. Fresh
  <2>1. \A v, w \in Walks : walk[v].new = walk[w].new /\ walk[v].new # NoOp => v = w
    BY <1>6
  <2> QED
    BY <1>5, <2>1 DEF Fresh, Ids
<1>8. OneOpPerId /\ IdsAreOld /\ Lawful
  BY <1>5 DEF OneOpPerId, IdsAreOld, Lawful, Ids
<1>9. Acks /\ Finished /\ DistinctQueue /\ NotBehind /\ Refusals
  BY <1>1, <1>2, <1>3, <1>4, <1>5 DEF Acks, Finished, DistinctQueue, NotBehind, Refusals, Ids
<1>10. Epochs
  BY <1>1, <1>5 DEF Epochs
<1>11. Covered /\ EditKept
  <2>1. 1..0 = {}
    OBVIOUS
  <2> QED
    BY <1>2, <1>5, <2>1 DEF Covered, EditKept
<1>12. Watched /\ Drafted /\ Walking
  BY <1>1, <1>2, <1>6 DEF Watched, RefusedHead, Drafted, Walking
<1>13. ReplacedNotStored
  BY <1>2 DEF ReplacedNotStored
<1>14. Types
  <2>1. /\ 1 \in 1..MaxEpoch /\ 0 \in 0..MaxEpoch /\ 0 \in 0..MaxEdits /\ 1 \in 1..(MaxOps + 1)
        /\ 0 \in 0..MaxTroubles /\ 0 \in 0..0
    BY KeyEpochsAssumption
  <2>2. SessionTypes
    BY <1>1, <2>1 DEF SessionTypes
  <2>3. TextTypes /\ Bounded
    BY <1>2, <2>1 DEF TextTypes, Bounded
  <2>4. SendTypes
    <3>1. durableQueue \in Seq(AnyOp)
      BY <1>2, EmptySeq
    <3> QED
      BY <1>2, <3>1, NoOps DEF SendTypes
  <2>5. WalkTypes
    BY <1>1, IdleWalks DEF WalkTypes
  <2>6. WireTypes
    <3>1. tail \in Seq(Task) /\ c2r \in Seq(ClientMessage) /\ r2c \in Seq(ServerMessage)
      BY <1>2, EmptySeq
    <3> QED
      BY <1>2, <3>1 DEF WireTypes
  <2>7. RelayTypes
    BY <1>1, <1>2, <2>1 DEF RelayTypes
  <2> QED
    BY <2>2, <2>3, <2>4, <2>5, <2>6, <2>7, TypeParts DEF Types
<1> QED
  BY <1>5, <1>7, <1>8, <1>9, <1>10, <1>11, <1>12, <1>13, <1>14
     DEF KeysInv, OpsInv, StageInv, AckInv, QueueInv, RowsInv

LEMMA StutterKeeps == ASSUME KeysInv, UNCHANGED vars PROVE KeysInv'
<1>1. UNCHANGED <<keyEpoch, session, text, sending, keys, tail, disk, wire, relay, bounds>>
  BY DEF vars
<1>2. /\ UNCHANGED <<wantedEpoch, waitingForKey, refreshing, collected, recent, keyRetryTimer>>
      /\ UNCHANGED <<edits, synced, base, timer, drain, draft, durableQueue, captured>>
      /\ UNCHANGED <<refusedAsStale, missingEpoch, walk, rows, dirty, rowSynced, open, c2r, r2c>>
      /\ UNCHANGED <<graphEpoch, stored, receipts, nextId, troubles, idOrder, storedAtOpen>>
  BY <1>1 DEF session, text, sending, keys, disk, wire, relay, bounds, opening
<1>3. UNCHANGED <<Queued, Behind, Marks, Commits, Sent, Confirmed, Acked, RefusedIds, Olds, News, Drafts>>
  BY <1>1, <1>2, SamePlaces
<1>4. UNCHANGED <<Making, Out, Ops>>
  BY <1>2, <1>3 DEF Making, Out, Ops
<1>5. Types'
  <2>1. TypeOK'
    <3>1. TypeOK
      BY DEF KeysInv, Types
    <3> QED
      BY <1>1, <1>2, <3>1, SameTypes, TypePartsNext
  <2> QED
    BY <1>2, <2>1 DEF KeysInv, Types, Bounded
<1>6. OpsInv'
  BY <1>2, <1>3, <1>4 DEF KeysInv, OpsInv, OneOpPerId, IdsAreOld, Lawful, Ids, Contents
<1>7. StageInv'
  BY <1>1, <1>2 DEF KeysInv, StageInv, Staged, OneTask, Drafted, Walking, Places
<1>8. Fresh' /\ AckInv' /\ QueueInv'
  BY <1>2, <1>3, <1>4 DEF KeysInv, Fresh, AckInv, QueueInv, Acks, Finished, DistinctQueue, NotBehind, Ids, Places
<1>9. Refusals' /\ Epochs' /\ Watched' /\ ReplacedNotStored'
  BY <1>1, <1>2, <1>4 DEF KeysInv, Refusals, Epochs, Watched, RefusedHead, ReplacedNotStored, Places
<1>10. RowsInv'
  BY <1>1, <1>2 DEF KeysInv, RowsInv, Covered, EditKept, Contents, Places
<1> QED
  BY <1>5, <1>6, <1>7, <1>8, <1>9, <1>10 DEF KeysInv

LEMMA NextKeeps == ASSUME KeysInv, [Next]_vars PROVE KeysInv'
<1>1. CASE Resealing
  BY <1>1, SealedKeeps, RunStoreKeeps, RunDiscardKeeps DEF Resealing
<1>2. CASE Following
  BY <1>2, CollectionReadKeeps, CollectionFailsKeeps, RefreshedKeeps, KeyRetryKeeps, IntervalPassesKeeps
     DEF Following
<1>3. CASE Sending
  BY <1>3, DebouncedKeeps, RunResumeKeeps, DrainSealedKeeps, RunEnqueueKeeps, RunMarkKeeps, RunCommitKeeps
     DEF Sending
<1>4. CASE Receiving
  BY <1>4, OnAckKeeps, OnStaleEpochKeeps, OnEpochChangedKeeps, OnOthersStaleEpochKeeps, OnUpdateKeeps
     DEF Receiving
<1>5. CASE Relay
  BY <1>5, RelayAppendKeeps, RelayConfirmKeeps DEF Relay
<1>6. CASE CollectedElsewhere \/ Edit \/ Connect \/ Drop \/ Restart \/ Rotate \/ OthersAct
  BY <1>6, CollectedElsewhereKeeps, EditKeeps, ConnectKeeps, DropKeeps, RestartKeeps, RotateKeeps,
     OthersActKeeps
<1>7. CASE UNCHANGED vars
  BY <1>7, StutterKeeps
<1> QED
  BY <1>1, <1>2, <1>3, <1>4, <1>5, <1>6, <1>7 DEF Next

-----------------------------------------------------------------------------
(* What holds in every reachable state.                                    *)

\* followEpoch, the walks of keysChanged, the drain and the cache's queue of tasks keep the whole
\* invariant, whatever the order of their steps, lost sockets, killed tabs and rotations.
THEOREM KeysInvariant == Spec => []KeysInv
<1>1. Init => KeysInv
  BY InitKeeps
<1>2. KeysInv /\ [Next]_vars => KeysInv'
  BY NextKeeps
<1> QED
  BY <1>1, <1>2, PTL DEF Spec

\* Every variable of the session, the engine, its cache and the relay keeps its type.
THEOREM KeysTypeCorrect == Spec => []TypeOK
<1>1. KeysInv => TypeOK
  BY DEF KeysInv, Types
<1> QED
  BY <1>1, KeysInvariant, PTL

\* resealStaleOperations stores the new operation before it discards the old one, and Restart
\* reads the outbox back: no edit is lost to a change of keys or to a tab killed in between.
THEOREM EditsAreKept == Spec => []EditKept
<1>1. KeysInv => EditKept
  BY DEF KeysInv, RowsInv
<1> QED
  BY <1>1, KeysInvariant, PTL

\* resealStaleOperations passes over a head whose answer is on its way: it seals again nothing
\* the relay has stored, but for a row of a walk's crash, behind the head since the document opened.
THEOREM NothingStoredIsReplaced == Spec => []ReplacedNotStored
<1>1. KeysInv => ReplacedNotStored
  BY DEF KeysInv
<1> QED
  BY <1>1, KeysInvariant, PTL

\* followEpoch and its timer leave no refused head, missing key or announced wait unattended.
THEOREM EveryWaitIsWatched == Spec => []WaitIsWatched
<1>1. ASSUME KeysInv PROVE WaitIsWatched
  <2>1. TypeOK /\ Watched
    BY <1>1 DEF KeysInv, Types
  <2>2. ASSUME NEW w \in Walks, RefusedHead, walk[w].old = Head(durableQueue) PROVE walk[w] # Idle
    <3>1. Head(durableQueue) # NoOp
      BY <2>1, <2>2, GapNotRefused DEF RefusedHead
    <3> QED
      BY <2>2, <3>1, Idles
  <2> QED
    BY <2>1, <2>2 DEF Watched, WaitIsWatched
<1> QED
  BY <1>1, KeysInvariant, PTL

=============================================================================
