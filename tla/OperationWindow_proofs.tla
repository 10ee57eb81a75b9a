------------------------ MODULE OperationWindow_proofs ------------------------
(***************************************************************************)
(* Theorems about OperationWindow for any documents, any windows and any   *)
(* bounds.                                                                 *)
(***************************************************************************)
EXTENDS OperationWindow, TLAPS, FiniteSetTheorems, SequenceTheorems

ClientMsg == [t: {"append", "confirm"}, op: Op]
ServerMsg == [t: {"ack", "refused"}, op: Op]

(* Sequences by their places.                                              *)

LEMMA AppendPlaces ==
    ASSUME NEW S, NEW s \in Seq(S), NEW e \in S
    PROVE  /\ Append(s, e) \in Seq(S)
           /\ \A i \in DOMAIN s : i \in DOMAIN Append(s, e) /\ Append(s, e)[i] = s[i]
           /\ \E last \in DOMAIN Append(s, e) :
                /\ Append(s, e)[last] = e
                /\ \A i \in DOMAIN Append(s, e) : i = last \/ (i \in DOMAIN s /\ i < last)
<1>1. /\ Append(s, e) \in Seq(S) /\ Len(Append(s, e)) = Len(s) + 1
      /\ \A i \in 1..Len(s) : Append(s, e)[i] = s[i]
      /\ Append(s, e)[Len(s) + 1] = e
  BY AppendProperties
<1>2. /\ Len(s) \in Nat /\ DOMAIN s = 1..Len(s)
      /\ DOMAIN Append(s, e) = 1..Len(Append(s, e))
  BY <1>1, LenProperties
<1>3. Len(s) + 1 \in DOMAIN Append(s, e)
  BY <1>1, <1>2
<1>4. \A i \in DOMAIN Append(s, e) : i = Len(s) + 1 \/ (i \in DOMAIN s /\ i < Len(s) + 1)
  BY <1>1, <1>2
<1>5. \A i \in DOMAIN s : i \in DOMAIN Append(s, e)
  BY <1>1, <1>2
<1> QED
  BY <1>1, <1>2, <1>3, <1>4, <1>5

LEMMA TailPlaces ==
    ASSUME NEW S, NEW s \in Seq(S), s # <<>>
    PROVE  /\ Tail(s) \in Seq(S) /\ Head(s) \in S /\ 1 \in DOMAIN s /\ Head(s) = s[1]
           /\ \A i \in DOMAIN Tail(s) : i \in Nat /\ i > 0 /\ i + 1 \in DOMAIN s /\ Tail(s)[i] = s[i + 1]
           /\ \A i \in DOMAIN s : i \in Nat /\ (i = 1 \/ (i - 1 \in DOMAIN Tail(s) /\ Tail(s)[i - 1] = s[i]))
<1>1. /\ Head(s) \in S /\ Tail(s) \in Seq(S) /\ Len(Tail(s)) = Len(s) - 1
      /\ \A i \in 1..Len(Tail(s)) : Tail(s)[i] = s[i + 1]
  BY HeadTailProperties
<1>2. /\ Len(s) \in Nat \ {0} /\ DOMAIN s = 1..Len(s) /\ DOMAIN Tail(s) = 1..Len(Tail(s))
  BY <1>1, LenProperties, EmptySeq
<1>3. 1 \in DOMAIN s /\ Head(s) = s[1]
  BY <1>2
<1>4. \A i \in DOMAIN Tail(s) : i \in Nat /\ i > 0 /\ i + 1 \in DOMAIN s /\ Tail(s)[i] = s[i + 1]
  BY <1>1, <1>2
<1>5. \A i \in DOMAIN s : i \in Nat /\ (i = 1 \/ (i - 1 \in 1..Len(Tail(s)) /\ s[(i - 1) + 1] = s[i]))
  BY <1>1, <1>2
<1> QED
  BY <1>1, <1>2, <1>3, <1>4, <1>5

LEMMA Members == ASSUME NEW S, NEW s \in Seq(S) PROVE \A i \in DOMAIN s : i \in Nat /\ s[i] \in S
BY LenProperties

LEMMA Empty == DOMAIN <<>> = {} /\ \A S : <<>> \in Seq(S)
BY EmptySeq

-----------------------------------------------------------------------------
(* The window.                                                             *)

\* An operation waits only while the window is full, and never beside one of its document's in
\* flight; the window is never overfilled.
Slots ==
    /\ inFlight \in [Docs -> 0..MaxOps] /\ waiting \in Seq(Op) /\ c2r \in Seq(ClientMsg)
    /\ \A i, j \in DOMAIN waiting : waiting[i].doc = waiting[j].doc => i = j
    /\ \A i \in DOMAIN waiting : inFlight[waiting[i].doc] = 0
    /\ Cardinality(InFlight(inFlight)) <= window
    /\ NoLostWakeup

LEMMA InFlightFinite ==
    ASSUME NEW f PROVE IsFiniteSet(InFlight(f)) /\ Cardinality(InFlight(f)) \in Nat
<1>1. InFlight(f) \in SUBSET Docs
  BY DEF InFlight
<1> QED
  BY <1>1, DocsAssumption, FS_Subset, FS_CardinalityType

\* What sending an operation comes to: the document never has another one waiting.
LEMMA SendCases ==
    ASSUME Slots, window \in Nat, NEW op \in Op, SendOperation(op)
    PROVE  \/ ~open /\ UNCHANGED <<slots, c2r>>
           \/ open /\ NoRoom(op.doc) /\ waiting' = Park(op) /\ UNCHANGED <<inFlight, c2r>>
           \/ /\ open /\ ~NoRoom(op.doc) /\ UNCHANGED waiting
              /\ inFlight' = [inFlight EXCEPT ![op.doc] = op.n]
              /\ c2r' = Append(c2r, Msg("append", op))
              /\ inFlight[op.doc] = 0 => waiting = <<>>
<1>1. op.doc \in Docs /\ Cardinality(InFlight(inFlight)) \in Nat
  BY InFlightFinite DEF Op
<1>2. ASSUME open, ~NoRoom(op.doc)
      PROVE  /\ ~\E i \in DOMAIN waiting : waiting[i].doc = op.doc
             /\ inFlight[op.doc] = 0 => waiting = <<>>
  <2>1. CASE inFlight[op.doc] = 0
    <3>1. Cardinality(InFlight(inFlight)) < window
      BY <1>1, <1>2, <2>1 DEF NoRoom, Slots
    <3>2. waiting = <<>>
      BY <1>1, <3>1 DEF Slots, NoLostWakeup
    <3> QED
      BY <3>2, Empty
  <2>2. CASE inFlight[op.doc] # 0
    BY <2>2 DEF Slots
  <2> QED
    BY <2>1, <2>2
<1>3. ASSUME open, ~NoRoom(op.doc) PROVE Unpark(op.doc) = waiting
  BY <1>2, <1>3 DEF Unpark
<1>4. CASE ~open
  BY <1>4 DEF SendOperation
<1>5. CASE open /\ NoRoom(op.doc)
  BY <1>5 DEF SendOperation
<1>6. CASE open /\ ~NoRoom(op.doc)
  BY <1>2, <1>3, <1>6 DEF SendOperation
<1> QED
  BY <1>4, <1>5, <1>6

LEMMA SendKeeps ==
    ASSUME Slots, window \in Nat, NEW op \in Op, SendOperation(op), UNCHANGED <<open, window>>
    PROVE  Slots'
<1>1. op.doc \in Docs /\ op.n \in 1..MaxOps /\ MaxOps \in Nat /\ Msg("append", op) \in ClientMsg
  BY WindowAssumption DEF Op, Msg, ClientMsg
<1>2. CASE UNCHANGED <<slots, c2r>>
  BY <1>2 DEF Slots, slots, NoLostWakeup
<1>3. CASE open /\ NoRoom(op.doc) /\ waiting' = Park(op) /\ UNCHANGED <<inFlight, c2r>>
  <2>1. inFlight[op.doc] = 0 /\ Cardinality(InFlight(inFlight)) = window
    BY <1>3, InFlightFinite DEF NoRoom, Slots
  <2>2. /\ waiting' \in Seq(Op)
        /\ \A i, j \in DOMAIN waiting' : waiting'[i].doc = waiting'[j].doc => i = j
        /\ \A i \in DOMAIN waiting' : inFlight[waiting'[i].doc] = 0
    <3>1. CASE \E i \in DOMAIN waiting : waiting[i].doc = op.doc
      <4>1. waiting' = [i \in DOMAIN waiting |-> IF waiting[i].doc = op.doc THEN op ELSE waiting[i]]
        BY <1>3, <3>1 DEF Park
      <4>2. DOMAIN waiting = 1..Len(waiting) /\ Len(waiting) \in Nat /\ \A i \in DOMAIN waiting : waiting[i] \in Op
        BY LenProperties DEF Slots
      <4>3. waiting' \in [1..Len(waiting) -> Op]
        BY <4>1, <4>2
      <4>4. waiting' \in Seq(Op)
        BY <4>2, <4>3, SeqDef
      <4>5. DOMAIN waiting' = DOMAIN waiting /\ \A i \in DOMAIN waiting : waiting'[i].doc = waiting[i].doc
        BY <4>1
      <4> QED
        BY <4>4, <4>5 DEF Slots
    <3>2. CASE ~\E i \in DOMAIN waiting : waiting[i].doc = op.doc
      <4>1. waiting' = Append(waiting, op) /\ waiting \in Seq(Op)
        BY <1>3, <3>2 DEF Park, Slots
      <4>2. PICK last \in DOMAIN waiting' :
              /\ waiting'[last] = op
              /\ \A i \in DOMAIN waiting' : i = last \/ (i \in DOMAIN waiting /\ waiting'[i] = waiting[i])
        BY <4>1, AppendPlaces
      <4>3. waiting' \in Seq(Op)
        BY <4>1, AppendPlaces
      <4>4. \A i \in DOMAIN waiting' : i # last => waiting'[i].doc # op.doc
        BY <3>2, <4>2
      <4>5. \A i, j \in DOMAIN waiting' : waiting'[i].doc = waiting'[j].doc => i = j
        BY <4>2, <4>4 DEF Slots
      <4>6. \A i \in DOMAIN waiting' : inFlight[waiting'[i].doc] = 0
        BY <2>1, <4>2 DEF Slots
      <4> QED
        BY <4>3, <4>5, <4>6
    <3> QED
      BY <3>1, <3>2
  <2> QED
    BY <1>3, <2>1, <2>2 DEF Slots, NoLostWakeup
<1>4. CASE /\ open /\ ~NoRoom(op.doc) /\ UNCHANGED waiting
           /\ inFlight' = [inFlight EXCEPT ![op.doc] = op.n]
           /\ c2r' = Append(c2r, Msg("append", op))
           /\ inFlight[op.doc] = 0 => waiting = <<>>
  <2>1. inFlight' \in [Docs -> 0..MaxOps] /\ c2r' \in Seq(ClientMsg)
    BY <1>1, <1>4, AppendPlaces DEF Slots
  <2>2. InFlight(inFlight') = InFlight(inFlight) \cup {op.doc}
    BY <1>1, <1>4 DEF InFlight, Slots
  <2>3. CASE inFlight[op.doc] = 0
    <3>1. Cardinality(InFlight(inFlight)) < window
      BY <1>4, <2>3, InFlightFinite DEF NoRoom
    <3>2. Cardinality(InFlight(inFlight')) = Cardinality(InFlight(inFlight)) + 1
      <4>1. op.doc \notin InFlight(inFlight) /\ IsFiniteSet(InFlight(inFlight))
        BY <2>3, InFlightFinite DEF InFlight
      <4> QED
        BY <2>2, <4>1, FS_AddElement
    <3>3. waiting' = <<>> /\ DOMAIN waiting' = {} /\ waiting' \in Seq(Op)
      BY <1>4, <2>3, Empty
    <3> QED
      BY <2>1, <3>1, <3>2, <3>3, InFlightFinite DEF Slots, NoLostWakeup
  <2>4. CASE inFlight[op.doc] # 0
    <3>1. InFlight(inFlight') = InFlight(inFlight)
      BY <1>1, <2>2, <2>4 DEF InFlight
    <3>2. \A i \in DOMAIN waiting' : inFlight'[waiting'[i].doc] = 0
      BY <1>1, <1>4, <2>4 DEF Slots
    <3> QED
      BY <1>4, <2>1, <3>1, <3>2 DEF Slots, NoLostWakeup
  <2> QED
    BY <2>3, <2>4
<1> QED
  BY <1>2, <1>3, <1>4, SendCases

LEMMA AppendsMade ==
    ASSUME NEW ops \in Seq(Op)
    PROVE  /\ Appends(ops) \in Seq(ClientMsg) /\ Len(Appends(ops)) = Len(ops)
           /\ \A i \in DOMAIN ops : Appends(ops)[i] = Msg("append", ops[i])
<1>1. DOMAIN ops = 1..Len(ops) /\ Len(ops) \in Nat /\ \A i \in DOMAIN ops : ops[i] \in Op
  BY LenProperties
<1>2. \A i \in 1..Len(ops) : Msg("append", ops[i]) \in ClientMsg
  BY <1>1 DEF Msg, ClientMsg
<1>3. Appends(ops) = [i \in 1..Len(ops) |-> Msg("append", ops[i])]
  BY <1>1 DEF Appends
<1>4. Appends(ops) \in [1..Len(ops) -> ClientMsg]
  BY <1>2, <1>3
<1>5. Appends(ops) \in Seq(ClientMsg) /\ DOMAIN Appends(ops) = 1..Len(ops)
  BY <1>1, <1>4, SeqDef
<1>6. Len(Appends(ops)) = Len(ops)
  BY <1>1, <1>5, LenProperties
<1> QED
  BY <1>1, <1>3, <1>5, <1>6

\* What an answer comes to: at most one operation is waiting for the place it frees.
LEMMA AnswerCases ==
    ASSUME Slots, window \in Nat \ {0}, NEW op \in Op, OperationAnswered(op)
    PROVE  \/ inFlight[op.doc] # op.n /\ UNCHANGED <<slots, c2r>>
           \/ /\ inFlight[op.doc] = op.n /\ waiting = <<>> /\ UNCHANGED <<waiting, c2r>>
              /\ inFlight' = [inFlight EXCEPT ![op.doc] = 0]
           \/ /\ inFlight[op.doc] = op.n /\ waiting # <<>> /\ waiting[1] \in Op
              /\ waiting[1].doc # op.doc /\ inFlight[waiting[1].doc] = 0
              /\ waiting' = Tail(waiting)
              /\ c2r' = Append(c2r, Msg("append", waiting[1]))
              /\ inFlight' = [inFlight EXCEPT ![op.doc] = 0, ![waiting[1].doc] = waiting[1].n]
<1> DEFINE room == window - Cardinality(InFlight(inFlight) \ {op.doc})
           going == SubSeq(waiting, 1, Admits(room))
           Now(d) == {going[i].n : i \in {k \in DOMAIN going : going[k].doc = d}}
<1>1. /\ op.doc \in Docs /\ op.n \in 1..MaxOps /\ MaxOps \in Nat
      /\ waiting \in Seq(Op) /\ c2r \in Seq(ClientMsg) /\ Len(waiting) \in Nat
  BY LenProperties, WindowAssumption DEF Op, Slots
<1>2. CASE inFlight[op.doc] # op.n
  BY <1>2 DEF OperationAnswered
<1>3. CASE inFlight[op.doc] = op.n
  <2>1. /\ waiting' = SubSeq(waiting, Len(going) + 1, Len(waiting))
        /\ inFlight' = [d \in Docs |-> IF Now(d) # {} THEN CHOOSE n \in Now(d) : TRUE
                                       ELSE IF d = op.doc THEN 0 ELSE inFlight[d]]
        /\ c2r' = c2r \o Appends(going)
    BY <1>3 DEF OperationAnswered
  <2>2. op.doc \in InFlight(inFlight)
    BY <1>1, <1>3 DEF InFlight
  <2>3. room = window - Cardinality(InFlight(inFlight)) + 1 /\ room \in Nat /\ room >= 1
    <3>1. IsFiniteSet(InFlight(inFlight)) /\ Cardinality(InFlight(inFlight)) \in Nat
      BY InFlightFinite
    <3>2. Cardinality(InFlight(inFlight) \ {op.doc}) = Cardinality(InFlight(inFlight)) - 1
      BY <2>2, <3>1, FS_RemoveElement
    <3> QED
      BY <3>1, <3>2 DEF Slots
  <2>4. CASE waiting = <<>>
    <3>1. Admits(room) = 0
      BY <2>3, <2>4, EmptySeq DEF Admits
    <3>2. going = <<>>
      BY <2>4, <3>1, SubSeqEmpty
    <3>3. \A d : Now(d) = {}
      BY <3>2, Empty
    <3>4. Len(going) = 0 /\ Len(waiting) = 0
      BY <2>4, <3>2, EmptySeq
    <3>5. waiting' = <<>>
      BY <2>1, <3>4, SubSeqEmpty
    <3>6. Appends(going) = <<>>
      <4>1. Appends(going) \in Seq(ClientMsg) /\ Len(Appends(going)) = 0
        BY <3>2, AppendsMade, EmptySeq
      <4> QED
        BY <4>1, EmptySeq
    <3>7. c2r' = c2r
      BY <1>1, <2>1, <3>6, ConcatEmptySeq
    <3>8. inFlight' = [d \in Docs |-> IF d = op.doc THEN 0 ELSE inFlight[d]]
      BY <2>1, <3>3
    <3>9. inFlight' = [inFlight EXCEPT ![op.doc] = 0]
      BY <3>8 DEF Slots
    <3> QED
      BY <1>3, <2>4, <3>5, <3>7, <3>9
  <2>5. CASE waiting # <<>>
    <3>1. Cardinality(InFlight(inFlight)) = window
      BY <2>5 DEF Slots, NoLostWakeup
    <3>2. room = 1
      BY <2>3, <3>1, InFlightFinite
    <3>3. 1 \in DOMAIN waiting /\ waiting[1] \in Op /\ Len(waiting) >= 1
      BY <1>1, <2>5, TailPlaces, EmptySeq
    <3>4. Admits(room) = 1
      <4>2. \A n \in Nat : n >= 1 => n = 1 \/ 1 < n
        OBVIOUS
      <4>3. Len(waiting) \in Nat /\ Len(waiting) >= 1
        BY <1>1, <3>3
      <4>1. Len(waiting) = 1 \/ 1 < Len(waiting)
        BY <4>2, <4>3
      <4> HIDE DEF room
      <4> QED
        BY <3>2, <4>1 DEF Admits
    <3>5. going \in Seq(Op) /\ Len(going) = 1 /\ going[1] = waiting[1] /\ DOMAIN going = {1}
      <4>1. \A i \in 1..1 : waiting[i] \in Op
        BY <3>3
      <4>2. going = SubSeq(waiting, 1, 1)
        BY <3>4
      <4> HIDE DEF going
      <4>3. /\ SubSeq(waiting, 1, 1) \in Seq(Op) /\ Len(SubSeq(waiting, 1, 1)) = 1 - 1 + 1
            /\ \A i \in 1..(1 - 1 + 1) : SubSeq(waiting, 1, 1)[i] = waiting[1 + i - 1]
        BY <4>1, SubSeqProperties
      <4>4. going \in Seq(Op) /\ Len(going) = 1 /\ going[1] = waiting[1]
        BY <4>2, <4>3
      <4>5. DOMAIN going = 1..1
        BY <4>4, LenProperties
      <4> QED
        BY <4>4, <4>5
    <3> HIDE DEF going
    <3>6. waiting' = Tail(waiting)
      BY <1>1, <2>1, <2>5, <3>5, TailIsSubSeq
    <3>7. \A d : Now(d) = IF d = waiting[1].doc THEN {waiting[1].n} ELSE {}
      BY <3>5
    <3>8. waiting[1].doc # op.doc /\ waiting[1].doc \in Docs /\ inFlight[waiting[1].doc] = 0
      BY <1>1, <1>3, <3>3 DEF Slots, Op
    <3>9. inFlight' = [d \in Docs |-> IF d = waiting[1].doc THEN waiting[1].n
                                      ELSE IF d = op.doc THEN 0 ELSE inFlight[d]]
      BY <2>1, <3>7
    <3>10. inFlight' = [inFlight EXCEPT ![op.doc] = 0, ![waiting[1].doc] = waiting[1].n]
      BY <3>8, <3>9 DEF Slots
    <3>11. Appends(going) = <<Msg("append", waiting[1])>>
      <4>1. Msg("append", waiting[1]) \in ClientMsg
        BY <3>3 DEF Msg, ClientMsg
      <4>2. /\ Appends(going) \in Seq(ClientMsg) /\ Len(Appends(going)) = 1
            /\ Appends(going)[1] = Msg("append", waiting[1])
        BY <3>5, AppendsMade
      <4> QED
        BY <4>1, <4>2, SeqEqual
    <3>12. c2r' = Append(c2r, Msg("append", waiting[1]))
      BY <1>1, <2>1, <3>3, <3>11, AppendIsConcat DEF Msg, ClientMsg
    <3> QED
      BY <1>3, <2>5, <3>3, <3>6, <3>8, <3>10, <3>12
  <2> QED
    BY <2>4, <2>5
<1> QED
  BY <1>2, <1>3

LEMMA AnswerKeeps ==
    ASSUME Slots, window \in Nat \ {0}, NEW op \in Op, OperationAnswered(op), UNCHANGED <<open, window>>
    PROVE  Slots'
<1>1. op.doc \in Docs /\ op.n \in 1..MaxOps /\ MaxOps \in Nat
  BY WindowAssumption DEF Op
<1>2. CASE UNCHANGED <<slots, c2r>>
  BY <1>2 DEF Slots, slots, NoLostWakeup
<1>3. CASE /\ inFlight[op.doc] = op.n /\ waiting = <<>> /\ UNCHANGED <<waiting, c2r>>
           /\ inFlight' = [inFlight EXCEPT ![op.doc] = 0]
  <2>1. InFlight(inFlight') \subseteq InFlight(inFlight)
    BY <1>1, <1>3 DEF InFlight, Slots
  <2>2. IsFiniteSet(InFlight(inFlight))
    BY InFlightFinite
  <2>3. Cardinality(InFlight(inFlight')) <= Cardinality(InFlight(inFlight))
    BY <2>1, <2>2, FS_Subset
  <2>4. Cardinality(InFlight(inFlight')) <= window
    BY <2>3, InFlightFinite DEF Slots
  <2>5. inFlight' \in [Docs -> 0..MaxOps]
    BY <1>1, <1>3 DEF Slots
  <2> QED
    BY <1>3, <2>4, <2>5, Empty DEF Slots, NoLostWakeup
<1>4. CASE /\ inFlight[op.doc] = op.n /\ waiting # <<>> /\ waiting[1] \in Op
           /\ waiting[1].doc # op.doc /\ inFlight[waiting[1].doc] = 0
           /\ waiting' = Tail(waiting)
           /\ c2r' = Append(c2r, Msg("append", waiting[1]))
           /\ inFlight' = [inFlight EXCEPT ![op.doc] = 0, ![waiting[1].doc] = waiting[1].n]
  <2> DEFINE next == waiting[1]
  <2>1. /\ next.doc \in Docs /\ next.n \in 1..MaxOps /\ Msg("append", next) \in ClientMsg
    BY <1>4 DEF Op, Msg, ClientMsg
  <2>2. /\ waiting' \in Seq(Op)
        /\ \A i \in DOMAIN waiting' : /\ i \in Nat /\ i > 0 /\ i + 1 \in DOMAIN waiting
                                      /\ waiting'[i] = waiting[i + 1]
        /\ 1 \in DOMAIN waiting
    BY <1>4, TailPlaces DEF Slots
  <2> HIDE DEF next
  <2>3. /\ inFlight' \in [Docs -> 0..MaxOps] /\ c2r' \in Seq(ClientMsg)
        /\ \A d \in Docs : inFlight'[d] = IF d = next.doc THEN next.n ELSE IF d = op.doc THEN 0 ELSE inFlight[d]
    <3>1. inFlight \in [Docs -> 0..MaxOps] /\ c2r \in Seq(ClientMsg)
      BY DEF Slots
    <3>2. inFlight' = [inFlight EXCEPT ![op.doc] = 0, ![next.doc] = next.n] /\ c2r' = Append(c2r, Msg("append", next))
      BY <1>4 DEF next
    <3>6. MaxOps \in Nat
      BY WindowAssumption
    <3>3. next.n \in 0..MaxOps /\ 0 \in 0..MaxOps
      <4>1. next.n \in 1..MaxOps
        BY <2>1
      <4> QED
        BY <3>6, <4>1
    <3>4. inFlight' \in [Docs -> 0..MaxOps]
      BY <3>1, <3>2, <3>3
    <3>5. c2r' \in Seq(ClientMsg)
      BY <2>1, <3>1, <3>2, AppendPlaces
    <3> QED
      BY <1>1, <2>1, <3>1, <3>2, <3>4, <3>5
  <2>4. InFlight(inFlight') = (InFlight(inFlight) \ {op.doc}) \cup {next.doc}
    BY <1>1, <2>1, <2>3 DEF InFlight
  <2>5. op.doc \in InFlight(inFlight) /\ next.doc \notin InFlight(inFlight) \ {op.doc}
    BY <1>1, <1>4 DEF InFlight, next
  <2>6. IsFiniteSet(InFlight(inFlight)) /\ Cardinality(InFlight(inFlight)) \in Nat
    BY InFlightFinite
  <2>7. /\ Cardinality(InFlight(inFlight) \ {op.doc}) = Cardinality(InFlight(inFlight)) - 1
        /\ IsFiniteSet(InFlight(inFlight) \ {op.doc})
    BY <2>5, <2>6, FS_RemoveElement
  <2>8. Cardinality(InFlight(inFlight')) = Cardinality(InFlight(inFlight) \ {op.doc}) + 1
    BY <2>4, <2>5, <2>7, FS_AddElement
  <2>9. Cardinality(InFlight(inFlight)) = window /\ open
    BY <1>4 DEF Slots, NoLostWakeup
  <2>10. \A i, j \in DOMAIN waiting' : waiting'[i].doc = waiting'[j].doc => i = j
    <3> SUFFICES ASSUME NEW i \in DOMAIN waiting', NEW j \in DOMAIN waiting', waiting'[i].doc = waiting'[j].doc
                 PROVE  i = j
      OBVIOUS
    <3>1. /\ i + 1 \in DOMAIN waiting /\ j + 1 \in DOMAIN waiting /\ i \in Nat /\ j \in Nat
          /\ waiting[i + 1].doc = waiting[j + 1].doc
      BY <2>2
    <3>2. \A k, l \in DOMAIN waiting : waiting[k].doc = waiting[l].doc => k = l
      BY DEF Slots
    <3>3. i + 1 = j + 1
      BY <3>1, <3>2
    <3> QED
      BY <3>1, <3>3
  <2>11. \A i \in DOMAIN waiting' : inFlight'[waiting'[i].doc] = 0
    <3> SUFFICES ASSUME NEW i \in DOMAIN waiting' PROVE inFlight'[waiting'[i].doc] = 0
      OBVIOUS
    <3>1. i + 1 \in DOMAIN waiting /\ i + 1 # 1 /\ waiting'[i] = waiting[i + 1] /\ waiting[i + 1] \in Op
      BY <2>2, Members DEF Slots
    <3>2. waiting[i + 1].doc # next.doc
      BY <2>2, <3>1 DEF Slots, next
    <3>3. inFlight[waiting[i + 1].doc] = 0 /\ waiting[i + 1].doc \in Docs
      BY <3>1 DEF Slots, Op
    <3> QED
      BY <2>3, <3>1, <3>2, <3>3
  <2> QED
    BY <2>2, <2>3, <2>6, <2>7, <2>8, <2>9, <2>10, <2>11 DEF Slots, NoLostWakeup
<1> QED
  BY <1>2, <1>3, <1>4, AnswerCases

-----------------------------------------------------------------------------
(* Types, and the window in every state.                                   *)

WindowInv == TypeOK /\ Slots

LEMMA Typed ==
    ASSUME TypeOK
    PROVE  /\ MaxOps \in Nat /\ window \in Nat \ {0}
           /\ c2r \in Seq(ClientMsg) /\ r2c \in Seq(ServerMsg)
           /\ c2r # <<>> => Head(c2r) \in ClientMsg /\ Head(c2r).op \in Op /\ Tail(c2r) \in Seq(ClientMsg)
           /\ r2c # <<>> => Head(r2c) \in ServerMsg /\ Head(r2c).op \in Op /\ Tail(r2c) \in Seq(ServerMsg)
           /\ \A d \in Docs : /\ tail[d] \in Seq(Task) /\ head[d] \in 0..MaxOps /\ made[d] \in 0..MaxOps
                              /\ finishing[d] \in SUBSET (1..MaxOps)
                              /\ tail[d] # <<>> => Head(tail[d]) \in Task /\ Tail(tail[d]) \in Seq(Task)
           /\ \A task \in Task : task.n \in 1..MaxOps
           /\ \A op \in Op : op.doc \in Docs /\ op.n \in 1..MaxOps /\ op = OpOf(op.doc, op.n)
           /\ \A d \in Docs, n \in 1..MaxOps : OpOf(d, n) \in Op
           /\ \A d \in Docs, n \in 1..MaxOps : OpOf(d, n).doc = d /\ OpOf(d, n).n = n
           /\ \A n \in 1..MaxOps : /\ [t |-> "commit", n |-> n] \in Task
                                   /\ \A by \in {"drain", "resend"} : Mark(n, by) \in Task
<1>1. /\ c2r \in Seq(ClientMsg) /\ r2c \in Seq(ServerMsg)
  BY DEF TypeOK, ClientMsg, ServerMsg
<1>2. /\ c2r # <<>> => Head(c2r) \in ClientMsg /\ Head(c2r).op \in Op /\ Tail(c2r) \in Seq(ClientMsg)
      /\ r2c # <<>> => Head(r2c) \in ServerMsg /\ Head(r2c).op \in Op /\ Tail(r2c) \in Seq(ServerMsg)
  <2>1. c2r # <<>> => Head(c2r) \in ClientMsg /\ Tail(c2r) \in Seq(ClientMsg)
    BY <1>1, HeadTailProperties
  <2>2. r2c # <<>> => Head(r2c) \in ServerMsg /\ Tail(r2c) \in Seq(ServerMsg)
    BY <1>1, HeadTailProperties
  <2> QED
    BY <2>1, <2>2 DEF ClientMsg, ServerMsg
<1>3. /\ \A d \in Docs : /\ tail[d] \in Seq(Task) /\ head[d] \in 0..MaxOps /\ made[d] \in 0..MaxOps
                         /\ finishing[d] \in SUBSET (1..MaxOps)
  BY DEF TypeOK
<1>4. \A d \in Docs : tail[d] # <<>> => Head(tail[d]) \in Task /\ Tail(tail[d]) \in Seq(Task)
  BY <1>3, HeadTailProperties
<1>5. \A task \in Task : task.n \in 1..MaxOps
  BY DEF Task
<1>6. /\ \A op \in Op : op.doc \in Docs /\ op.n \in 1..MaxOps /\ op = OpOf(op.doc, op.n)
      /\ \A d \in Docs, n \in 1..MaxOps : OpOf(d, n) \in Op
      /\ \A d \in Docs, n \in 1..MaxOps : OpOf(d, n).doc = d /\ OpOf(d, n).n = n
  BY DEF Op, OpOf
<1>7. \A n \in 1..MaxOps : /\ [t |-> "commit", n |-> n] \in Task
                           /\ \A by \in {"drain", "resend"} : Mark(n, by) \in Task
  BY DEF Task, Mark
<1>8. MaxOps \in Nat /\ window \in Nat \ {0}
  BY WindowAssumption DEF TypeOK
<1> QED
  BY <1>1, <1>2, <1>3, <1>4, <1>5, <1>6, <1>7, <1>8

LEMMA SlotsSame ==
    ASSUME Slots, UNCHANGED <<inFlight, waiting, window, open>>, c2r' \in Seq(ClientMsg)
    PROVE  Slots'
BY DEF Slots, NoLostWakeup

\* The types of what is not a slot.
RestTyped ==
    /\ head \in [Docs -> 0..MaxOps] /\ made \in [Docs -> 0..MaxOps]
    /\ tail \in [Docs -> Seq(Task)] /\ finishing \in [Docs -> SUBSET (1..MaxOps)]
    /\ window \in Windows /\ open \in BOOLEAN /\ ackRoute \in SUBSET Op
    /\ refused \in SUBSET Docs /\ retryTimer \in BOOLEAN
    /\ r2c \in Seq(ServerMsg)
    /\ log \in [Docs -> Seq(1..MaxOps)] /\ receipts \in SUBSET Op
    /\ closes \in Nat /\ refusals \in Nat

LEMMA WindowInvIs == WindowInv <=> RestTyped /\ Slots
BY DEF WindowInv, RestTyped, Slots, TypeOK, ClientMsg, ServerMsg

LEMMA WindowInvNext == ASSUME RestTyped', Slots' PROVE WindowInv'
BY DEF WindowInv, RestTyped, Slots, TypeOK, ClientMsg, ServerMsg

LEMMA AcceptTypes ==
    ASSUME TypeOK, NEW docs, WriteAccepted(docs)
    PROVE  refused' \in SUBSET Docs /\ retryTimer' \in BOOLEAN
BY DEF WriteAccepted, TypeOK, StillRefused

LEMMA TailTyped ==
    ASSUME TypeOK, NEW d \in Docs, NEW task \in Task
    PROVE  [tail EXCEPT ![d] = Append(@, task)] \in [Docs -> Seq(Task)]
<1>1. Append(tail[d], task) \in Seq(Task)
  BY Typed, AppendPlaces
<1> QED
  BY <1>1 DEF TypeOK

\* Every live document's head operation again.
LEMMA ResentTyped ==
    ASSUME TypeOK, NEW docs, \A d \in docs : head[d] # 0
    PROVE  [d \in Docs |-> IF d \in docs THEN Append(tail[d], Mark(head[d], "resend")) ELSE tail[d]]
             \in [Docs -> Seq(Task)]
<1>1. ASSUME NEW d \in Docs, d \in docs PROVE Append(tail[d], Mark(head[d], "resend")) \in Seq(Task)
  <2>1. head[d] \in 1..MaxOps
    BY <1>1, Typed
  <2>2. Mark(head[d], "resend") \in Task /\ tail[d] \in Seq(Task)
    BY <2>1, Typed
  <2> QED
    BY <2>2, AppendPlaces
<1> QED
  BY <1>1 DEF TypeOK

LEMMA EngineTyped ==
    ASSUME WindowInv, NEW d \in Docs, Engine(d), UNCHANGED window
    PROVE  WindowInv'
<1>1. RestTyped /\ Slots /\ TypeOK
  BY WindowInvIs DEF WindowInv
<1>2. CASE Queue(d)
  <2>1. made[d] + 1 \in 1..MaxOps /\ Mark(made[d] + 1, "drain") \in Task
    <3>1. made[d] + 1 \in 1..MaxOps
      BY <1>1, <1>2, Typed DEF Queue
    <3> QED
      BY <1>1, <3>1, Typed
  <2>2. tail' \in [Docs -> Seq(Task)]
    BY <1>1, <1>2, <2>1, TailTyped DEF Queue
  <2>3. RestTyped'
    BY <1>1, <1>2, <2>1, <2>2 DEF Queue, RestTyped, retry, relay, bounds
  <2>4. Slots'
    BY <1>1, <1>2, SlotsSame DEF Queue, slots, Slots
  <2> QED
    BY <2>3, <2>4, WindowInvNext
<1>3. CASE RunMark(d)
  <2> DEFINE op == OpOf(d, Head(tail[d]).n)
  <2>1. Head(tail[d]) \in Task /\ Tail(tail[d]) \in Seq(Task) /\ op \in Op
    BY <1>1, <1>3, Typed DEF RunMark
  <2>2. Slots'
    <3>1. CASE StillHead(d, Head(tail[d]).n)
      <4>1. SendOperation(op)
        BY <1>3, <3>1 DEF RunMark
      <4> QED
        BY <1>1, <1>3, <2>1, <4>1, Typed, SendKeeps DEF RunMark
    <3>2. CASE ~StillHead(d, Head(tail[d]).n)
      BY <1>1, <1>3, <3>2, SlotsSame DEF RunMark, slots, Slots
    <3> QED
      BY <3>1, <3>2
  <2> DEFINE routes == IF StillHead(d, Head(tail[d]).n) THEN ackRoute \cup {op} ELSE ackRoute
  <2>3. routes \in SUBSET Op
    BY <1>1, <2>1 DEF RestTyped
  <2> HIDE DEF routes
  <2>4. /\ finishing' \in [Docs -> SUBSET (1..MaxOps)] /\ ackRoute' \in SUBSET Op
        /\ refused' \in SUBSET Docs /\ retryTimer' \in BOOLEAN
    <3>1. \/ Finished(d, routes)
          \/ ackRoute' = routes /\ UNCHANGED <<finishing, retry>>
      BY <1>3 DEF RunMark, routes
    <3>2. CASE Finished(d, routes)
      <4>1. UNCHANGED retry \/ WriteAccepted({d})
        BY <3>2 DEF Finished
      <4>2. refused' \in SUBSET Docs /\ retryTimer' \in BOOLEAN
        BY <1>1, <4>1, AcceptTypes DEF retry, RestTyped
      <4> QED
        BY <1>1, <2>3, <3>2, <4>2 DEF Finished, RestTyped
    <3>3. CASE ackRoute' = routes /\ UNCHANGED <<finishing, retry>>
      BY <1>1, <2>3, <3>3 DEF RestTyped, retry
    <3> QED
      BY <3>1, <3>2, <3>3
  <2>5. tail' \in [Docs -> Seq(Task)]
    BY <1>1, <1>3, <2>1 DEF RunMark, RestTyped
  <2>6. RestTyped'
    BY <1>1, <1>3, <2>4, <2>5 DEF RunMark, RestTyped, relay, bounds
  <2> QED
    BY <2>2, <2>6, WindowInvNext
<1>4. CASE RunCommit(d)
  <2> DEFINE n == Head(tail[d]).n
  <2>1. Tail(tail[d]) \in Seq(Task) /\ n \in 1..MaxOps /\ Msg("confirm", OpOf(d, n)) \in ClientMsg
    <3>1. Head(tail[d]) \in Task /\ Tail(tail[d]) \in Seq(Task)
      BY <1>1, <1>4, Typed DEF RunCommit
    <3>2. n \in 1..MaxOps
      BY <1>1, <3>1, Typed
    <3>3. OpOf(d, n) \in Op
      BY <1>1, <3>2, Typed
    <3> QED
      BY <3>1, <3>2, <3>3 DEF Msg, ClientMsg
  <2>2. c2r' \in Seq(ClientMsg)
    BY <1>1, <1>4, <2>1, AppendPlaces DEF RunCommit, Slots
  <2>3. Slots'
    BY <1>1, <1>4, <2>2, SlotsSame DEF RunCommit, slots
  <2>4. RestTyped'
    <3>1. 0 \in 0..MaxOps
      BY <1>1, Typed
    <3>2. /\ head' = [head EXCEPT ![d] = 0] /\ tail' = [tail EXCEPT ![d] = Tail(@)]
          /\ finishing' = [finishing EXCEPT ![d] = @ \cup {n}]
          /\ UNCHANGED <<made, open, ackRoute, retry, r2c, relay, bounds>>
      BY <1>4 DEF RunCommit
    <3> HIDE DEF n
    <3>3. /\ head' \in [Docs -> 0..MaxOps] /\ tail' \in [Docs -> Seq(Task)]
          /\ finishing' \in [Docs -> SUBSET (1..MaxOps)]
      BY <1>1, <2>1, <3>1, <3>2 DEF RestTyped
    <3> QED
      BY <1>1, <3>2, <3>3 DEF RestTyped, retry, relay, bounds
  <2> QED
    BY <2>3, <2>4, WindowInvNext
<1>5. CASE DrainedNothing(d)
  <2>1. Finished(d, ackRoute) /\ UNCHANGED <<head, made, tail, open, slots, c2r, r2c, relay, bounds>>
    BY <1>5 DEF DrainedNothing
  <2>2. refused' \in SUBSET Docs /\ retryTimer' \in BOOLEAN
    <3>1. UNCHANGED retry \/ WriteAccepted({d})
      BY <2>1 DEF Finished
    <3> QED
      BY <1>1, <3>1, AcceptTypes DEF retry, RestTyped
  <2>3. finishing' \in [Docs -> SUBSET (1..MaxOps)] /\ ackRoute' \in SUBSET Op
    BY <1>1, <2>1 DEF Finished, RestTyped
  <2>4. RestTyped' /\ Slots'
    BY <1>1, <2>1, <2>2, <2>3, SlotsSame DEF RestTyped, slots, relay, bounds, Slots
  <2> QED
    BY <2>4, WindowInvNext
<1> QED
  BY <1>2, <1>3, <1>4, <1>5 DEF Engine

LEMMA SocketTyped ==
    ASSUME WindowInv, Open \/ Close \/ RetryRefused, UNCHANGED window
    PROVE  WindowInv'
<1>1. RestTyped /\ Slots /\ TypeOK
  BY WindowInvIs DEF WindowInv
<1>2. CASE Open
  <2> DEFINE docs == {d \in Docs : head[d] # 0}
  <2>1. tail' = [d \in Docs |-> IF d \in docs THEN Append(tail[d], Mark(head[d], "resend")) ELSE tail[d]]
    BY <1>2 DEF Open
  <2>2. tail' \in [Docs -> Seq(Task)]
    BY <1>1, <2>1, ResentTyped
  <2>3. RestTyped'
    BY <1>1, <1>2, <2>2 DEF Open, RestTyped, retry, relay, bounds
  <2>4. Slots'
    BY <1>1, <1>2 DEF Open, Slots, slots, NoLostWakeup
  <2> QED
    BY <2>3, <2>4, WindowInvNext
<1>3. CASE Close
  <2>1. <<>> \in Seq(ClientMsg) /\ <<>> \in Seq(ServerMsg) /\ <<>> \in Seq(Op)
    BY Empty
  <2>2. RestTyped'
    <3>1. closes' \in Nat /\ ackRoute' \in SUBSET Op /\ open' \in BOOLEAN
      <4>1. closes' = closes + 1 /\ ackRoute' = {} /\ open' = FALSE
        BY <1>3 DEF Close
      <4>2. closes \in Nat
        BY <1>1 DEF RestTyped
      <4>3. closes' \in Nat
        BY <4>1, <4>2
      <4>4. open' \in BOOLEAN
        BY <4>1
      <4>5. ackRoute' \in SUBSET Op
        BY <4>1
      <4> QED
        BY <4>3, <4>4, <4>5
    <3>2. UNCHANGED <<engines, retry, relay, refusals>> /\ r2c' = <<>>
      BY <1>3 DEF Close
    <3> QED
      BY <1>1, <2>1, <3>1, <3>2 DEF RestTyped, engines, retry, relay
  <2>3. Cardinality(InFlight(inFlight')) = 0
    <3>1. InFlight(inFlight') = {}
      BY <1>3 DEF Close, InFlight
    <3> QED
      BY <3>1, FS_EmptySet
  <2>4. inFlight' \in [Docs -> 0..MaxOps] /\ waiting' = <<>> /\ c2r' = <<>>
    BY <1>1, <1>3, Typed DEF Close
  <2>5. Slots'
    BY <1>1, <2>1, <2>3, <2>4, Empty, Typed DEF Slots, NoLostWakeup
  <2> QED
    BY <2>2, <2>5, WindowInvNext
<1>4. CASE RetryRefused
  <2>1. tail' \in [Docs -> Seq(Task)] /\ refused' \in SUBSET Docs
    <3>1. CASE open
      <4>1. /\ refused' = {d \in refused : head[d] # 0}
            /\ tail' = [d \in Docs |-> IF d \in refused' THEN Append(tail[d], Mark(head[d], "resend")) ELSE tail[d]]
        BY <1>4, <3>1 DEF RetryRefused
      <4> QED
        BY <1>1, <4>1, ResentTyped DEF RestTyped
    <3>2. CASE ~open
      BY <1>1, <1>4, <3>2 DEF RetryRefused, RestTyped
    <3> QED
      BY <3>1, <3>2
  <2>2. RestTyped'
    BY <1>1, <1>4, <2>1 DEF RetryRefused, RestTyped, relay, bounds
  <2>3. Slots'
    BY <1>1, <1>4, SlotsSame DEF RetryRefused, slots, Slots
  <2> QED
    BY <2>2, <2>3, WindowInvNext
<1> QED
  BY <1>2, <1>3, <1>4

LEMMA WireTyped ==
    ASSUME WindowInv, RelayAppend \/ RelayRefuse \/ RelayConfirm \/ ReceiveAck \/ ReceiveRefusal,
           UNCHANGED window
    PROVE  WindowInv'
<1>1. RestTyped /\ Slots /\ TypeOK
  BY WindowInvIs DEF WindowInv
<1>2. CASE RelayAppend
  <2> DEFINE op == Head(c2r).op
  <2>1. op \in Op /\ op.doc \in Docs /\ op.n \in 1..MaxOps /\ Tail(c2r) \in Seq(ClientMsg)
    BY <1>1, <1>2, Typed DEF RelayAppend
  <2>2. Append(log[op.doc], op.n) \in Seq(1..MaxOps) /\ Append(r2c, Msg("ack", op)) \in Seq(ServerMsg)
    <3>1. Msg("ack", op) \in ServerMsg /\ log[op.doc] \in Seq(1..MaxOps)
      BY <1>1, <2>1 DEF Msg, ServerMsg, RestTyped
    <3> QED
      BY <1>1, <2>1, <3>1, AppendPlaces DEF RestTyped
  <2>3. log' \in [Docs -> Seq(1..MaxOps)] /\ receipts' \in SUBSET Op /\ r2c' \in Seq(ServerMsg)
    BY <1>1, <1>2, <2>1, <2>2 DEF RelayAppend, relay, RestTyped
  <2>4. RestTyped'
    BY <1>1, <1>2, <2>3 DEF RelayAppend, RestTyped, engines, retry, bounds
  <2>5. Slots'
    BY <1>1, <1>2, <2>1, SlotsSame DEF RelayAppend, slots
  <2> QED
    BY <2>4, <2>5, WindowInvNext
<1>3. CASE RelayRefuse
  <2>1. Head(c2r).op \in Op /\ Tail(c2r) \in Seq(ClientMsg)
    BY <1>1, <1>3, Typed DEF RelayRefuse
  <2>2. r2c' \in Seq(ServerMsg)
    <3>1. Msg("refused", Head(c2r).op) \in ServerMsg
      BY <2>1 DEF Msg, ServerMsg
    <3> QED
      BY <1>1, <1>3, <3>1, AppendPlaces DEF RelayRefuse, RestTyped
  <2>3. RestTyped'
    BY <1>1, <1>3, <2>2 DEF RelayRefuse, RestTyped, engines, retry, relay
  <2>4. Slots'
    BY <1>1, <1>3, <2>1, SlotsSame DEF RelayRefuse, slots
  <2> QED
    BY <2>3, <2>4, WindowInvNext
<1>4. CASE RelayConfirm
  <2>1. Tail(c2r) \in Seq(ClientMsg)
    BY <1>1, <1>4, Typed DEF RelayConfirm
  <2>2. RestTyped'
    BY <1>1, <1>4 DEF RelayConfirm, RestTyped, engines, retry, bounds
  <2>3. Slots'
    BY <1>1, <1>4, <2>1, SlotsSame DEF RelayConfirm, slots
  <2> QED
    BY <2>2, <2>3, WindowInvNext
<1>5. CASE ReceiveAck
  <2> DEFINE op == Head(r2c).op
  <2>1. op \in Op /\ op.doc \in Docs /\ op.n \in 1..MaxOps /\ r2c' \in Seq(ServerMsg)
    BY <1>1, <1>5, Typed DEF ReceiveAck
  <2>2. UNCHANGED <<head, made, finishing, open, relay, bounds>>
    BY <1>5 DEF ReceiveAck
  <2>3. CASE op \notin ackRoute
    <3>1. UNCHANGED <<slots, c2r, tail, ackRoute, retry>>
      BY <1>5, <2>3 DEF ReceiveAck
    <3>2. RestTyped' /\ Slots'
      BY <1>1, <2>1, <2>2, <3>1, SlotsSame DEF RestTyped, slots, retry, relay, bounds, Slots
    <3> QED
      BY <3>2, WindowInvNext
  <2>4. CASE op \in ackRoute
    <3>1. /\ OperationAnswered(op)
          /\ IF head[op.doc] = op.n
             THEN /\ tail' = [tail EXCEPT ![op.doc] = Append(@, [t |-> "commit", n |-> op.n])]
                  /\ UNCHANGED <<ackRoute, retry>>
             ELSE /\ ackRoute' = ackRoute \ {op}
                  /\ WriteAccepted({op.doc})
                  /\ UNCHANGED tail
      BY <1>5, <2>4 DEF ReceiveAck
    <3>2. Slots'
      BY <1>1, <2>1, <2>2, <3>1, AnswerKeeps, Typed
    <3>3. [t |-> "commit", n |-> op.n] \in Task
      BY <1>1, <2>1, Typed
    <3>4. tail' \in [Docs -> Seq(Task)]
      <4>1. tail' = [tail EXCEPT ![op.doc] = Append(@, [t |-> "commit", n |-> op.n])] \/ tail' = tail
        BY <3>1
      <4> HIDE DEF op
      <4>2. [tail EXCEPT ![op.doc] = Append(@, [t |-> "commit", n |-> op.n])] \in [Docs -> Seq(Task)]
        BY <1>1, <2>1, <3>3, TailTyped
      <4> QED
        BY <1>1, <4>1, <4>2 DEF RestTyped
    <3>5. refused' \in SUBSET Docs /\ retryTimer' \in BOOLEAN /\ ackRoute' \in SUBSET Op
      BY <1>1, <3>1, AcceptTypes DEF retry, RestTyped
    <3>6. RestTyped'
      BY <1>1, <2>1, <2>2, <3>4, <3>5 DEF RestTyped, relay, bounds
    <3> QED
      BY <3>2, <3>6, WindowInvNext
  <2> QED
    BY <2>3, <2>4
<1>6. CASE ReceiveRefusal
  <2> DEFINE op == Head(r2c).op
  <2>1. op \in Op /\ op.doc \in Docs /\ r2c' \in Seq(ServerMsg)
    BY <1>1, <1>6, Typed DEF ReceiveRefusal
  <2>2. /\ UNCHANGED <<engines, open, ackRoute, relay, bounds>> /\ OperationAnswered(op)
        /\ refused' = refused \cup {op.doc} /\ retryTimer' = TRUE
    BY <1>6 DEF ReceiveRefusal
  <2> HIDE DEF op
  <2>3. Slots'
    BY <1>1, <2>1, <2>2, AnswerKeeps, Typed
  <2>4. RestTyped'
    BY <1>1, <2>1, <2>2 DEF RestTyped, engines, relay, bounds
  <2> QED
    BY <2>3, <2>4, WindowInvNext
<1> QED
  BY <1>2, <1>3, <1>4, <1>5, <1>6

LEMMA WindowStep == ASSUME WindowInv, [Next]_vars PROVE WindowInv'
<1>1. CASE UNCHANGED vars
  BY <1>1 DEF vars, engines, slots, retry, relay, bounds, WindowInv, TypeOK, Slots, NoLostWakeup
<1>2. CASE Next
  BY <1>2, EngineTyped, SocketTyped, WireTyped DEF Next
<1> QED
  BY <1>1, <1>2

LEMMA WindowInit == Init => WindowInv
<1> SUFFICES ASSUME Init PROVE WindowInv
  OBVIOUS
<1>1. /\ <<>> \in Seq(ClientMsg) /\ <<>> \in Seq(ServerMsg) /\ <<>> \in Seq(Op)
      /\ <<>> \in Seq(Task) /\ <<>> \in Seq(1..MaxOps)
  BY Empty
<1>2. Cardinality(InFlight(inFlight)) = 0
  <2>1. InFlight(inFlight) = {}
    BY DEF Init, InFlight
  <2> QED
    BY <2>1, FS_EmptySet
<1>3. MaxOps \in Nat /\ window \in Nat
  BY WindowAssumption DEF Init
<1>4. Slots
  BY <1>1, <1>2, <1>3, Empty DEF Init, Slots, NoLostWakeup
<1>5. RestTyped
  <2>1. head \in [Docs -> 0..MaxOps] /\ made \in [Docs -> 0..MaxOps]
    BY <1>3 DEF Init
  <2>2. /\ tail \in [Docs -> Seq(Task)] /\ finishing \in [Docs -> SUBSET (1..MaxOps)]
        /\ log \in [Docs -> Seq(1..MaxOps)] /\ r2c \in Seq(ServerMsg)
    BY <1>1 DEF Init
  <2>3. window \in Windows /\ open \in BOOLEAN /\ ackRoute \in SUBSET Op
    BY DEF Init
  <2>4. /\ refused \in SUBSET Docs /\ retryTimer \in BOOLEAN /\ receipts \in SUBSET Op
        /\ closes \in Nat /\ refusals \in Nat
    BY DEF Init
  <2> QED
    BY <2>1, <2>2, <2>3, <2>4 DEF RestTyped
<1> QED
  BY <1>4, <1>5, WindowInvIs

\* The inductive invariant of the window: it is never overfilled, an operation waits only while
\* it is full, and no document waits for a place it has.
THEOREM WindowInvariant == Spec => []WindowInv
BY WindowInit, WindowStep, PTL DEF Spec

\* Every variable of the window keeps its type, and a document waits at most once.
THEOREM WindowTypeCorrect == Spec => []TypeOK
BY WindowInvariant, PTL DEF WindowInv

\* No answer's freed place is lost (operationAnswered): an operation waits only behind a full window.
THEOREM FreedPlacesAreTaken == Spec => []NoLostWakeup
<1>1. WindowInv => NoLostWakeup
  BY DEF WindowInv, Slots
<1> QED
  BY <1>1, WindowInvariant, PTL

-----------------------------------------------------------------------------
(* The engines' tasks, the routes and the places to wait in.               *)

IsDrain(task) == task.t = "mark" /\ task.by = "drain"

\* The drain that made the queued operation has not sent it yet.
Unsent(d) == \E i \in DOMAIN tail[d] : IsDrain(tail[d][i])

\* A drain sends the operation it made, before anything else sends or settles it.
DrainsFirst(d) ==
    \A i \in DOMAIN tail[d] : IsDrain(tail[d][i]) =>
        /\ head[d] # 0 /\ tail[d][i].n = head[d]
        /\ \A j \in DOMAIN tail[d] :
            /\ tail[d][j].t # "commit"
            /\ j < i => tail[d][j].n # head[d]
            /\ IsDrain(tail[d][j]) => i = j

\* Nothing names an operation not made yet; a commit is of the head, or comes after another of its
\* kind; and what is acknowledged is followed by the drain its answer waits for.
Numbers(d) ==
    /\ head[d] = 0 \/ head[d] = made[d]
    /\ \A i \in DOMAIN tail[d] : /\ tail[d][i].n <= made[d]
                                 /\ tail[d][i].t = "commit" => tail[d][i].n = head[d] \/ head[d] = 0
    /\ \A n \in finishing[d] : n <= made[d] /\ n # head[d]
    /\ finishing[d] # {} => head[d] = 0 \/ Unsent(d)

\* What the routes lead to: the head once it was sent, or an operation whose receive() is awaited.
Routed ==
    \A op \in ackRoute : \/ op.n = head[op.doc] /\ ~Unsent(op.doc)
                         \/ op.n \in finishing[op.doc]

Waits ==
    \A i \in DOMAIN waiting :
        /\ waiting[i].n <= made[waiting[i].doc]
        /\ waiting[i].n = head[waiting[i].doc] => waiting[i] \in ackRoute

EngineInv == (\A d \in Docs : DrainsFirst(d) /\ Numbers(d)) /\ Routed /\ Waits

Untouched(d) == UNCHANGED <<head[d], made[d], tail[d], finishing[d]>>

LEMMA UntouchedKept ==
    ASSUME NEW d, DrainsFirst(d), Numbers(d), Untouched(d)
    PROVE  DrainsFirst(d)' /\ Numbers(d)' /\ (Unsent(d)' <=> Unsent(d))
BY DEF DrainsFirst, Numbers, Untouched, Unsent

\* The head operation once more: it changes nothing of what came before.
LEMMA ResentKept ==
    ASSUME TypeOK, NEW d \in Docs, DrainsFirst(d), Numbers(d), head[d] # 0,
           tail'[d] = Append(tail[d], Mark(head[d], "resend")),
           UNCHANGED <<head[d], made[d], finishing[d]>>
    PROVE  /\ DrainsFirst(d)' /\ Numbers(d)' /\ (Unsent(d)' <=> Unsent(d))
           /\ \E i \in DOMAIN tail'[d] : tail'[d][i].n = head'[d]
<1> DEFINE task == Mark(head[d], "resend")
<1>1. head[d] \in 1..MaxOps /\ made[d] \in Nat
  BY Typed
<1>2. task \in Task /\ tail[d] \in Seq(Task)
  BY <1>1, Typed
<1>3. task.n = head[d] /\ task.t = "mark" /\ ~IsDrain(task)
  BY DEF Mark, IsDrain
<1> HIDE DEF task
<1>4. \A i \in DOMAIN tail[d] : i \in DOMAIN tail'[d] /\ tail'[d][i] = tail[d][i]
  BY <1>2, AppendPlaces DEF task
<1>5. PICK last \in DOMAIN tail'[d] :
        /\ tail'[d][last] = task
        /\ \A i \in DOMAIN tail'[d] : i = last \/ (i \in DOMAIN tail[d] /\ i < last)
  BY <1>2, AppendPlaces DEF task
<1>6. Unsent(d)' <=> Unsent(d)
  BY <1>3, <1>4, <1>5 DEF Unsent
<1>7. DrainsFirst(d)'
  <2> SUFFICES ASSUME NEW i \in DOMAIN tail'[d], IsDrain(tail'[d][i]), NEW j \in DOMAIN tail'[d]
               PROVE  /\ head'[d] # 0 /\ tail'[d][i].n = head'[d]
                      /\ tail'[d][j].t # "commit"
                      /\ j < i => tail'[d][j].n # head'[d]
                      /\ IsDrain(tail'[d][j]) => i = j
    BY DEF DrainsFirst
  <2>4. i \in DOMAIN tail[d] /\ tail'[d][i] = tail[d][i] /\ i < last
    BY <1>3, <1>4, <1>5
  <2>5. tail[d] \in Seq(Task) /\ tail'[d] \in Seq(Task)
    BY <1>2, AppendPlaces DEF task
  <2>1. i \in DOMAIN tail[d] /\ tail'[d][i] = tail[d][i] /\ i < last /\ i \in Nat /\ last \in Nat
    BY <1>5, <2>4, <2>5, Members
  <2>2. CASE j = last
    BY <1>3, <1>5, <2>1, <2>2 DEF DrainsFirst
  <2>3. CASE j \in DOMAIN tail[d]
    BY <1>4, <2>1, <2>3 DEF DrainsFirst
  <2> QED
    BY <1>5, <2>2, <2>3
<1>8. Numbers(d)'
  <2>1. head'[d] = 0 \/ head'[d] = made'[d]
    BY DEF Numbers
  <2>2. \A i \in DOMAIN tail'[d] : /\ tail'[d][i].n <= made'[d]
                                   /\ tail'[d][i].t = "commit" => tail'[d][i].n = head'[d] \/ head'[d] = 0
    BY <1>1, <1>3, <1>4, <1>5 DEF Numbers
  <2>3. \A n \in finishing'[d] : n <= made'[d] /\ n # head'[d]
    BY DEF Numbers
  <2>4. finishing'[d] # {} => head'[d] = 0 \/ Unsent(d)'
    BY <1>6 DEF Numbers
  <2> QED
    BY <2>1, <2>2, <2>3, <2>4 DEF Numbers
<1> QED
  BY <1>3, <1>5, <1>6, <1>7, <1>8

\* A drain stored the next operation.
LEMMA QueuedKept ==
    ASSUME TypeOK, NEW d \in Docs, DrainsFirst(d), Numbers(d), Queue(d)
    PROVE  /\ DrainsFirst(d)' /\ Numbers(d)' /\ Unsent(d)'
           /\ head'[d] = made[d] + 1 /\ made'[d] = made[d] + 1
           /\ \E i \in DOMAIN tail'[d] : tail'[d][i].n = head'[d]
<1> DEFINE n == made[d] + 1
           task == Mark(n, "drain")
<1>1. /\ head[d] = 0 /\ made[d] \in Nat /\ n \in 1..MaxOps
      /\ \A i \in DOMAIN tail[d] : tail[d][i].t # "commit"
      /\ UNCHANGED finishing
      /\ head'[d] = n /\ made'[d] = n /\ tail'[d] = Append(tail[d], task)
  <2>1. /\ head[d] = 0 /\ made[d] < MaxOps /\ UNCHANGED finishing
        /\ \A i \in DOMAIN tail[d] : tail[d][i].t # "commit"
        /\ made' = [made EXCEPT ![d] = @ + 1]
        /\ head' = [head EXCEPT ![d] = made[d] + 1]
        /\ tail' = [tail EXCEPT ![d] = Append(@, Mark(made[d] + 1, "drain"))]
    BY DEF Queue
  <2>2. made[d] \in Nat /\ n \in 1..MaxOps
    BY <2>1, Typed
  <2>3. head'[d] = n /\ made'[d] = n /\ tail'[d] = Append(tail[d], task)
    BY <2>1 DEF TypeOK
  <2> QED
    BY <2>1, <2>2, <2>3
<1>2. task \in Task /\ tail[d] \in Seq(Task)
  BY <1>1, Typed
<1>3. task.n = n /\ task.t = "mark" /\ IsDrain(task)
  BY DEF Mark, IsDrain
<1> HIDE DEF task
<1>4. \A i \in DOMAIN tail[d] : i \in DOMAIN tail'[d] /\ tail'[d][i] = tail[d][i]
  BY <1>1, <1>2, AppendPlaces
<1>5. PICK last \in DOMAIN tail'[d] :
        /\ tail'[d][last] = task
        /\ \A i \in DOMAIN tail'[d] : i = last \/ (i \in DOMAIN tail[d] /\ i < last)
  BY <1>1, <1>2, AppendPlaces
<1>6. Unsent(d)'
  BY <1>3, <1>5 DEF Unsent
<1>7. \A i \in DOMAIN tail[d] : ~IsDrain(tail[d][i]) /\ tail[d][i].n # n
  BY <1>1, <1>2, Members, Typed DEF DrainsFirst, Numbers
<1>8. DrainsFirst(d)'
  BY <1>1, <1>3, <1>4, <1>5, <1>7 DEF DrainsFirst
<1>9. Numbers(d)'
  <2>1. \A i \in DOMAIN tail'[d] : tail'[d][i].n <= made'[d] /\ tail'[d][i].t # "commit"
    <3> SUFFICES ASSUME NEW i \in DOMAIN tail'[d] PROVE tail'[d][i].n <= made'[d] /\ tail'[d][i].t # "commit"
      OBVIOUS
    <3>1. CASE i = last
      BY <1>1, <1>3, <1>5, <3>1
    <3>2. CASE i \in DOMAIN tail[d]
      <4>1. tail[d][i] \in Task /\ tail[d][i].n \in Nat /\ tail[d][i].n <= made[d]
        BY <1>2, <3>2, Members, Typed DEF Numbers
      <4> QED
        BY <1>1, <1>4, <3>2, <4>1
    <3> QED
      BY <1>5, <3>1, <3>2
  <2>2. \A m \in finishing'[d] : m <= made'[d] /\ m # head'[d]
    <3>1. \A m \in finishing[d] : m \in Nat /\ m <= made[d]
      BY Typed DEF Numbers
    <3> QED
      BY <1>1, <3>1
  <2> QED
    BY <1>1, <1>6, <2>1, <2>2 DEF Numbers
<1> QED
  BY <1>1, <1>3, <1>5, <1>6, <1>8, <1>9

\* The first task is done: the others keep their order.
LEMMA DoneKept ==
    ASSUME TypeOK, NEW d \in Docs, DrainsFirst(d), tail[d] # <<>>, tail'[d] = Tail(tail[d])
    PROVE  /\ \A i \in DOMAIN tail'[d] : \E j \in DOMAIN tail[d] : j # 1 /\ tail'[d][i] = tail[d][j]
           /\ \A j \in DOMAIN tail[d] : j # 1 => \E i \in DOMAIN tail'[d] : tail'[d][i] = tail[d][j]
           /\ IsDrain(Head(tail[d])) => ~Unsent(d)' /\ Head(tail[d]).n = head[d]
           /\ ~IsDrain(Head(tail[d])) => (Unsent(d)' <=> Unsent(d))
           /\ head'[d] = head[d] => DrainsFirst(d)'
           /\ Head(tail[d]).n = head[d] => ~Unsent(d)'
<1>1. /\ \A i \in DOMAIN tail'[d] : i \in Nat /\ i > 0 /\ i + 1 \in DOMAIN tail[d] /\ tail'[d][i] = tail[d][i + 1]
      /\ \A i \in DOMAIN tail[d] : i \in Nat /\ (i = 1 \/ (i - 1 \in DOMAIN tail'[d] /\ tail'[d][i - 1] = tail[d][i]))
      /\ 1 \in DOMAIN tail[d] /\ Head(tail[d]) = tail[d][1]
  <2>1. tail[d] \in Seq(Task)
    BY Typed
  <2> QED
    BY <2>1, TailPlaces
<1>2. /\ \A i \in DOMAIN tail'[d] : \E j \in DOMAIN tail[d] : j # 1 /\ tail'[d][i] = tail[d][j]
      /\ \A j \in DOMAIN tail[d] : j # 1 => \E i \in DOMAIN tail'[d] : tail'[d][i] = tail[d][j]
  <2>1. \A i \in DOMAIN tail'[d] : i + 1 # 1
    BY <1>1
  <2> QED
    BY <1>1, <2>1
<1>3. IsDrain(Head(tail[d])) => ~Unsent(d)' /\ Head(tail[d]).n = head[d]
  BY <1>1, <1>2 DEF DrainsFirst, Unsent
<1>4. ~IsDrain(Head(tail[d])) => (Unsent(d)' <=> Unsent(d))
  BY <1>1, <1>2 DEF Unsent
<1>5. ASSUME head'[d] = head[d] PROVE DrainsFirst(d)'
  <2> SUFFICES ASSUME NEW i \in DOMAIN tail'[d], IsDrain(tail'[d][i]), NEW j \in DOMAIN tail'[d]
               PROVE  /\ head'[d] # 0 /\ tail'[d][i].n = head'[d]
                      /\ tail'[d][j].t # "commit"
                      /\ j < i => tail'[d][j].n # head'[d]
                      /\ IsDrain(tail'[d][j]) => i = j
    BY DEF DrainsFirst
  <2>1. /\ i + 1 \in DOMAIN tail[d] /\ tail'[d][i] = tail[d][i + 1] /\ i \in Nat
        /\ j + 1 \in DOMAIN tail[d] /\ tail'[d][j] = tail[d][j + 1] /\ j \in Nat
    BY <1>1
  <2>2. /\ head[d] # 0 /\ tail[d][i + 1].n = head[d]
        /\ tail[d][j + 1].t # "commit"
        /\ j + 1 < i + 1 => tail[d][j + 1].n # head[d]
        /\ IsDrain(tail[d][j + 1]) => i + 1 = j + 1
    BY <2>1 DEF DrainsFirst
  <2> QED
    BY <1>5, <2>1, <2>2
<1>6. ASSUME Head(tail[d]).n = head[d] PROVE ~Unsent(d)'
  <2> SUFFICES ASSUME NEW i \in DOMAIN tail'[d], IsDrain(tail'[d][i]) PROVE FALSE
    BY DEF Unsent
  <2>1. i + 1 \in DOMAIN tail[d] /\ IsDrain(tail[d][i + 1]) /\ 1 < i + 1
    BY <1>1
  <2> QED
    BY <1>1, <1>6, <2>1 DEF DrainsFirst
<1> QED
  BY <1>2, <1>3, <1>4, <1>5, <1>6

\* An acknowledgement of the head: its commit is queued.
LEMMA CommitKept ==
    ASSUME TypeOK, NEW d \in Docs, DrainsFirst(d), Numbers(d), ~Unsent(d), head[d] # 0,
           tail'[d] = Append(tail[d], [t |-> "commit", n |-> head[d]]),
           UNCHANGED <<head[d], made[d], finishing[d]>>
    PROVE  /\ DrainsFirst(d)' /\ Numbers(d)' /\ ~Unsent(d)'
           /\ \E i \in DOMAIN tail'[d] : tail'[d][i].n = head'[d]
<1> DEFINE task == [t |-> "commit", n |-> head[d]]
<1>1. head[d] \in 1..MaxOps /\ made[d] \in Nat
  BY Typed
<1>2. task \in Task /\ tail[d] \in Seq(Task)
  BY <1>1, Typed
<1>3. task.n = head[d] /\ task.t = "commit" /\ ~IsDrain(task)
  BY DEF IsDrain
<1> HIDE DEF task
<1>4. \A i \in DOMAIN tail[d] : i \in DOMAIN tail'[d] /\ tail'[d][i] = tail[d][i]
  BY <1>2, AppendPlaces DEF task
<1>5. PICK last \in DOMAIN tail'[d] :
        /\ tail'[d][last] = task
        /\ \A i \in DOMAIN tail'[d] : i = last \/ (i \in DOMAIN tail[d] /\ i < last)
  BY <1>2, AppendPlaces DEF task
<1>6. ~Unsent(d)'
  BY <1>3, <1>4, <1>5 DEF Unsent
<1>7. DrainsFirst(d)'
  BY <1>6 DEF DrainsFirst, Unsent
<1>8. Numbers(d)'
  <2>1. \A i \in DOMAIN tail'[d] : /\ tail'[d][i].n <= made'[d]
                                   /\ tail'[d][i].t = "commit" => tail'[d][i].n = head'[d] \/ head'[d] = 0
    BY <1>1, <1>3, <1>4, <1>5 DEF Numbers
  <2> QED
    BY <2>1 DEF Numbers
<1> QED
  BY <1>3, <1>5, <1>6, <1>7, <1>8

\* What an answer does to the places to wait in and to the socket.
LEMMA AnswerMoves ==
    ASSUME WindowInv, NEW op \in Op, OperationAnswered(op)
    PROVE  /\ \A i \in DOMAIN waiting' : \E j \in DOMAIN waiting : waiting'[i] = waiting[j]
           /\ \A j \in DOMAIN waiting : \/ \E i \in DOMAIN waiting' : waiting'[i] = waiting[j]
                                        \/ \E i \in DOMAIN c2r' : c2r'[i] = Msg("append", waiting[j])
           /\ \A j \in DOMAIN c2r : \E i \in DOMAIN c2r' : c2r'[i] = c2r[j]
<1>1. Slots /\ window \in Nat \ {0}
  BY Typed DEF WindowInv
<1>2. CASE UNCHANGED <<waiting, c2r>>
  BY <1>2
<1>3. CASE /\ waiting # <<>> /\ waiting[1] \in Op /\ waiting' = Tail(waiting)
           /\ c2r' = Append(c2r, Msg("append", waiting[1]))
  <2>1. /\ \A i \in DOMAIN waiting' : i + 1 \in DOMAIN waiting /\ waiting'[i] = waiting[i + 1]
        /\ \A j \in DOMAIN waiting : j = 1 \/ (j - 1 \in DOMAIN waiting' /\ waiting'[j - 1] = waiting[j])
    BY <1>1, <1>3, TailPlaces DEF Slots
  <2>2. Msg("append", waiting[1]) \in ClientMsg /\ c2r \in Seq(ClientMsg)
    BY <1>1, <1>3 DEF Msg, ClientMsg, Slots
  <2>3. /\ \A j \in DOMAIN c2r : j \in DOMAIN c2r' /\ c2r'[j] = c2r[j]
        /\ \E last \in DOMAIN c2r' : c2r'[last] = Msg("append", waiting[1])
    BY <1>3, <2>2, AppendPlaces
  <2> QED
    BY <2>1, <2>3
<1> QED
  BY <1>1, <1>2, <1>3, AnswerCases DEF slots

\* What sending does.
LEMMA SendMoves ==
    ASSUME WindowInv, NEW op \in Op, SendOperation(op)
    PROVE  /\ \A i \in DOMAIN waiting' : waiting'[i] = op \/ \E j \in DOMAIN waiting : waiting'[i] = waiting[j]
           /\ \A j \in DOMAIN waiting : \/ waiting[j].doc = op.doc
                                        \/ \E i \in DOMAIN waiting' : waiting'[i] = waiting[j]
           /\ \A j \in DOMAIN c2r : \E i \in DOMAIN c2r' : c2r'[i] = c2r[j]
           /\ open => \/ \E i \in DOMAIN waiting' : waiting'[i] = op
                      \/ \E i \in DOMAIN c2r' : c2r'[i] = Msg("append", op)
<1>1. Slots /\ window \in Nat \ {0}
  BY Typed DEF WindowInv
<1>2. CASE ~open /\ UNCHANGED <<waiting, c2r>>
  BY <1>2
<1>3. CASE waiting' = Park(op) /\ UNCHANGED c2r
  <2>1. CASE \E i \in DOMAIN waiting : waiting[i].doc = op.doc
    <3>1. waiting' = [i \in DOMAIN waiting |-> IF waiting[i].doc = op.doc THEN op ELSE waiting[i]]
      BY <1>3, <2>1 DEF Park
    <3> QED
      BY <1>3, <2>1, <3>1
  <2>2. CASE ~\E i \in DOMAIN waiting : waiting[i].doc = op.doc
    <3>1. waiting' = Append(waiting, op) /\ waiting \in Seq(Op)
      BY <1>1, <1>3, <2>2 DEF Park, Slots
    <3>2. /\ \A j \in DOMAIN waiting : j \in DOMAIN waiting' /\ waiting'[j] = waiting[j]
          /\ \E last \in DOMAIN waiting' :
               waiting'[last] = op /\ \A i \in DOMAIN waiting' : i = last \/ i \in DOMAIN waiting
      BY <3>1, AppendPlaces
    <3> QED
      BY <1>3, <3>2
  <2> QED
    BY <2>1, <2>2
<1>4. CASE UNCHANGED waiting /\ c2r' = Append(c2r, Msg("append", op))
  <2>1. Msg("append", op) \in ClientMsg /\ c2r \in Seq(ClientMsg)
    BY <1>1 DEF Msg, ClientMsg, Slots
  <2>2. /\ \A j \in DOMAIN c2r : j \in DOMAIN c2r' /\ c2r'[j] = c2r[j]
        /\ \E last \in DOMAIN c2r' : c2r'[last] = Msg("append", op)
    BY <1>4, <2>1, AppendPlaces
  <2> QED
    BY <1>4, <2>2
<1> QED
  BY <1>1, <1>2, <1>3, <1>4, SendCases DEF slots

LEMMA RoutesFrame ==
    ASSUME EngineInv, \A d \in Docs : DrainsFirst(d)' /\ Numbers(d)' /\ (Unsent(d)' => Unsent(d)),
           WindowInv, UNCHANGED <<head, made, finishing>>,
           ackRoute' \subseteq ackRoute, \A op \in ackRoute : op.n = head[op.doc] => op \in ackRoute',
           \A i \in DOMAIN waiting' : \E j \in DOMAIN waiting : waiting'[i] = waiting[j]
    PROVE  EngineInv'
<1>1. \A op \in ackRoute : op.doc \in Docs
  BY DEF WindowInv, TypeOK, Op
<1>2. Routed'
  BY <1>1 DEF EngineInv, Routed
<1>3. Waits'
  BY DEF EngineInv, Waits
<1> QED
  BY <1>2, <1>3 DEF EngineInv

LEMMA EngineFrame ==
    ASSUME EngineInv, WindowInv, UNCHANGED engines,
           ackRoute' \subseteq ackRoute, \A op \in ackRoute : op.n = head[op.doc] => op \in ackRoute',
           \A i \in DOMAIN waiting' : \E j \in DOMAIN waiting : waiting'[i] = waiting[j]
    PROVE  EngineInv'
<1>1. \A d \in Docs : DrainsFirst(d)' /\ Numbers(d)' /\ (Unsent(d)' => Unsent(d))
  <2> SUFFICES ASSUME NEW d \in Docs PROVE DrainsFirst(d)' /\ Numbers(d)' /\ (Unsent(d)' => Unsent(d))
    OBVIOUS
  <2>1. Untouched(d)
    BY DEF Untouched, engines
  <2> QED
    BY <2>1, UntouchedKept DEF EngineInv
<1> QED
  BY <1>1, RoutesFrame DEF engines

LEMMA QueueEngines ==
    ASSUME EngineInv, WindowInv, NEW d \in Docs, Queue(d)
    PROVE  EngineInv' /\ \A e \in Docs : e # d => Untouched(e)
<1>1. TypeOK
  BY DEF WindowInv
<1>2. \A e \in Docs : e # d => Untouched(e)
  BY <1>1 DEF Queue, Untouched, TypeOK
<1>3. \A e \in Docs : DrainsFirst(e)' /\ Numbers(e)' /\ (e # d => (Unsent(e)' <=> Unsent(e)))
  BY <1>1, <1>2, QueuedKept, UntouchedKept DEF EngineInv
<1>4. /\ head[d] = 0 /\ head'[d] = made[d] + 1 /\ made'[d] = made[d] + 1 /\ made[d] \in Nat
      /\ UNCHANGED <<ackRoute, finishing, waiting>>
  <2>1. head[d] = 0 /\ UNCHANGED <<ackRoute, finishing, waiting>>
    BY DEF Queue, slots
  <2>2. head'[d] = made[d] + 1 /\ made'[d] = made[d] + 1
    BY <1>1, QueuedKept DEF EngineInv
  <2>3. made[d] \in Nat
    BY <1>1, Typed
  <2> QED
    BY <2>1, <2>2, <2>3
<1>5. Routed'
  <2> SUFFICES ASSUME NEW op \in ackRoute'
               PROVE  (op.n = head[op.doc] /\ ~Unsent(op.doc))' \/ op.n \in finishing'[op.doc]
    BY DEF Routed
  <2>1. op \in ackRoute /\ op.doc \in Docs /\ op.n \in 1..MaxOps
    BY <1>1, <1>4, Typed DEF TypeOK
  <2>2. (op.n = head[op.doc] /\ ~Unsent(op.doc)) \/ op.n \in finishing[op.doc]
    BY <2>1 DEF EngineInv, Routed
  <2>3. CASE op.doc = d
    BY <1>4, <2>1, <2>2, <2>3
  <2>4. CASE op.doc # d
    BY <1>2, <1>3, <2>1, <2>2, <2>4 DEF Untouched
  <2> QED
    BY <2>3, <2>4
<1>6. Waits'
  <2> SUFFICES ASSUME NEW i \in DOMAIN waiting'
               PROVE  /\ waiting'[i].n <= made'[waiting'[i].doc]
                      /\ waiting'[i].n = head'[waiting'[i].doc] => waiting'[i] \in ackRoute'
    BY DEF Waits
  <2>1. /\ i \in DOMAIN waiting /\ waiting'[i] = waiting[i]
        /\ waiting[i].doc \in Docs /\ waiting[i].n \in Nat
    <3>1. i \in DOMAIN waiting /\ waiting'[i] = waiting[i]
      BY <1>4
    <3>2. waiting \in Seq(Op)
      BY <1>1 DEF TypeOK
    <3>3. waiting[i] \in Op
      BY <3>1, <3>2, Members
    <3> QED
      BY <3>1, <3>3 DEF Op
  <2>2. /\ waiting[i].n <= made[waiting[i].doc]
        /\ waiting[i].n = head[waiting[i].doc] => waiting[i] \in ackRoute
    BY <2>1 DEF EngineInv, Waits
  <2>3. CASE waiting[i].doc = d
    BY <1>4, <2>1, <2>2, <2>3
  <2>4. CASE waiting[i].doc # d
    BY <1>2, <1>4, <2>1, <2>2, <2>4 DEF Untouched
  <2> QED
    BY <2>3, <2>4
<1> QED
  BY <1>2, <1>3, <1>5, <1>6 DEF EngineInv

\* What finishing with an acknowledged operation forgets are the routes of what is acknowledged.
LEMMA FinishedForgets ==
    ASSUME NEW d \in Docs, NEW routes, finishing \in [Docs -> SUBSET (1..MaxOps)], Finished(d, routes)
    PROVE  /\ finishing' = [finishing EXCEPT ![d] = {}]
           /\ ackRoute' \subseteq routes
           /\ \A op \in routes : op \in ackRoute' \/ (op.doc = d /\ op.n \in finishing[d])
           /\ \A n \in finishing[d] : OpOf(d, n) \notin ackRoute'
<1>1. \A n \in finishing[d] : OpOf(d, n).doc = d /\ OpOf(d, n).n = n
  BY DEF OpOf
<1> QED
  BY <1>1 DEF Finished, RoutesDone

LEMMA RunMarkEngines ==
    ASSUME EngineInv, WindowInv, NEW d \in Docs, RunMark(d)
    PROVE  /\ EngineInv' /\ UNCHANGED <<head, made>> /\ tail'[d] = Tail(tail[d])
           /\ \A e \in Docs : e # d => Untouched(e)
           /\ \A op \in ackRoute : op.n = head[op.doc] => op \in ackRoute'
           /\ StillHead(d, Head(tail[d]).n) => OpOf(d, Head(tail[d]).n) \in ackRoute'
           /\ Head(tail[d]).by = "drain" => StillHead(d, Head(tail[d]).n)
           /\ Head(tail[d]).n = head[d] <=> StillHead(d, Head(tail[d]).n)
<1> DEFINE task == Head(tail[d])
           op == OpOf(d, task.n)
           routes == IF StillHead(d, task.n) THEN ackRoute \cup {op} ELSE ackRoute
<1>1. /\ TypeOK /\ \A e \in Docs : DrainsFirst(e) /\ Numbers(e)
      /\ tail[d] # <<>> /\ task.t = "mark"
      /\ tail' = [tail EXCEPT ![d] = Tail(@)] /\ UNCHANGED <<head, made>>
      /\ IF StillHead(d, task.n) THEN SendOperation(op) ELSE UNCHANGED <<slots, c2r>>
      /\ IF task.by = "drain" THEN Finished(d, routes) ELSE ackRoute' = routes /\ UNCHANGED <<finishing, retry>>
  BY DEF RunMark, WindowInv, EngineInv
<1>2. /\ task \in Task /\ task.n \in 1..MaxOps /\ op \in Op /\ op.doc = d /\ op.n = task.n
      /\ finishing \in [Docs -> SUBSET (1..MaxOps)] /\ tail \in [Docs -> Seq(Task)]
  <2>1. task \in Task /\ task.n \in 1..MaxOps
    BY <1>1, Typed
  <2>2. op \in Op /\ op.doc = d /\ op.n = task.n
    BY <1>1, <2>1, Typed
  <2> QED
    BY <1>1, <2>1, <2>2 DEF TypeOK
<1>3. tail'[d] = Tail(tail[d]) /\ \A e \in Docs : e # d => tail'[e] = tail[e]
  BY <1>1, <1>2
<1>4. StillHead(d, task.n) <=> head[d] = task.n
  BY DEF StillHead
<1>5. task.by = "drain" => IsDrain(task) /\ head[d] = task.n
  BY <1>1, <1>3, DoneKept DEF IsDrain
<1> HIDE DEF task
<1>6. /\ DrainsFirst(d)' /\ (Unsent(d)' => Unsent(d)) /\ (head[d] = task.n => ~Unsent(d)')
      /\ task.by # "drain" => (Unsent(d)' <=> Unsent(d))
  BY <1>1, <1>3, DoneKept DEF IsDrain, task
<1> HIDE DEF routes, op
<1>7. /\ finishing' \in [Docs -> SUBSET (1..MaxOps)]
      /\ \A e \in Docs : e # d => finishing'[e] = finishing[e]
      /\ finishing'[d] \subseteq finishing[d]
      /\ ackRoute' \subseteq routes
      /\ \A r \in routes : r \in ackRoute' \/ (r.doc = d /\ r.n \in finishing[d])
      /\ \A n \in finishing[d] : OpOf(d, n) \notin ackRoute' \/ n \in finishing'[d]
      /\ finishing'[d] # {} => (task.by # "drain" /\ finishing'[d] = finishing[d])
  <2>1. CASE Finished(d, routes) /\ task.by = "drain"
    <3>1. finishing \in [Docs -> SUBSET (1..MaxOps)] /\ {} \in SUBSET (1..MaxOps)
      BY <1>2
    <3>2. /\ finishing' = [finishing EXCEPT ![d] = {}]
          /\ ackRoute' \subseteq routes
          /\ \A r \in routes : r \in ackRoute' \/ (r.doc = d /\ r.n \in finishing[d])
          /\ \A n \in finishing[d] : OpOf(d, n) \notin ackRoute'
      BY <2>1, <3>1, FinishedForgets
    <3>3. /\ finishing' \in [Docs -> SUBSET (1..MaxOps)]
          /\ \A e \in Docs : e # d => finishing'[e] = finishing[e]
          /\ finishing'[d] = {}
      BY <3>1, <3>2
    <3> QED
      BY <2>1, <3>2, <3>3
  <2>2. CASE ackRoute' = routes /\ UNCHANGED finishing /\ task.by # "drain"
    BY <1>2, <2>2
  <2> QED
    BY <1>1, <2>1, <2>2
<1>8. \A e \in Docs : e # d => Untouched(e)
  BY <1>1, <1>3, <1>7 DEF Untouched
<1>9. Numbers(d)'
  <2>1. \A i \in DOMAIN tail'[d] : \E j \in DOMAIN tail[d] : tail'[d][i] = tail[d][j]
    BY <1>1, <1>3, DoneKept
  <2>2. finishing'[d] # {} => head'[d] = 0 \/ Unsent(d)'
    BY <1>1, <1>6, <1>7 DEF Numbers
  <2>3. \A n \in finishing'[d] : n <= made'[d] /\ n # head'[d]
    BY <1>1, <1>7 DEF Numbers
  <2>4. \A i \in DOMAIN tail'[d] : /\ tail'[d][i].n <= made'[d]
                                   /\ tail'[d][i].t = "commit" => tail'[d][i].n = head'[d] \/ head'[d] = 0
    BY <1>1, <2>1 DEF Numbers
  <2> QED
    BY <1>1, <2>2, <2>3, <2>4 DEF Numbers
<1>10. \A e \in Docs : DrainsFirst(e)' /\ Numbers(e)' /\ (Unsent(e)' => Unsent(e))
  BY <1>1, <1>6, <1>8, <1>9, UntouchedKept
<1>11. /\ \A r \in ackRoute : r.n = head[r.doc] => r \in ackRoute'
       /\ StillHead(d, task.n) => op \in ackRoute'
  <2>1. \A r \in routes : r.n = head[r.doc] => r \in ackRoute'
    BY <1>1, <1>7 DEF Numbers
  <2>2. ackRoute \subseteq routes /\ (StillHead(d, task.n) => op \in routes /\ op.n = head[op.doc])
    BY <1>2, <1>4 DEF routes
  <2> QED
    BY <2>1, <2>2
<1>12. Routed'
  <2> SUFFICES ASSUME NEW r \in ackRoute'
               PROVE  (r.n = head[r.doc] /\ ~Unsent(r.doc))' \/ r.n \in finishing'[r.doc]
    BY DEF Routed
  <2>1. CASE r = op /\ StillHead(d, task.n)
    BY <1>1, <1>2, <1>4, <1>6, <2>1
  <2>2. CASE r \in ackRoute
    <3>1. r.doc \in Docs /\ r = OpOf(r.doc, r.n)
      BY <1>1, <2>2, Typed DEF TypeOK
    <3>2. (r.n = head[r.doc] /\ ~Unsent(r.doc)) \/ r.n \in finishing[r.doc]
      BY <2>2 DEF EngineInv, Routed
    <3>3. CASE r.n = head[r.doc] /\ ~Unsent(r.doc)
      BY <1>1, <1>10, <3>1, <3>3
    <3>4. CASE r.n \in finishing[r.doc]
      BY <1>7, <3>1, <3>4
    <3> QED
      BY <3>2, <3>3, <3>4
  <2> QED
    BY <1>7, <2>1, <2>2 DEF routes
<1>13. Waits'
  <2> SUFFICES ASSUME NEW i \in DOMAIN waiting'
               PROVE  /\ waiting'[i].n <= made[waiting'[i].doc]
                      /\ waiting'[i].n = head[waiting'[i].doc] => waiting'[i] \in ackRoute'
    BY <1>1 DEF Waits
  <2>1. (StillHead(d, task.n) /\ waiting'[i] = op) \/ \E j \in DOMAIN waiting : waiting'[i] = waiting[j]
    BY <1>1, <1>2, SendMoves DEF slots
  <2>2. CASE StillHead(d, task.n) /\ waiting'[i] = op
    <3>1. op.n <= made[d]
      <4>1. 1 \in DOMAIN tail[d] /\ task = tail[d][1]
        BY <1>1, <1>2, TailPlaces DEF task
      <4> QED
        BY <1>1, <1>2, <4>1 DEF Numbers
    <3> QED
      BY <1>2, <1>11, <2>2, <3>1
  <2>3. CASE \E j \in DOMAIN waiting : waiting'[i] = waiting[j]
    BY <1>11, <2>3 DEF EngineInv, Waits
  <2> QED
    BY <2>1, <2>2, <2>3
<1> QED
  BY <1>1, <1>3, <1>4, <1>5, <1>8, <1>10, <1>11, <1>12, <1>13 DEF EngineInv, task, op

LEMMA RunCommitEngines ==
    ASSUME EngineInv, WindowInv, NEW d \in Docs, RunCommit(d)
    PROVE  EngineInv' /\ head'[d] = 0 /\ \A e \in Docs : e # d => Untouched(e)
<1> DEFINE n == Head(tail[d]).n
<1>1. /\ TypeOK /\ \A e \in Docs : DrainsFirst(e) /\ Numbers(e)
      /\ tail[d] # <<>> /\ Head(tail[d]).t = "commit"
      /\ finishing' = [finishing EXCEPT ![d] = @ \cup {n}]
      /\ head' = [head EXCEPT ![d] = 0] /\ tail' = [tail EXCEPT ![d] = Tail(@)]
      /\ UNCHANGED <<made, ackRoute, slots>>
  BY DEF RunCommit, WindowInv, EngineInv
<1>2. /\ head'[d] = 0 /\ tail'[d] = Tail(tail[d]) /\ finishing'[d] = finishing[d] \cup {n}
      /\ \A e \in Docs : e # d => Untouched(e)
  BY <1>1 DEF Untouched, TypeOK
<1>3. /\ 1 \in DOMAIN tail[d] /\ Head(tail[d]) = tail[d][1] /\ n \in 1..MaxOps /\ made[d] \in Nat
      /\ n <= made[d] /\ (n = head[d] \/ head[d] = 0)
  <2>1. 1 \in DOMAIN tail[d] /\ Head(tail[d]) = tail[d][1] /\ Head(tail[d]) \in Task /\ made[d] \in Nat
    BY <1>1, TailPlaces, Typed
  <2>2. n \in 1..MaxOps
    BY <1>1, <2>1, Typed
  <2> QED
    BY <1>1, <2>1, <2>2 DEF Numbers
<1>4. ~Unsent(d)
  BY <1>1, <1>3 DEF DrainsFirst, Unsent
<1>5. \A i \in DOMAIN tail'[d] : \E j \in DOMAIN tail[d] : tail'[d][i] = tail[d][j]
  BY <1>1, <1>2, DoneKept
<1>6. ~Unsent(d)' /\ DrainsFirst(d)'
  BY <1>4, <1>5 DEF Unsent, DrainsFirst
<1> HIDE DEF n
<1>7. Numbers(d)'
  <2>1. made'[d] = made[d]
    BY <1>1
  <2>2. \A m \in finishing'[d] : m <= made'[d] /\ m # head'[d]
    <3>1. \A m \in finishing[d] : m \in 1..MaxOps
      BY <1>1, Typed
    <3> QED
      BY <1>1, <1>2, <1>3, <2>1, <3>1 DEF Numbers
  <2>3. \A i \in DOMAIN tail'[d] : tail'[d][i].n <= made'[d]
    BY <1>1, <1>5, <2>1 DEF Numbers
  <2> QED
    BY <1>2, <2>2, <2>3 DEF Numbers
<1>8. \A e \in Docs : DrainsFirst(e)' /\ Numbers(e)' /\ (Unsent(e)' => Unsent(e))
  BY <1>1, <1>2, <1>6, <1>7, UntouchedKept
<1>9. Routed'
  <2> SUFFICES ASSUME NEW r \in ackRoute
               PROVE  (r.n = head[r.doc] /\ ~Unsent(r.doc))' \/ r.n \in finishing'[r.doc]
    BY <1>1 DEF Routed
  <2>1. r.doc \in Docs /\ r.n \in 1..MaxOps
    BY <1>1, Typed DEF TypeOK
  <2>2. (r.n = head[r.doc] /\ ~Unsent(r.doc)) \/ r.n \in finishing[r.doc]
    BY DEF EngineInv, Routed
  <2>3. CASE r.doc = d
    BY <1>2, <1>3, <2>1, <2>2, <2>3
  <2>4. CASE r.doc # d
    BY <1>2, <1>8, <2>1, <2>2, <2>4 DEF Untouched
  <2> QED
    BY <2>3, <2>4
<1>10. Waits'
  <2> SUFFICES ASSUME NEW i \in DOMAIN waiting
               PROVE  /\ waiting[i].n <= made[waiting[i].doc]
                      /\ waiting[i].n = head'[waiting[i].doc] => waiting[i] \in ackRoute
    BY <1>1 DEF Waits, slots
  <2>1. waiting[i].doc \in Docs /\ waiting[i].n \in 1..MaxOps
    BY <1>1, Members, Typed DEF TypeOK
  <2> QED
    BY <1>1, <1>2, <2>1 DEF EngineInv, Waits, Untouched
<1> QED
  BY <1>2, <1>8, <1>9, <1>10 DEF EngineInv

LEMMA DrainedEngines ==
    ASSUME EngineInv, WindowInv, NEW d \in Docs, DrainedNothing(d)
    PROVE  /\ EngineInv' /\ UNCHANGED <<head, made, tail>> /\ head[d] = 0
           /\ \A op \in ackRoute : op.n = head[op.doc] => op \in ackRoute'
<1>1. /\ TypeOK /\ \A e \in Docs : DrainsFirst(e) /\ Numbers(e)
      /\ head[d] = 0 /\ Finished(d, ackRoute) /\ UNCHANGED <<head, made, tail, slots>>
      /\ finishing \in [Docs -> SUBSET (1..MaxOps)]
  BY DEF DrainedNothing, WindowInv, EngineInv, TypeOK
<1>2. /\ finishing' = [finishing EXCEPT ![d] = {}]
      /\ ackRoute' \subseteq ackRoute
      /\ \A op \in ackRoute : op \in ackRoute' \/ (op.doc = d /\ op.n \in finishing[d])
      /\ \A n \in finishing[d] : OpOf(d, n) \notin ackRoute'
  BY <1>1, FinishedForgets
<1>3. finishing'[d] = {} /\ \A e \in Docs : e # d => Untouched(e)
  BY <1>1, <1>2 DEF Untouched
<1>4. Numbers(d)' /\ DrainsFirst(d)'
  BY <1>1, <1>3 DEF Numbers, DrainsFirst
<1>5. \A e \in Docs : DrainsFirst(e)' /\ Numbers(e)' /\ (Unsent(e)' <=> Unsent(e))
  BY <1>1, <1>3, <1>4, UntouchedKept DEF Unsent
<1>6. \A op \in ackRoute : op.n = head[op.doc] => op \in ackRoute'
  BY <1>1, <1>2 DEF Numbers
<1>7. Routed'
  <2> SUFFICES ASSUME NEW r \in ackRoute'
               PROVE  (r.n = head[r.doc] /\ ~Unsent(r.doc))' \/ r.n \in finishing'[r.doc]
    BY DEF Routed
  <2>1. r \in ackRoute /\ r.doc \in Docs /\ r.n \in 1..MaxOps /\ r = OpOf(r.doc, r.n)
    BY <1>1, <1>2, Typed DEF TypeOK
  <2>2. (r.n = head[r.doc] /\ ~Unsent(r.doc)) \/ r.n \in finishing[r.doc]
    BY <2>1 DEF EngineInv, Routed
  <2>3. CASE r.doc = d
    BY <1>1, <1>2, <2>1, <2>2, <2>3
  <2>4. CASE r.doc # d
    BY <1>1, <1>3, <1>5, <2>1, <2>2, <2>4 DEF Untouched
  <2> QED
    BY <2>3, <2>4
<1>8. Waits'
  BY <1>1, <1>6 DEF EngineInv, Waits, slots
<1> QED
  BY <1>1, <1>5, <1>6, <1>7, <1>8 DEF EngineInv

\* The head operations of some documents once more.
LEMMA ResendsEngines ==
    ASSUME EngineInv, WindowInv, NEW docs, \A d \in docs : head[d] # 0,
           tail' = [d \in Docs |-> IF d \in docs THEN Append(tail[d], Mark(head[d], "resend")) ELSE tail[d]],
           UNCHANGED <<head, made, finishing, ackRoute, waiting>>
    PROVE  /\ EngineInv'
           /\ \A d \in Docs : d \notin docs => Untouched(d)
           /\ \A d \in Docs : d \in docs => \E i \in DOMAIN tail'[d] : tail'[d][i].n = head'[d]
<1>1. TypeOK /\ \A d \in Docs : DrainsFirst(d) /\ Numbers(d)
  BY DEF WindowInv, EngineInv
<1>2. ASSUME NEW d \in Docs, d \in docs
      PROVE  /\ DrainsFirst(d)' /\ Numbers(d)' /\ (Unsent(d)' <=> Unsent(d))
             /\ \E i \in DOMAIN tail'[d] : tail'[d][i].n = head'[d]
  <2>1. tail'[d] = Append(tail[d], Mark(head[d], "resend")) /\ head[d] # 0
    BY <1>2
  <2> QED
    BY <1>1, <2>1, ResentKept
<1>3. \A d \in Docs : d \notin docs => Untouched(d)
  BY DEF Untouched
<1>4. \A d \in Docs : DrainsFirst(d)' /\ Numbers(d)' /\ (Unsent(d)' => Unsent(d))
  BY <1>1, <1>2, <1>3, UntouchedKept
<1>5. EngineInv'
  BY <1>4, RoutesFrame
<1> QED
  BY <1>2, <1>3, <1>5

LEMMA SocketEngines ==
    ASSUME EngineInv, WindowInv,
           Open \/ Close \/ RetryRefused \/ RelayAppend \/ RelayRefuse \/ RelayConfirm \/ ReceiveRefusal
    PROVE  EngineInv'
<1>1. CASE Open
  <2> DEFINE docs == {d \in Docs : head[d] # 0}
  <2>1. /\ tail' = [d \in Docs |-> IF d \in docs THEN Append(tail[d], Mark(head[d], "resend")) ELSE tail[d]]
        /\ UNCHANGED <<head, made, finishing, ackRoute, waiting>>
    BY <1>1 DEF Open, slots
  <2>2. \A d \in docs : head[d] # 0
    OBVIOUS
  <2> HIDE DEF docs
  <2> QED
    BY <2>1, <2>2, ResendsEngines
<1>2. CASE Close
  <2>1. UNCHANGED engines /\ ackRoute' = {} /\ waiting' = <<>>
    BY <1>2 DEF Close
  <2>2. \A d \in Docs : DrainsFirst(d)' /\ Numbers(d)'
    BY <2>1, UntouchedKept DEF engines, Untouched, EngineInv
  <2> QED
    BY <2>1, <2>2, Empty DEF EngineInv, Routed, Waits
<1>3. CASE RetryRefused
  <2>1. UNCHANGED <<head, made, finishing, ackRoute, waiting>>
    BY <1>3 DEF RetryRefused, slots
  <2>2. CASE open
    <3> DEFINE docs == {d \in refused : head[d] # 0}
    <3>1. tail' = [d \in Docs |-> IF d \in docs THEN Append(tail[d], Mark(head[d], "resend")) ELSE tail[d]]
      BY <1>3, <2>2 DEF RetryRefused
    <3>2. \A d \in docs : head[d] # 0
      OBVIOUS
    <3> HIDE DEF docs
    <3> QED
      BY <2>1, <3>1, <3>2, ResendsEngines
  <2>3. CASE ~open
    <3>1. UNCHANGED engines
      BY <1>3, <2>3 DEF RetryRefused, engines
    <3> QED
      BY <2>1, <3>1, EngineFrame
  <2> QED
    BY <2>2, <2>3
<1>4. CASE RelayAppend \/ RelayRefuse \/ RelayConfirm
  <2>1. UNCHANGED <<engines, ackRoute, waiting>>
    BY <1>4 DEF RelayAppend, RelayRefuse, RelayConfirm, slots
  <2> QED
    BY <2>1, EngineFrame
<1>5. CASE ReceiveRefusal
  <2>1. UNCHANGED <<engines, ackRoute>> /\ OperationAnswered(Head(r2c).op) /\ Head(r2c).op \in Op
    BY <1>5, Typed DEF ReceiveRefusal, WindowInv
  <2> QED
    BY <2>1, EngineFrame, AnswerMoves
<1> QED
  BY <1>1, <1>2, <1>3, <1>4, <1>5

LEMMA ReceiveAckEngines ==
    ASSUME EngineInv, WindowInv, ReceiveAck
    PROVE  /\ EngineInv' /\ UNCHANGED head
           /\ \A d \in Docs : \A j \in DOMAIN tail[d] : \E i \in DOMAIN tail'[d] : tail'[d][i] = tail[d][j]
           /\ \A op \in ackRoute : op.n = head[op.doc] => op \in ackRoute'
           /\ \A d \in Docs : /\ Head(r2c).op = OpOf(d, head[d]) /\ Head(r2c).op \in ackRoute
                              => \E i \in DOMAIN tail'[d] : tail'[d][i].n = head[d]
<1> DEFINE op == Head(r2c).op
<1>1. /\ TypeOK /\ \A d \in Docs : DrainsFirst(d) /\ Numbers(d)
      /\ op \in Op /\ op.doc \in Docs /\ op.n \in 1..MaxOps /\ tail \in [Docs -> Seq(Task)]
      /\ UNCHANGED <<head, made, finishing>>
  <2>1. /\ TypeOK /\ \A d \in Docs : DrainsFirst(d) /\ Numbers(d)
        /\ tail \in [Docs -> Seq(Task)] /\ r2c # <<>> /\ UNCHANGED <<head, made, finishing>>
    BY DEF WindowInv, EngineInv, TypeOK, ReceiveAck
  <2>2. op \in Op
    BY <2>1, Typed
  <2>3. op.doc \in Docs /\ op.n \in 1..MaxOps
    BY <2>1, <2>2, Typed
  <2> QED
    BY <2>1, <2>2, <2>3
<1>2. CASE op \notin ackRoute
  <2>1. UNCHANGED <<waiting, tail, ackRoute>>
    BY <1>2 DEF ReceiveAck, slots
  <2>2. EngineInv'
    BY <1>1, <2>1, EngineFrame DEF engines
  <2> QED
    BY <1>1, <1>2, <2>1, <2>2
<1>3. CASE op \in ackRoute /\ head[op.doc] = op.n
  <2>1. /\ OperationAnswered(op) /\ UNCHANGED ackRoute
        /\ tail' = [tail EXCEPT ![op.doc] = Append(@, [t |-> "commit", n |-> op.n])]
    BY <1>3 DEF ReceiveAck
  <2>2. PICK d \in Docs : d = op.doc
    BY <1>1
  <2>3. ~Unsent(d) /\ head[d] # 0 /\ head[d] = op.n
    BY <1>1, <1>3, <2>2 DEF EngineInv, Routed, Numbers
  <2>4. /\ tail'[d] = Append(tail[d], [t |-> "commit", n |-> head[d]])
        /\ \A e \in Docs : e # d => Untouched(e)
    BY <1>1, <1>3, <2>1, <2>2 DEF Untouched
  <2>5. /\ DrainsFirst(d)' /\ Numbers(d)' /\ ~Unsent(d)'
        /\ \E i \in DOMAIN tail'[d] : tail'[d][i].n = head'[d]
    BY <1>1, <2>3, <2>4, CommitKept
  <2>6. \A e \in Docs : DrainsFirst(e)' /\ Numbers(e)' /\ (Unsent(e)' => Unsent(e))
    BY <1>1, <2>4, <2>5, UntouchedKept
  <2>7. EngineInv'
    BY <1>1, <2>1, <2>6, RoutesFrame, AnswerMoves
  <2>8. \A j \in DOMAIN tail[d] : \E i \in DOMAIN tail'[d] : tail'[d][i] = tail[d][j]
    <3>1. head[d] \in 1..MaxOps
      BY <1>1, <2>3
    <3>2. [t |-> "commit", n |-> head[d]] \in Task /\ tail[d] \in Seq(Task)
      BY <1>1, <3>1, Typed
    <3> QED
      BY <2>4, <3>2, AppendPlaces
  <2>9. \A e \in Docs : op = OpOf(e, head[e]) => e = d
    BY <2>2 DEF OpOf
  <2> HIDE DEF op
  <2>10. \A e \in Docs : \A j \in DOMAIN tail[e] : \E i \in DOMAIN tail'[e] : tail'[e][i] = tail[e][j]
    BY <2>4, <2>8 DEF Untouched
  <2>11. \E i \in DOMAIN tail'[d] : tail'[d][i].n = head[d]
    BY <1>1, <2>5
  <2>12. \A e \in Docs : op = OpOf(e, head[e]) => \E i \in DOMAIN tail'[e] : tail'[e][i].n = head[e]
    BY <2>9, <2>11
  <2>13. UNCHANGED head /\ \A r \in ackRoute : r.n = head[r.doc] => r \in ackRoute'
    BY <1>1, <2>1
  <2> QED
    BY <2>7, <2>10, <2>12, <2>13 DEF op
<1>4. CASE op \in ackRoute /\ head[op.doc] # op.n
  <2>1. OperationAnswered(op) /\ ackRoute' = ackRoute \ {op} /\ UNCHANGED tail
    BY <1>4 DEF ReceiveAck
  <2>2. EngineInv'
    BY <1>1, <1>4, <2>1, EngineFrame, AnswerMoves DEF engines
  <2>3. \A d \in Docs : op # OpOf(d, head[d])
    BY <1>4 DEF OpOf
  <2> QED
    BY <1>1, <1>4, <2>1, <2>2, <2>3
<1> QED
  BY <1>2, <1>3, <1>4

LEMMA EngineStep == ASSUME EngineInv, WindowInv, [Next]_vars PROVE EngineInv'
<1>1. CASE UNCHANGED vars
  BY <1>1, EngineFrame DEF vars, slots
<1>2. CASE Next
  BY <1>2, QueueEngines, RunMarkEngines, RunCommitEngines, DrainedEngines, SocketEngines, ReceiveAckEngines
     DEF Next, Engine
<1> QED
  BY <1>1, <1>2

LEMMA EngineInit == ASSUME Init PROVE EngineInv
BY Empty DEF Init, EngineInv, DrainsFirst, Numbers, Routed, Waits

\* The inductive invariant of the engines: a drain sends what it made before anything else does,
\* and a route leads to the head once it was sent or to an operation whose receive() is awaited.
THEOREM EngineInvariant == Spec => []EngineInv
<1>1. WindowInv /\ EngineInv /\ [Next]_vars => EngineInv'
  BY EngineStep
<1> QED
  BY <1>1, EngineInit, WindowInvariant, PTL DEF Spec

-----------------------------------------------------------------------------
(* Nothing queued is left without a next step.                             *)

Moving(d) ==
    \/ \E i \in DOMAIN tail[d] : tail[d][i].n = head[d]
    \/ OnWire(OpOf(d, head[d])) /\ OpOf(d, head[d]) \in ackRoute
    \/ \E i \in DOMAIN waiting : waiting[i] = OpOf(d, head[d])
    \/ d \in refused /\ retryTimer

LEMMA NothingStallsIs == NothingStalls <=> (open => \A d \in Docs : head[d] # 0 => Moving(d))
BY DEF NothingStalls, Moving

LEMMA NothingStallsNext ==
    ASSUME open' => \A d \in Docs : head'[d] # 0 => Moving(d)'
    PROVE  NothingStalls'
BY DEF NothingStalls, Moving

\* A step of another document, or of the wire, that takes nothing from this one.
LEMMA MovingKept ==
    ASSUME NEW d, NEW op, op = OpOf(d, head[d]), Moving(d), UNCHANGED head[d],
           \A i \in DOMAIN tail[d] : tail[d][i].n = head[d] =>
               \E j \in DOMAIN tail'[d] : tail'[d][j].n = head[d],
           OnWire(op) /\ op \in ackRoute =>
               OnWire(op)' \/ \E j \in DOMAIN tail'[d] : tail'[d][j].n = head[d],
           op \in ackRoute => op \in ackRoute',
           \A i \in DOMAIN waiting : waiting[i] = op =>
               \/ \E j \in DOMAIN waiting' : waiting'[j] = op
               \/ OnWire(op)' /\ op \in ackRoute',
           d \in refused /\ retryTimer =>
               (d \in refused' /\ retryTimer') \/ \E j \in DOMAIN tail'[d] : tail'[d][j].n = head[d]
    PROVE  Moving(d)'
<1>1. OpOf(d, head[d])' = op
  BY DEF OpOf
<1>2. OnWire(OpOf(d, head[d]))' <=> OnWire(op)'
  BY <1>1 DEF OnWire
<1> QED
  BY <1>1, <1>2 DEF Moving

\* The messages there were are still there.
LEMMA OnWireKept ==
    ASSUME NEW op, \A j \in DOMAIN c2r : c2r[j] = Msg("append", op) => \E i \in DOMAIN c2r' : c2r'[i] = c2r[j],
           UNCHANGED r2c
    PROVE  OnWire(op) => OnWire(op)'
BY DEF OnWire

\* Accepting one document's write leaves the others their retry.
LEMMA AcceptKeeps ==
    ASSUME NEW d, NEW e, d # e, UNCHANGED retry \/ WriteAccepted({d}), e \in refused, retryTimer
    PROVE  e \in refused' /\ retryTimer'
BY DEF WriteAccepted, StillRefused, retry

LEMMA EngineMoves ==
    ASSUME WindowInv, EngineInv, NothingStalls, NEW d \in Docs, Engine(d)
    PROVE  NothingStalls'
<1> SUFFICES ASSUME open, NEW e \in Docs, head'[e] # 0 PROVE Moving(e)'
  <2>1. UNCHANGED open
    BY DEF Engine, Queue, RunMark, RunCommit, DrainedNothing
  <2> QED
    BY <2>1, NothingStallsNext
<1>1. TypeOK /\ (head[e] # 0 => Moving(e)) /\ \A f \in Docs : DrainsFirst(f) /\ Numbers(f)
  BY NothingStallsIs DEF WindowInv, EngineInv
<1>2. PICK op : op = OpOf(e, head[e])
  OBVIOUS
<1>3. op.doc = e /\ op.n = head[e]
  BY <1>2 DEF OpOf
<1>4. CASE Queue(d)
  <2>1. CASE e = d
    <3>1. \E i \in DOMAIN tail'[d] : tail'[d][i].n = head'[d]
      BY <1>1, <1>4, QueuedKept
    <3> QED
      BY <2>1, <3>1 DEF Moving
  <2>2. CASE e # d
    <3>1. Untouched(e) /\ UNCHANGED <<c2r, r2c, ackRoute, waiting, retry>>
      BY <1>4, <2>2, QueueEngines DEF Queue, slots
    <3>2. OnWire(op) => OnWire(op)'
      BY <3>1, OnWireKept
    <3> QED
      BY <1>1, <1>2, <3>1, <3>2, MovingKept DEF Untouched, retry
  <2> QED
    BY <2>1, <2>2
<1>5. CASE RunMark(d)
  <2> DEFINE n == Head(tail[d]).n
  <2>1. /\ UNCHANGED <<head, made, r2c>> /\ tail'[d] = Tail(tail[d])
        /\ \A f \in Docs : f # d => Untouched(f)
        /\ \A r \in ackRoute : r.n = head[r.doc] => r \in ackRoute'
        /\ StillHead(d, n) => OpOf(d, n) \in ackRoute'
        /\ Head(tail[d]).by = "drain" => StillHead(d, n)
        /\ n = head[d] <=> StillHead(d, n)
    BY <1>5, RunMarkEngines DEF RunMark
  <2>2. /\ tail[d] # <<>> /\ n \in 1..MaxOps /\ OpOf(d, n) \in Op /\ OpOf(d, n).doc = d /\ OpOf(d, n).n = n
    <3>1. tail[d] # <<>> /\ Head(tail[d]) \in Task
      BY <1>1, <1>5, Typed DEF RunMark
    <3>2. n \in 1..MaxOps
      BY <1>1, <3>1, Typed
    <3> QED
      BY <1>1, <3>1, <3>2, Typed
  <2>3. IF StillHead(d, n) THEN SendOperation(OpOf(d, n)) ELSE UNCHANGED <<slots, c2r>>
    BY <1>5 DEF RunMark
  <2>4. IF Head(tail[d]).by = "drain" THEN UNCHANGED retry \/ WriteAccepted({d}) ELSE UNCHANGED retry
    BY <1>5 DEF RunMark, Finished
  <2> HIDE DEF n
  <2>5. CASE e = d /\ StillHead(d, n)
    <3>1. op = OpOf(d, n) /\ op \in ackRoute'
      BY <1>2, <2>1, <2>5
    <3>2. SendOperation(op) /\ op \in Op
      BY <2>2, <2>3, <2>5, <3>1
    <3>3. \/ \E i \in DOMAIN waiting' : waiting'[i] = op
          \/ \E i \in DOMAIN c2r' : c2r'[i] = Msg("append", op)
      BY <3>2, SendMoves
    <3>4. OpOf(e, head[e])' = op
      BY <1>2, <2>1 DEF OpOf
    <3> QED
      BY <3>1, <3>3, <3>4 DEF Moving, OnWire
  <2>6. CASE e = d /\ ~StillHead(d, n)
    <3>1. UNCHANGED <<waiting, c2r, r2c, retry>>
      BY <2>1, <2>3, <2>4, <2>6 DEF slots
    <3>2. OnWire(op) => OnWire(op)'
      BY <3>1, OnWireKept
    <3>3. \A i \in DOMAIN tail[e] : tail[e][i].n = head[e] =>
              \E j \in DOMAIN tail'[e] : tail'[e][j].n = head[e]
      <4>1. 1 \in DOMAIN tail[d] /\ Head(tail[d]) = tail[d][1]
        BY <1>1, <2>2, TailPlaces, Typed
      <4>2. \A j \in DOMAIN tail[d] : j # 1 => \E i \in DOMAIN tail'[d] : tail'[d][i] = tail[d][j]
        BY <1>1, <2>1, <2>2, DoneKept
      <4> QED
        BY <2>1, <2>6, <4>1, <4>2 DEF n
    <3>4. op \in ackRoute => op \in ackRoute'
      BY <1>3, <2>1
    <3>5. UNCHANGED head[e] /\ Moving(e)
      BY <1>1, <2>1
    <3> QED
      BY <1>2, <3>1, <3>2, <3>3, <3>4, <3>5, MovingKept DEF retry
  <2>7. CASE e # d
    <3>1. /\ \A j \in DOMAIN waiting : waiting[j] = op => \E i \in DOMAIN waiting' : waiting'[i] = op
          /\ \A j \in DOMAIN c2r : \E i \in DOMAIN c2r' : c2r'[i] = c2r[j]
      <4>1. CASE StillHead(d, n)
        BY <1>3, <2>2, <2>3, <2>7, <4>1, SendMoves
      <4>2. CASE ~StillHead(d, n)
        BY <2>3, <4>2 DEF slots
      <4> QED
        BY <4>1, <4>2
    <3>2. OnWire(op) => OnWire(op)'
      BY <2>1, <3>1, OnWireKept
    <3>3. op \in ackRoute => op \in ackRoute'
      BY <1>3, <2>1
    <3>4. e \in refused /\ retryTimer => e \in refused' /\ retryTimer'
      BY <2>4, <2>7, AcceptKeeps DEF retry
    <3>5. Untouched(e) /\ UNCHANGED head[e] /\ UNCHANGED tail[e] /\ Moving(e)
      BY <1>1, <2>1, <2>7 DEF Untouched
    <3> QED
      BY <1>2, <3>1, <3>2, <3>3, <3>4, <3>5, MovingKept
  <2> QED
    BY <2>5, <2>6, <2>7
<1>6. CASE RunCommit(d)
  <2>1. head'[d] = 0 /\ \A f \in Docs : f # d => Untouched(f)
    BY <1>6, RunCommitEngines
  <2>2. /\ UNCHANGED <<r2c, ackRoute, waiting, retry>>
        /\ c2r' = c2r \/ c2r' = Append(c2r, Msg("confirm", OpOf(d, Head(tail[d]).n)))
    BY <1>6 DEF RunCommit, slots
  <2>3. \A j \in DOMAIN c2r : \E i \in DOMAIN c2r' : c2r'[i] = c2r[j]
    <3>1. tail[d] # <<>> /\ Head(tail[d]) \in Task
      BY <1>1, <1>6, Typed DEF RunCommit
    <3>2. Head(tail[d]).n \in 1..MaxOps
      BY <1>1, <3>1, Typed
    <3>3. OpOf(d, Head(tail[d]).n) \in Op
      BY <1>1, <3>2, Typed
    <3>4. Msg("confirm", OpOf(d, Head(tail[d]).n)) \in ClientMsg /\ c2r \in Seq(ClientMsg)
      BY <1>1, <3>3, Typed DEF Msg, ClientMsg
    <3> QED
      BY <2>2, <3>4, AppendPlaces
  <2>4. OnWire(op) => OnWire(op)'
    BY <2>2, <2>3, OnWireKept
  <2>5. e # d /\ UNCHANGED head[e] /\ UNCHANGED tail[e] /\ Moving(e)
    BY <1>1, <2>1 DEF Untouched
  <2> QED
    BY <1>2, <2>2, <2>4, <2>5, MovingKept DEF retry
<1>7. CASE DrainedNothing(d)
  <2>1. /\ UNCHANGED <<head, tail, c2r, r2c, waiting>> /\ head[d] = 0
        /\ \A r \in ackRoute : r.n = head[r.doc] => r \in ackRoute'
        /\ UNCHANGED retry \/ WriteAccepted({d})
    BY <1>7, DrainedEngines DEF DrainedNothing, slots, Finished
  <2>2. e # d /\ Moving(e)
    BY <1>1, <2>1
  <2>3. OnWire(op) => OnWire(op)'
    BY <2>1, OnWireKept
  <2>4. e \in refused /\ retryTimer => e \in refused' /\ retryTimer'
    BY <2>1, <2>2, AcceptKeeps
  <2>5. op \in ackRoute => op \in ackRoute'
    BY <1>3, <2>1
  <2> QED
    BY <1>2, <2>1, <2>2, <2>3, <2>4, <2>5, MovingKept
<1> QED
  BY <1>4, <1>5, <1>6, <1>7 DEF Engine

LEMMA SocketMoves ==
    ASSUME WindowInv, EngineInv, NothingStalls, Open \/ Close \/ RetryRefused
    PROVE  NothingStalls'
<1>1. TypeOK
  BY DEF WindowInv
<1>2. CASE Open
  <2> DEFINE docs == {d \in Docs : head[d] # 0}
  <2>1. /\ tail' = [d \in Docs |-> IF d \in docs THEN Append(tail[d], Mark(head[d], "resend")) ELSE tail[d]]
        /\ UNCHANGED <<head, made, finishing, ackRoute, waiting>>
    BY <1>2 DEF Open, slots
  <2>2. \A d \in docs : head[d] # 0
    OBVIOUS
  <2>3. \A d \in Docs : head'[d] # 0 => d \in docs
    BY <2>1
  <2> HIDE DEF docs
  <2>4. \A d \in Docs : d \in docs => \E i \in DOMAIN tail'[d] : tail'[d][i].n = head'[d]
    BY <2>1, <2>2, ResendsEngines
  <2> QED
    BY <2>3, <2>4, NothingStallsNext DEF Moving
<1>3. CASE Close
  BY <1>3, NothingStallsNext DEF Close
<1>4. CASE RetryRefused
  <2> SUFFICES ASSUME open, NEW e \in Docs, head'[e] # 0 PROVE Moving(e)'
    BY <1>4, NothingStallsNext DEF RetryRefused
  <2> DEFINE docs == {d \in refused : head[d] # 0}
  <2>1. /\ tail' = [d \in Docs |-> IF d \in docs THEN Append(tail[d], Mark(head[d], "resend")) ELSE tail[d]]
        /\ UNCHANGED <<head, made, finishing, ackRoute, waiting, c2r, r2c>>
    BY <1>4 DEF RetryRefused, slots
  <2>2. \A d \in docs : head[d] # 0
    OBVIOUS
  <2>3. e \in refused => e \in docs
    BY <2>1
  <2> HIDE DEF docs
  <2>4. /\ \A d \in Docs : d \notin docs => Untouched(d)
        /\ \A d \in Docs : d \in docs => \E i \in DOMAIN tail'[d] : tail'[d][i].n = head'[d]
    BY <2>1, <2>2, ResendsEngines
  <2>5. CASE e \in docs
    BY <2>4, <2>5 DEF Moving
  <2>6. CASE e \notin docs
    <3>1. PICK op : op = OpOf(e, head[e])
      OBVIOUS
    <3>2. OnWire(op) => OnWire(op)'
      BY <2>1, OnWireKept
    <3>3. Untouched(e) /\ UNCHANGED head[e] /\ UNCHANGED tail[e] /\ Moving(e) /\ e \notin refused
      BY <2>1, <2>3, <2>4, <2>6, NothingStallsIs DEF Untouched
    <3> QED
      BY <2>1, <3>1, <3>2, <3>3, MovingKept
  <2> QED
    BY <2>5, <2>6
<1> QED
  BY <1>2, <1>3, <1>4

\* What the relay takes from the socket it answers, a confirmation excepted.
LEMMA RelayMoves ==
    ASSUME WindowInv, NEW op, RelayAppend \/ RelayRefuse \/ RelayConfirm
    PROVE  OnWire(op) => OnWire(op)'
<1>1. c2r # <<>> /\ c2r' = Tail(c2r) /\ c2r \in Seq(ClientMsg) /\ r2c \in Seq(ServerMsg) /\ Head(c2r).op \in Op
  BY Typed DEF WindowInv, RelayAppend, RelayRefuse, RelayConfirm
<1>2. /\ Head(c2r) = c2r[1]
      /\ \A j \in DOMAIN c2r : j = 1 \/ (j - 1 \in DOMAIN c2r' /\ c2r'[j - 1] = c2r[j])
  BY <1>1, TailPlaces
<1>3. \/ \E t \in {"ack", "refused"} : r2c' = Append(r2c, Msg(t, Head(c2r).op))
      \/ UNCHANGED r2c /\ Head(c2r).t = "confirm"
  BY DEF RelayAppend, RelayRefuse, RelayConfirm
<1>4. CASE \E t \in {"ack", "refused"} : r2c' = Append(r2c, Msg(t, Head(c2r).op))
  <2>1. PICK t \in {"ack", "refused"} : r2c' = Append(r2c, Msg(t, Head(c2r).op))
    BY <1>4
  <2>2. Msg(t, Head(c2r).op) \in ServerMsg
    BY <1>1 DEF Msg, ServerMsg
  <2>3. /\ \A i \in DOMAIN r2c : i \in DOMAIN r2c' /\ r2c'[i] = r2c[i]
        /\ \E last \in DOMAIN r2c' : r2c'[last] = Msg(t, Head(c2r).op)
    <3>1. ASSUME NEW m \in ServerMsg, r2c' = Append(r2c, m)
          PROVE  /\ \A i \in DOMAIN r2c : i \in DOMAIN r2c' /\ r2c'[i] = r2c[i]
                 /\ \E last \in DOMAIN r2c' : r2c'[last] = m
      <4>1. r2c \in Seq(ServerMsg)
        BY <1>1
      <4> QED
        BY <3>1, <4>1, AppendPlaces
    <3> QED
      BY <2>1, <2>2, <3>1
  <2>4. \A j \in DOMAIN c2r : c2r[j] = Msg("append", op) =>
            \/ \E i \in DOMAIN c2r' : c2r'[i] = Msg("append", op)
            \/ \E i \in DOMAIN r2c' : r2c'[i].op = op
    BY <1>2, <2>3 DEF Msg
  <2> QED
    BY <2>3, <2>4 DEF OnWire
<1>5. CASE UNCHANGED r2c /\ Head(c2r).t = "confirm"
  <2>1. Head(c2r) # Msg("append", op)
    BY <1>5 DEF Msg
  <2> QED
    BY <1>2, <1>5, <2>1 DEF OnWire
<1> QED
  BY <1>3, <1>4, <1>5

LEMMA WireMoves ==
    ASSUME WindowInv, EngineInv, NothingStalls,
           RelayAppend \/ RelayRefuse \/ RelayConfirm \/ ReceiveAck \/ ReceiveRefusal
    PROVE  NothingStalls'
<1> SUFFICES ASSUME open, NEW e \in Docs, head'[e] # 0 PROVE Moving(e)'
  <2>1. UNCHANGED open
    BY DEF RelayAppend, RelayRefuse, RelayConfirm, ReceiveAck, ReceiveRefusal
  <2> QED
    BY <2>1, NothingStallsNext
<1>1. TypeOK /\ UNCHANGED head /\ Moving(e)
  <2>1. UNCHANGED head
    BY DEF RelayAppend, RelayRefuse, RelayConfirm, ReceiveAck, ReceiveRefusal, engines
  <2> QED
    BY <2>1, NothingStallsIs DEF WindowInv
<1>2. PICK op : op = OpOf(e, head[e])
  OBVIOUS
<1>3. op.doc = e /\ op.n = head[e]
  BY <1>2 DEF OpOf
<1>4. CASE RelayAppend \/ RelayRefuse \/ RelayConfirm
  <2>1. UNCHANGED <<tail, ackRoute, waiting, refused, retryTimer>>
    BY <1>4 DEF RelayAppend, RelayRefuse, RelayConfirm, engines, slots, retry
  <2>2. OnWire(op) => OnWire(op)'
    BY <1>4, RelayMoves
  <2> QED
    BY <1>1, <1>2, <2>1, <2>2, MovingKept
<1> DEFINE answered == Head(r2c).op
<1>5. ASSUME ReceiveAck \/ ReceiveRefusal
      PROVE  /\ answered \in Op /\ r2c # <<>> /\ answered.doc \in Docs
             /\ \A j \in DOMAIN r2c : r2c[j].op = answered \/ \E i \in DOMAIN r2c' : r2c'[i] = r2c[j]
             /\ OperationAnswered(answered) \/ UNCHANGED <<slots, c2r>>
             /\ \A r \in ackRoute : r.n = head[r.doc] => r \in ackRoute'
  <2>1. r2c # <<>> /\ r2c' = Tail(r2c)
    BY <1>5 DEF ReceiveAck, ReceiveRefusal
  <2>2. answered \in Op
    BY <1>1, <2>1, Typed
  <2>3. answered.doc \in Docs
    BY <1>1, <2>2, Typed
  <2>4. \A j \in DOMAIN r2c : r2c[j] = Head(r2c) \/ \E i \in DOMAIN r2c' : r2c'[i] = r2c[j]
    <3>1. r2c \in Seq(ServerMsg)
      BY <1>1, Typed
    <3>2. /\ Head(r2c) = r2c[1]
          /\ \A j \in DOMAIN r2c : j = 1 \/ (j - 1 \in DOMAIN r2c' /\ r2c'[j - 1] = r2c[j])
      BY <2>1, <3>1, TailPlaces
    <3> QED
      BY <3>2
  <2>5. OperationAnswered(answered) \/ UNCHANGED <<slots, c2r>>
    BY <1>5 DEF ReceiveAck, ReceiveRefusal
  <2>6. \A r \in ackRoute : r.n = head[r.doc] => r \in ackRoute'
    BY <1>5, ReceiveAckEngines DEF ReceiveRefusal
  <2> QED
    BY <2>1, <2>2, <2>3, <2>4, <2>5, <2>6
<1> HIDE DEF answered
<1>6. ASSUME ReceiveAck \/ ReceiveRefusal
      PROVE  /\ op \in ackRoute => op \in ackRoute'
             /\ OnWire(op) => OnWire(op)' \/ op = answered
             /\ \A j \in DOMAIN waiting : waiting[j] = op =>
                  \/ \E i \in DOMAIN waiting' : waiting'[i] = op
                  \/ OnWire(op)' /\ op \in ackRoute'
  <2>1. op \in ackRoute => op \in ackRoute'
    BY <1>3, <1>5, <1>6
  <2>2. /\ \A j \in DOMAIN c2r : \E i \in DOMAIN c2r' : c2r'[i] = c2r[j]
        /\ \A j \in DOMAIN waiting : \/ \E i \in DOMAIN waiting' : waiting'[i] = waiting[j]
                                     \/ \E i \in DOMAIN c2r' : c2r'[i] = Msg("append", waiting[j])
    <3>1. CASE OperationAnswered(answered)
      BY <1>5, <1>6, <3>1, AnswerMoves
    <3>2. CASE UNCHANGED <<slots, c2r>>
      BY <3>2 DEF slots
    <3> QED
      BY <1>5, <1>6, <3>1, <3>2
  <2>3. OnWire(op) => OnWire(op)' \/ op = answered
    BY <1>5, <1>6, <2>2 DEF OnWire
  <2>4. \A j \in DOMAIN waiting : waiting[j] = op => op \in ackRoute'
    BY <1>3, <2>1 DEF EngineInv, Waits
  <2> QED
    BY <2>1, <2>2, <2>3, <2>4 DEF OnWire
<1>7. CASE ReceiveRefusal
  <2>1. /\ UNCHANGED tail /\ refused' = refused \cup {answered.doc} /\ retryTimer' = TRUE
    BY <1>7 DEF ReceiveRefusal, engines, answered
  <2>2. CASE op = answered
    BY <1>3, <2>1, <2>2 DEF Moving
  <2>3. CASE op # answered
    BY <1>1, <1>2, <1>6, <1>7, <2>1, <2>3, MovingKept
  <2> QED
    BY <2>2, <2>3
<1>8. CASE ReceiveAck
  <2>1. /\ \A j \in DOMAIN tail[e] : \E i \in DOMAIN tail'[e] : tail'[e][i] = tail[e][j]
        /\ op = answered /\ op \in ackRoute => \E i \in DOMAIN tail'[e] : tail'[e][i].n = head[e]
    BY <1>2, <1>8, ReceiveAckEngines DEF answered
  <2>2. OnWire(op) /\ op \in ackRoute =>
            OnWire(op)' \/ \E i \in DOMAIN tail'[e] : tail'[e][i].n = head[e]
    BY <1>6, <1>8, <2>1
  <2>3. e \in refused /\ retryTimer =>
            (e \in refused' /\ retryTimer') \/ \E i \in DOMAIN tail'[e] : tail'[e][i].n = head[e]
    <3>1. CASE UNCHANGED retry
      BY <3>1 DEF retry
    <3>2. CASE answered \in ackRoute /\ head[answered.doc] # answered.n /\ WriteAccepted({answered.doc})
      <4>1. CASE answered.doc = e
        <5>1. answered.n \in finishing[e] /\ Numbers(e)
          BY <3>2, <4>1 DEF EngineInv, Routed
        <5>2. Unsent(e) /\ DrainsFirst(e)
          BY <1>1, <5>1 DEF Numbers, EngineInv
        <5>3. \E j \in DOMAIN tail[e] : tail[e][j].n = head[e]
          BY <5>2 DEF Unsent, DrainsFirst
        <5> QED
          BY <2>1, <5>3
      <4>2. CASE answered.doc # e
        BY <3>2, <4>2, AcceptKeeps
      <4> QED
        BY <4>1, <4>2
    <3> QED
      BY <1>8, <3>1, <3>2 DEF ReceiveAck, answered
  <2> QED
    BY <1>1, <1>2, <1>6, <1>8, <2>1, <2>2, <2>3, MovingKept
<1> QED
  BY <1>4, <1>7, <1>8

LEMMA MovesStep == ASSUME WindowInv, EngineInv, NothingStalls, [Next]_vars PROVE NothingStalls'
<1>1. CASE UNCHANGED vars
  BY <1>1 DEF vars, engines, slots, retry, NothingStalls, OnWire
<1>2. CASE Next
  BY <1>2, EngineMoves, SocketMoves, WireMoves DEF Next
<1> QED
  BY <1>1, <1>2

\* While the socket is open a queued operation always has a next step: a task of its engine, a
\* message whose answer finds its way back, a place to wait in, or an armed retry (sendOperation,
\* operationAnswered, noteRefusal, writeAccepted).
THEOREM AlwaysANextStep == Spec => []NothingStalls
<1>1. Init => NothingStalls
  BY DEF Init, NothingStalls
<1>2. WindowInv /\ EngineInv /\ NothingStalls /\ [Next]_vars => NothingStalls'
  BY MovesStep
<1> QED
  BY <1>1, <1>2, WindowInvariant, EngineInvariant, PTL DEF Spec

-----------------------------------------------------------------------------
(* With a place for every document nothing is stored twice.                *)

Settled(op) == op.n <= made[op.doc] /\ op.n # head[op.doc]

Stored(op) == \E i \in DOMAIN log[op.doc] : log[op.doc][i] = op.n

\* What the relay may forget is settled, and no append of it comes behind.
ConfirmsLast ==
    \A i \in DOMAIN c2r : c2r[i].t = "confirm" =>
        /\ Settled(c2r[i].op)
        /\ \A j \in DOMAIN c2r : j > i => c2r[j] # Msg("append", c2r[i].op)

Forgotten ==
    \A op \in Op : Stored(op) /\ op \notin receipts =>
        Settled(op) /\ \A i \in DOMAIN c2r : c2r[i] # Msg("append", op)

Roomy == window >= Cardinality(Docs)

RoomyInv == Roomy => waiting = <<>> /\ ConfirmsLast /\ Forgotten /\ RelayAppliesOnce

\* What was settled stays settled.
SettledStays == \A op \in Op : Settled(op) => Settled(op)'

LEMMA NeverFull ==
    ASSUME TypeOK, Roomy, NEW d \in Docs
    PROVE  ~NoRoom(d)
<1> SUFFICES ASSUME inFlight[d] = 0 PROVE Cardinality(InFlight(inFlight)) < window
  BY Typed, InFlightFinite DEF NoRoom
<1>1. InFlight(inFlight) \in SUBSET Docs /\ d \notin InFlight(inFlight)
  BY DEF InFlight
<1>2. /\ Cardinality(InFlight(inFlight)) <= Cardinality(Docs)
      /\ Cardinality(InFlight(inFlight)) # Cardinality(Docs)
  BY <1>1, DocsAssumption, FS_Subset
<1>3. Cardinality(InFlight(inFlight)) \in Nat /\ Cardinality(Docs) \in Nat /\ window \in Nat
  BY DocsAssumption, InFlightFinite, FS_CardinalityType, Typed
<1> QED
  BY <1>2, <1>3 DEF Roomy

LEMMA Settles ==
    ASSUME WindowInv, EngineInv, [Next]_vars
    PROVE  SettledStays
<1>1. TypeOK
  BY DEF WindowInv
<1>2. ASSUME NEW d \in Docs
      PROVE  \/ UNCHANGED made[d] /\ (head'[d] = head[d] \/ head'[d] = 0)
             \/ made'[d] = made[d] + 1 /\ head'[d] = made[d] + 1
  <2>1. CASE UNCHANGED <<head, made>>
    BY <2>1
  <2>2. CASE \E e \in Docs : Queue(e)
    BY <1>1, <2>2 DEF Queue, TypeOK
  <2>3. CASE \E e \in Docs : RunCommit(e)
    BY <1>1, <2>3 DEF RunCommit, TypeOK
  <2> QED
    BY <2>1, <2>2, <2>3 DEF Next, Engine, RunMark, DrainedNothing, Open, Close, RetryRefused, RelayAppend,
       RelayRefuse, RelayConfirm, ReceiveAck, ReceiveRefusal, engines, vars
<1>3. \A op \in Op : op.doc \in Docs /\ op.n \in 1..MaxOps /\ made[op.doc] \in Nat
  BY <1>1, Typed
<1> SUFFICES ASSUME NEW op \in Op, Settled(op) PROVE Settled(op)'
  BY DEF SettledStays
<1>4. op.n \in Nat /\ op.n # 0 /\ made[op.doc] \in Nat /\ op.doc \in Docs
  BY <1>3
<1> QED
  BY <1>2, <1>4 DEF Settled

LEMMA ClientOps ==
    ASSUME TypeOK
    PROVE  /\ c2r \in Seq(ClientMsg)
           /\ \A i \in DOMAIN c2r : i \in Nat /\ c2r[i] \in ClientMsg /\ c2r[i].op \in Op
<1>1. c2r \in Seq(ClientMsg)
  BY Typed
<1>2. \A i \in DOMAIN c2r : i \in Nat /\ c2r[i] \in ClientMsg
  BY <1>1, Members
<1> QED
  BY <1>1, <1>2 DEF ClientMsg

LEMMA RoomyFrame ==
    ASSUME TypeOK, RoomyInv, SettledStays, UNCHANGED <<c2r, waiting, relay, window>>
    PROVE  RoomyInv'
<1>1. \A i \in DOMAIN c2r : c2r[i].op \in Op
  BY ClientOps
<1> SUFFICES ASSUME Roomy PROVE (waiting = <<>> /\ ConfirmsLast /\ Forgotten /\ RelayAppliesOnce)'
  BY DEF RoomyInv, Roomy
<1>2. waiting = <<>> /\ ConfirmsLast /\ Forgotten /\ RelayAppliesOnce
  BY DEF RoomyInv
<1>3. ConfirmsLast'
  BY <1>1, <1>2 DEF ConfirmsLast, SettledStays
<1>4. Forgotten'
  BY <1>2 DEF Forgotten, SettledStays, Stored, relay
<1> QED
  BY <1>2, <1>3, <1>4 DEF RelayAppliesOnce, relay

\* A message is put into the socket: an append of what is not settled, or a confirmation of what is.
LEMMA RoomySends ==
    ASSUME TypeOK, RoomyInv, SettledStays, UNCHANGED <<waiting, relay, window>>,
           NEW m \in ClientMsg, c2r' = Append(c2r, m),
           m.t = "append" => ~Settled(m.op), m.t = "confirm" => Settled(m.op)'
    PROVE  RoomyInv'
<1>1. c2r \in Seq(ClientMsg) /\ \A i \in DOMAIN c2r : c2r[i].op \in Op /\ i \in Nat
  BY ClientOps
<1>2. \A i \in DOMAIN c2r : i \in DOMAIN c2r' /\ c2r'[i] = c2r[i]
  BY <1>1, AppendPlaces
<1>3. PICK last \in DOMAIN c2r' :
        c2r'[last] = m /\ \A i \in DOMAIN c2r' : i = last \/ (i \in DOMAIN c2r /\ i < last)
  BY <1>1, AppendPlaces
<1> SUFFICES ASSUME Roomy PROVE (waiting = <<>> /\ ConfirmsLast /\ Forgotten /\ RelayAppliesOnce)'
  BY DEF RoomyInv, Roomy
<1>4. waiting = <<>> /\ ConfirmsLast /\ Forgotten /\ RelayAppliesOnce
  BY DEF RoomyInv
<1>5. \A op \in Op : Settled(op) => m # Msg("append", op)
  BY DEF Msg
<1>6. ConfirmsLast'
  <2> SUFFICES ASSUME NEW i \in DOMAIN c2r', c2r'[i].t = "confirm"
               PROVE  /\ Settled(c2r[i].op)'
                      /\ \A j \in DOMAIN c2r' : j > i => c2r'[j] # Msg("append", c2r'[i].op)
    BY DEF ConfirmsLast
  <2>1. CASE i = last
    <3>1. last \in Nat
      <4>1. c2r' \in Seq(ClientMsg)
        BY <1>1, AppendPlaces
      <4> QED
        BY <4>1, Members
    <3>2. \A j \in DOMAIN c2r' : ~(j > last)
      BY <1>1, <1>3, <3>1
    <3>3. Settled(c2r[i].op)'
      BY <1>3, <2>1 DEF Settled
    <3> QED
      BY <1>3, <2>1, <3>2, <3>3
  <2>2. CASE i \in DOMAIN c2r
    <3>1. Settled(c2r[i].op) /\ \A j \in DOMAIN c2r : j > i => c2r[j] # Msg("append", c2r[i].op)
      BY <1>2, <1>4, <2>2 DEF ConfirmsLast
    <3>2. PICK r \in Op : r = c2r[i].op
      BY <1>1, <2>2
    <3>3. Settled(r) /\ Settled(r)' /\ c2r'[i].op = r
      BY <1>2, <2>2, <3>1, <3>2 DEF SettledStays
    <3>4. Settled(c2r[i].op)'
      BY <3>3 DEF Settled
    <3>5. \A j \in DOMAIN c2r' : j > i => c2r'[j] # Msg("append", r)
      BY <1>2, <1>3, <1>5, <3>1, <3>2, <3>3
    <3> QED
      BY <3>3, <3>4, <3>5
  <2> QED
    BY <1>3, <2>1, <2>2
<1>7. Forgotten'
  <2> SUFFICES ASSUME NEW op \in Op, Stored(op), op \notin receipts
               PROVE  Settled(op)' /\ \A i \in DOMAIN c2r' : c2r'[i] # Msg("append", op)
    BY DEF Forgotten, Stored, relay
  <2>1. Settled(op) /\ \A i \in DOMAIN c2r : c2r[i] # Msg("append", op)
    BY <1>4 DEF Forgotten
  <2> QED
    BY <1>2, <1>3, <1>5, <2>1 DEF SettledStays
<1> QED
  BY <1>4, <1>6, <1>7 DEF RelayAppliesOnce, relay

\* What leaves the socket leaves the order of the rest.
LEMMA ConfirmsTail ==
    ASSUME TypeOK, ConfirmsLast, SettledStays, c2r # <<>>, c2r' = Tail(c2r)
    PROVE  /\ ConfirmsLast' /\ Head(c2r) = c2r[1] /\ 1 \in DOMAIN c2r
           /\ \A i \in DOMAIN c2r' : \E j \in DOMAIN c2r : j > 1 /\ c2r'[i] = c2r[j]
<1>1. /\ 1 \in DOMAIN c2r /\ Head(c2r) = c2r[1]
      /\ \A i \in DOMAIN c2r' : i \in Nat /\ i > 0 /\ i + 1 \in DOMAIN c2r /\ c2r'[i] = c2r[i + 1]
  BY TailPlaces, Typed
<1>2. \A i \in DOMAIN c2r : c2r[i].op \in Op
  BY ClientOps
<1>3. \A i \in DOMAIN c2r' : i + 1 > 1
  BY <1>1
<1>4. ConfirmsLast'
  <2> SUFFICES ASSUME NEW i \in DOMAIN c2r', c2r'[i].t = "confirm"
               PROVE  /\ Settled(c2r[i].op)'
                      /\ \A j \in DOMAIN c2r' : j > i => c2r'[j] # Msg("append", c2r'[i].op)
    BY DEF ConfirmsLast
  <2>1. /\ Settled(c2r[i + 1].op)
        /\ \A j \in DOMAIN c2r : j > i + 1 => c2r[j] # Msg("append", c2r[i + 1].op)
    BY <1>1 DEF ConfirmsLast
  <2>2. \A j \in DOMAIN c2r' : j > i => j + 1 > i + 1
    BY <1>1
  <2>3. PICK r \in Op : r = c2r[i + 1].op
    BY <1>1, <1>2
  <2>4. Settled(r)' /\ c2r'[i].op = r
    BY <1>1, <2>1, <2>3 DEF SettledStays
  <2>5. Settled(c2r[i].op)'
    BY <2>4 DEF Settled
  <2>6. \A j \in DOMAIN c2r' : j > i => c2r'[j] # Msg("append", r)
    BY <1>1, <2>1, <2>2, <2>3
  <2> QED
    BY <2>4, <2>5, <2>6
<1> QED
  BY <1>1, <1>3, <1>4

LEMMA RoomyRelay ==
    ASSUME TypeOK, RoomyInv, SettledStays, RelayAppend \/ RelayRefuse \/ RelayConfirm, UNCHANGED window
    PROVE  RoomyInv'
<1> SUFFICES ASSUME Roomy PROVE (waiting = <<>> /\ ConfirmsLast /\ Forgotten /\ RelayAppliesOnce)'
  BY DEF RoomyInv, Roomy
<1> DEFINE op == Head(c2r).op
<1>1. waiting = <<>> /\ ConfirmsLast /\ Forgotten /\ RelayAppliesOnce
  BY DEF RoomyInv
<1>2. c2r # <<>> /\ c2r' = Tail(c2r) /\ UNCHANGED waiting
  BY DEF RelayAppend, RelayRefuse, RelayConfirm, slots
<1>3. /\ ConfirmsLast' /\ Head(c2r) = c2r[1] /\ 1 \in DOMAIN c2r
      /\ \A i \in DOMAIN c2r' : \E j \in DOMAIN c2r : j > 1 /\ c2r'[i] = c2r[j]
  BY <1>1, <1>2, ConfirmsTail
<1>4. op \in Op /\ op.doc \in Docs /\ op.n \in 1..MaxOps /\ Head(c2r) \in ClientMsg
  <2>1. op \in Op /\ Head(c2r) \in ClientMsg
    BY <1>2, Typed
  <2> QED
    BY <2>1, Typed
<1>5. ASSUME NEW r \in Op, Stored(r), r \notin receipts
      PROVE  Settled(r)' /\ (\A i \in DOMAIN c2r' : c2r'[i] # Msg("append", r)) /\ Head(c2r) # Msg("append", r)
  BY <1>1, <1>3, <1>5 DEF Forgotten, SettledStays
<1>6. CASE UNCHANGED relay
  <2>1. Forgotten'
    BY <1>5, <1>6 DEF Forgotten, Stored, relay
  <2> QED
    BY <1>1, <1>2, <1>3, <1>6, <2>1 DEF RelayAppliesOnce, relay
<1>7. CASE /\ Head(c2r).t = "append" /\ op \notin receipts
           /\ log' = [log EXCEPT ![op.doc] = Append(@, op.n)]
           /\ receipts' = receipts \cup {op}
  <2>1. ~Stored(op)
    <3>1. Head(c2r) = Msg("append", op)
      BY <1>4, <1>7 DEF Msg, ClientMsg
    <3> QED
      BY <1>4, <1>5, <1>7, <3>1
  <2>2. PICK d \in Docs, n \in 1..MaxOps : op.doc = d /\ op.n = n
    BY <1>4
  <2> HIDE DEF op
  <2>3. /\ log'[d] = Append(log[d], n) /\ log[d] \in Seq(1..MaxOps)
        /\ \A e \in Docs : e # d => log'[e] = log[e]
    BY <1>7, <2>2 DEF TypeOK
  <2>4. \A i \in DOMAIN log[d] : i \in DOMAIN log'[d] /\ log'[d][i] = log[d][i]
    BY <2>3, AppendPlaces
  <2>5. PICK last \in DOMAIN log'[d] :
          log'[d][last] = n /\ \A i \in DOMAIN log'[d] : i = last \/ i \in DOMAIN log[d]
    BY <2>3, AppendPlaces
  <2>6. \A i \in DOMAIN log[d] : log[d][i] # n
    BY <2>1, <2>2 DEF Stored
  <2>7. RelayAppliesOnce'
    <3>1. \A i, j \in DOMAIN log'[d] : log'[d][i] = log'[d][j] => i = j
      BY <1>1, <2>4, <2>5, <2>6 DEF RelayAppliesOnce
    <3> QED
      BY <1>1, <2>3, <3>1 DEF RelayAppliesOnce
  <2>8. Forgotten'
    <3> SUFFICES ASSUME NEW r \in Op, Stored(r)', r \notin receipts'
                 PROVE  Settled(r)' /\ \A i \in DOMAIN c2r' : c2r'[i] # Msg("append", r)
      BY DEF Forgotten
    <3>1. r \notin receipts /\ r # op
      BY <1>7
    <3>2. r.doc # d \/ r.n # n
      BY <1>4, <2>2, <3>1 DEF Op
    <3>3. r.doc \in Docs
      BY DEF Op
    <3>4. Stored(r)
      BY <2>3, <2>4, <2>5, <3>2, <3>3 DEF Stored
    <3> QED
      BY <1>5, <3>1, <3>4
  <2> QED
    BY <1>1, <1>2, <1>3, <2>7, <2>8
<1>8. CASE RelayConfirm
  <2>1. Head(c2r).t = "confirm" /\ receipts' = receipts \ {op} /\ UNCHANGED log
    BY <1>8 DEF RelayConfirm
  <2>2. Settled(op) /\ \A j \in DOMAIN c2r : j > 1 => c2r[j] # Msg("append", op)
    BY <1>1, <1>3, <2>1 DEF ConfirmsLast
  <2>3. \A i \in DOMAIN c2r' : c2r'[i] # Msg("append", op)
    BY <1>3, <2>2
  <2>4. ASSUME NEW r \in Op, r = op PROVE Settled(r)'
    BY <1>4, <2>2, <2>4 DEF SettledStays
  <2> HIDE DEF op
  <2>5. Forgotten'
    <3> SUFFICES ASSUME NEW r \in Op, Stored(r)', r \notin receipts'
                 PROVE  Settled(r)' /\ \A i \in DOMAIN c2r' : c2r'[i] # Msg("append", r)
      BY DEF Forgotten
    <3>1. Stored(r)
      BY <2>1 DEF Stored
    <3>2. CASE r = op
      BY <2>3, <2>4, <3>2
    <3>3. CASE r # op
      BY <1>5, <2>1, <3>1, <3>3
    <3> QED
      BY <3>2, <3>3
  <2> QED
    BY <1>1, <1>2, <1>3, <2>1, <2>5 DEF RelayAppliesOnce
<1> QED
  BY <1>6, <1>7, <1>8 DEF RelayAppend, RelayRefuse, relay

LEMMA RoomyEngine ==
    ASSUME WindowInv, EngineInv, RoomyInv, SettledStays, NEW d \in Docs, Engine(d), UNCHANGED window
    PROVE  RoomyInv'
<1> SUFFICES ASSUME Roomy PROVE RoomyInv'
  BY DEF RoomyInv, Roomy
<1>1. TypeOK /\ Slots /\ Numbers(d) /\ window \in Nat
  BY Typed DEF WindowInv, EngineInv
<1>2. CASE Queue(d) \/ DrainedNothing(d)
  <2>1. UNCHANGED <<c2r, waiting, relay>>
    BY <1>2 DEF Queue, DrainedNothing, slots
  <2> QED
    BY <1>1, <2>1, RoomyFrame
<1> DEFINE n == Head(tail[d]).n
           op == OpOf(d, n)
<1>3. ASSUME RunMark(d) \/ RunCommit(d)
      PROVE  /\ op \in Op /\ op.doc = d /\ op.n = n /\ n \in 1..MaxOps
             /\ 1 \in DOMAIN tail[d] /\ Head(tail[d]) = tail[d][1]
  <2>1. tail[d] # <<>>
    BY <1>3 DEF RunMark, RunCommit
  <2>2. Head(tail[d]) \in Task /\ tail[d] \in Seq(Task)
    BY <1>1, <2>1, Typed
  <2>3. n \in 1..MaxOps
    BY <1>1, <2>2, Typed
  <2>4. op \in Op /\ op.doc = d /\ op.n = n
    BY <1>1, <2>3, Typed
  <2>5. 1 \in DOMAIN tail[d] /\ Head(tail[d]) = tail[d][1]
    BY <2>1, <2>2, TailPlaces
  <2> QED
    BY <2>3, <2>4, <2>5
<1>4. CASE RunMark(d)
  <2>1. IF StillHead(d, n) THEN SendOperation(op) ELSE UNCHANGED <<slots, c2r>>
    BY <1>4 DEF RunMark
  <2>2. UNCHANGED relay
    BY <1>4 DEF RunMark
  <2>3. CASE StillHead(d, n)
    <3>1. ~Settled(op)
      BY <1>3, <1>4, <2>3 DEF StillHead, Settled
    <3>2. ~NoRoom(d)
      BY <1>1, NeverFull
    <3>3. PICK s \in Op : s = op
      BY <1>3, <1>4
    <3> HIDE DEF op
    <3>4. SendOperation(s) /\ ~NoRoom(s.doc) /\ ~Settled(s)
      BY <1>3, <1>4, <2>1, <2>3, <3>1, <3>2, <3>3
    <3>5. UNCHANGED <<waiting, c2r>> \/ (UNCHANGED waiting /\ c2r' = Append(c2r, Msg("append", s)))
      BY <1>1, <3>4, SendCases DEF slots
    <3>6. Msg("append", s) \in ClientMsg /\ Msg("append", s).t = "append" /\ Msg("append", s).op = s
      BY DEF Msg, ClientMsg
    <3>7. CASE UNCHANGED <<waiting, c2r>>
      BY <1>1, <2>2, <3>7, RoomyFrame
    <3>8. CASE UNCHANGED waiting /\ c2r' = Append(c2r, Msg("append", s))
      BY <1>1, <2>2, <3>4, <3>6, <3>8, RoomySends
    <3> QED
      BY <3>5, <3>7, <3>8
  <2>4. CASE ~StillHead(d, n)
    <3>1. UNCHANGED <<waiting, c2r>>
      BY <2>1, <2>4 DEF slots
    <3> QED
      BY <1>1, <2>2, <3>1, RoomyFrame
  <2> QED
    BY <2>3, <2>4
<1>5. CASE RunCommit(d)
  <2>1. PICK s \in Op : s = op
    BY <1>3, <1>5
  <2>2. UNCHANGED <<waiting, relay>> /\ (c2r' = c2r \/ c2r' = Append(c2r, Msg("confirm", s)))
    BY <1>5, <2>1 DEF RunCommit, slots
  <2>3. s.doc = d /\ s.n \in 1..MaxOps /\ s.n <= made[d]
    BY <1>1, <1>3, <1>5, <2>1 DEF Numbers
  <2>4. head'[d] = 0 /\ UNCHANGED made
    BY <1>5, RunCommitEngines DEF RunCommit
  <2>5. Settled(s)'
    BY <2>3, <2>4 DEF Settled
  <2>6. Msg("confirm", s) \in ClientMsg /\ Msg("confirm", s).t = "confirm" /\ Msg("confirm", s).op = s
    BY DEF Msg, ClientMsg
  <2>7. CASE c2r' = c2r
    BY <1>1, <2>2, <2>7, RoomyFrame
  <2>8. CASE c2r' = Append(c2r, Msg("confirm", s))
    BY <1>1, <2>2, <2>5, <2>6, <2>8, RoomySends
  <2> QED
    BY <2>2, <2>7, <2>8
<1> QED
  BY <1>2, <1>4, <1>5 DEF Engine

LEMMA RoomyStep == ASSUME WindowInv, EngineInv, RoomyInv, [Next]_vars PROVE RoomyInv'
<1>1. TypeOK /\ Slots /\ window \in Nat \ {0} /\ SettledStays
  BY Typed, Settles DEF WindowInv
<1>2. CASE UNCHANGED vars
  BY <1>1, <1>2, RoomyFrame DEF vars, slots
<1>3. ASSUME Next PROVE UNCHANGED window
  BY <1>3 DEF Next
<1>4. CASE Next /\ \E d \in Docs : Engine(d)
  BY <1>1, <1>3, <1>4, RoomyEngine
<1>5. CASE Next /\ (Open \/ RetryRefused)
  <2>1. UNCHANGED <<c2r, waiting, relay, window>>
    BY <1>3, <1>5 DEF Open, RetryRefused, slots
  <2> QED
    BY <1>1, <2>1, RoomyFrame
<1>6. CASE Next /\ Close
  <2>1. waiting' = <<>> /\ c2r' = <<>> /\ UNCHANGED relay
    BY <1>6 DEF Close
  <2>2. ConfirmsLast'
    BY <2>1, Empty DEF ConfirmsLast
  <2>3. Roomy => Forgotten' /\ RelayAppliesOnce'
    BY <1>1, <2>1, Empty DEF RoomyInv, Forgotten, SettledStays, Stored, RelayAppliesOnce, relay
  <2> QED
    BY <1>3, <1>6, <2>1, <2>2, <2>3 DEF RoomyInv, Roomy
<1>7. CASE Next /\ (RelayAppend \/ RelayRefuse \/ RelayConfirm)
  BY <1>1, <1>3, <1>7, RoomyRelay
<1>8. CASE Next /\ (ReceiveAck \/ ReceiveRefusal)
  <2> SUFFICES ASSUME Roomy PROVE RoomyInv'
    BY <1>3, <1>8 DEF RoomyInv, Roomy
  <2>1. UNCHANGED relay /\ Head(r2c).op \in Op
    BY <1>1, <1>8, Typed DEF ReceiveAck, ReceiveRefusal
  <2>2. UNCHANGED <<slots, c2r>> \/ OperationAnswered(Head(r2c).op)
    BY <1>8 DEF ReceiveAck, ReceiveRefusal
  <2>3. waiting = <<>>
    BY DEF RoomyInv
  <2>4. UNCHANGED <<waiting, c2r>>
    BY <1>1, <2>1, <2>2, <2>3, AnswerCases DEF slots
  <2> QED
    BY <1>1, <1>3, <1>8, <2>1, <2>4, RoomyFrame
<1> QED
  BY <1>2, <1>4, <1>5, <1>6, <1>7, <1>8 DEF Next

\* With a place in the window for every document a retransmission keeps its turn, and the relay
\* stores no operation twice.
THEOREM AppliedOnceWithRoom == Spec => []RoomyAppliesOnce
<1>1. Init => RoomyInv
  <2> SUFFICES ASSUME Init PROVE RoomyInv
    OBVIOUS
  <2>1. waiting = <<>> /\ DOMAIN c2r = {} /\ \A d \in Docs : DOMAIN log[d] = {}
    BY Empty DEF Init
  <2>2. \A op \in Op : ~Stored(op)
    BY <2>1 DEF Stored, Op
  <2> QED
    BY <2>1, <2>2 DEF RoomyInv, ConfirmsLast, Forgotten, RelayAppliesOnce
<1>2. WindowInv /\ EngineInv /\ RoomyInv /\ [Next]_vars => RoomyInv'
  BY RoomyStep
<1>3. RoomyInv => RoomyAppliesOnce
  BY DEF RoomyInv, Roomy, RoomyAppliesOnce
<1> QED
  BY <1>1, <1>2, <1>3, WindowInvariant, EngineInvariant, PTL DEF Spec
=============================================================================
