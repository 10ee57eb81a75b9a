------------------------- MODULE SessionAccess_proofs -------------------------
(***************************************************************************)
(* A session has one next step, and keeps refused tokens to itself, for    *)
(* any sockets, any tokens and any troubles.                               *)
(***************************************************************************)
EXTENDS SessionAccess, TLAPS, FiniteSetTheorems

(* What a session that has not ended is at: it waits, asks for a token, or *)
(* has a socket.                                                           *)

NoSocket == \A s \in Sockets : phase[s] = "none"

Waits == reconnectTimer # "none" /\ retryWaiting /\ asking = 0 /\ NoSocket
Asks  == reconnectTimer = "none" /\ ~retryWaiting /\ asking = 1 /\ inFlight # "no" /\ NoSocket
Holds ==
    /\ reconnectTimer = "none" /\ ~retryWaiting /\ asking = 0
    /\ socket \in Sockets /\ phase[socket] \in {"connecting", "open"}
    /\ \A s \in Sockets : s # socket => phase[s] = "none"

\* One that has ended sets no timer, and its sockets are closing.
Quiet == reconnectTimer = "none" /\ \A s \in Sockets : phase[s] \in {"none", "closing"}

Course ==
    /\ IF Ended THEN Quiet ELSE Waits \/ Asks \/ Holds
    \* A token is not awaited when a message ends the protocol.
    /\ protocolMismatch /\ MayEnd => asking = 0

\* The owner was not told of what has not happened.
Silence == lost = "no" => told = 0

\* The token in an answer is nobody's yet, and good. A held one that was refused is forgotten by
\* the call that comes next.
Fresh ==
    /\ minted # "none" => /\ minted # held /\ minted \notin refused
                          /\ \A s \in Sockets : presented[s] # minted
Forgets == held \in refused => forceToken \/ Ended

\* A socket that is there was opened with a token, and the session's socket is there.
Carried ==
    /\ inFlight = "token" => minted # "none"
    /\ \A s \in Sockets : phase[s] # "none" => presented[s] # "none"
    /\ socket # "none" => phase[socket] # "none"

AccessInv == TypeOK /\ Silence /\ Carried /\ Course /\ Fresh /\ Forgets

-----------------------------------------------------------------------------
\* The type invariant, part by part.
Flags ==
    /\ protocolMismatch \in BOOLEAN /\ disposed \in BOOLEAN /\ retryWaiting \in BOOLEAN
    /\ forceToken \in BOOLEAN /\ open \in BOOLEAN /\ heldIsDue \in BOOLEAN
Counts == told \in 0..1 /\ credentialRefusals \in 0..2 /\ asking \in Nat /\ troubles \in 0..MaxTroubles
Names ==
    /\ lost \in {"no", "membership", "credentials"}
    /\ reconnectTimer \in {"none", "now", "backoff"}
    /\ socket \in Sockets \cup {"none"}
    /\ phase \in [Sockets -> {"none", "connecting", "open", "closing"}]
    /\ presented \in [Sockets -> Tokens \cup {"none"}]
    /\ held \in Tokens \cup {"none"} /\ minted \in Tokens \cup {"none"}
    /\ inFlight \in {"no", "asked", "stuck", "token", "401", "403", "failed"}
    /\ watermarks \in {"no", "waiting", "resumed", "sent"}
    /\ standing \in {"member", "removed", "revoked"} /\ refused \subseteq Tokens

LEMMA AccessParts ==
    /\ TypeOK <=> Flags /\ Counts /\ Names
    /\ TypeOK' <=> Flags' /\ Counts' /\ Names'
<1> SUFFICES \A a, b, c, d, e, f, t, u :
        /\ {a, b, c, d, e, f} \subseteq BOOLEAN <=>
              /\ a \in BOOLEAN /\ b \in BOOLEAN /\ c \in BOOLEAN
              /\ d \in BOOLEAN /\ e \in BOOLEAN /\ f \in BOOLEAN
        /\ {t, u} \subseteq Tokens \cup {"none"} <=> t \in Tokens \cup {"none"} /\ u \in Tokens \cup {"none"}
  BY DEF TypeOK, Flags, Counts, Names
<1> QED
  OBVIOUS

-----------------------------------------------------------------------------
LEMMA AccessInit == Init => AccessInv
<1> SUFFICES ASSUME Init PROVE AccessInv
  OBVIOUS
<1>1. TypeOK
  <2>1. Flags
    BY DEF Init, Flags
  <2>2. Counts
    BY SessionAccessAssumption DEF Init, Counts
  <2>3. Names
    BY DEF Init, Names
  <2> QED
    BY <2>1, <2>2, <2>3, AccessParts
<1>2. Silence /\ Carried /\ Course
  BY DEF Init, Silence, Carried, Course, Ended, Asks, NoSocket
<1>3. Fresh /\ Forgets
  BY SessionAccessAssumption DEF Init, Fresh, Forgets
<1> QED
  BY <1>1, <1>2, <1>3 DEF AccessInv

-----------------------------------------------------------------------------
(* Types.                                                                  *)

LEMMA AccessTypes == TypeOK /\ Silence /\ Carried /\ [Next]_vars => TypeOK' /\ Silence' /\ Carried'
<1> SUFFICES ASSUME Flags, Counts, Names, Silence, Carried, [Next]_vars
             PROVE  Flags' /\ Counts' /\ Names' /\ Silence' /\ Carried'
  BY AccessParts
<1> USE DEF ended, retrying, connection, source, server
<1>a. ASSUME NEW s \in Sockets, NEW code, Closed(s, code), troubles' \in 0..MaxTroubles,
             refused' \subseteq Tokens
      PROVE  Flags' /\ Counts' /\ Names' /\ Silence' /\ Carried'
  <2> USE DEF Closed, Interrupted, EndAccess, MayEnd, Ended, ScheduleConnect
  <2>1. Flags'
    BY <1>a DEF Flags
  <2>2. Counts' /\ Silence'
    BY <1>a DEF Counts, Silence
  <2>3. Names'
    BY <1>a DEF Names
  <2>4. Carried'
    BY <1>a, SessionAccessAssumption DEF Names, Carried
  <2> QED
    BY <2>1, <2>2, <2>3, <2>4
<1>1. CASE UploaderAsks \/ HeldComesDue \/ MintServed \/ MintGoesAstray \/ Deadline
  <2> USE <1>1 DEF UploaderAsks, AskSource, HeldAfter, AnswersAtOnce, HeldComesDue, MintServed, Unused,
                   MintGoesAstray, Deadline, DeadlineApplies
  <2>1. Flags'
    BY DEF Flags
  <2>2. Counts' /\ Silence'
    BY SessionAccessAssumption DEF Counts, Silence
  <2>3. Names'
    BY DEF Names
  <2>4. Carried'
    BY SessionAccessAssumption DEF Names, Carried
  <2> QED
    BY <2>1, <2>2, <2>3, <2>4
<1>2. CASE Connect
  <2> USE <1>2 DEF Connect, AskSource, HeldAfter, AnswersAtOnce, OpensSocket
  <2>1. Flags'
    BY DEF Flags
  <2>2. Counts' /\ Silence'
    BY DEF Counts, Silence
  <2>3. Names'
    BY DEF Names
  <2>4. Carried'
    BY SessionAccessAssumption DEF Names, Carried
  <2> QED
    BY <2>1, <2>2, <2>3, <2>4
<1>3. CASE MintSettles
  <2> USE <1>3 DEF MintSettles, OpensSocket, ScheduleConnect, EndAccess, MayEnd, LetGo, Closing, Interrupted
  <2>1. Flags'
    BY DEF Flags
  <2>2. Counts' /\ Silence'
    BY DEF Counts, Silence
  <2>3. Names'
    BY DEF Names
  <2>4. Carried'
    BY SessionAccessAssumption DEF Names, Carried
  <2> QED
    BY <2>1, <2>2, <2>3, <2>4
<1>4. CASE Opened
  <2> USE <1>4 DEF Opened
  <2>1. Flags'
    BY DEF Flags
  <2>2. Counts' /\ Silence'
    BY DEF Counts, Silence
  <2>3. Names'
    BY DEF Names
  <2>4. Carried'
    BY SessionAccessAssumption DEF Names, Carried
  <2> QED
    BY <2>1, <2>2, <2>3, <2>4
<1>5. CASE CloseEnds
  BY <1>5, <1>a DEF CloseEnds, Counts, Names
<1>6. CASE Dropped
  <2>1. troubles' \in 0..MaxTroubles
    BY <1>6, SessionAccessAssumption DEF Dropped, Counts
  <2> QED
    BY <1>6, <1>a, <2>1 DEF Dropped, Names
<1>7. CASE TokenRefused
  <2>1. PICK s \in Sockets : /\ phase[s] \in {"connecting", "open"}
                             /\ refused' = refused \cup {presented[s]}
                             /\ Closed(s, "4401")
    BY <1>7 DEF TokenRefused
  <2>2. troubles' \in 0..MaxTroubles
    BY <1>7, SessionAccessAssumption DEF TokenRefused, Counts
  <2>3. refused' \subseteq Tokens
    BY <2>1 DEF Names, Carried
  <2> QED
    BY <1>a, <2>1, <2>2, <2>3
<1>8. CASE MembershipRefused
  BY <1>8, <1>a DEF MembershipRefused, Counts, Names
<1>9. CASE AccessEnds
  <2> USE <1>9 DEF AccessEnds, MayEnd, EndAccess, LetGo, Closing, Interrupted
  <2>1. Flags'
    BY DEF Flags
  <2>2. Counts' /\ Silence'
    BY DEF Counts, Silence
  <2>3. Names'
    BY DEF Names
  <2>4. Carried'
    BY SessionAccessAssumption DEF Names, Carried
  <2> QED
    BY <2>1, <2>2, <2>3, <2>4
<1>10. CASE ProtocolMismatch \/ Dispose
  <2> USE <1>10 DEF ProtocolMismatch, Dispose, Closing
  <2>1. Flags'
    BY DEF Flags
  <2>2. Counts' /\ Silence'
    BY DEF Counts, Silence
  <2>3. Names'
    BY DEF Names
  <2>4. Carried'
    BY SessionAccessAssumption DEF Names, Carried
  <2> QED
    BY <2>1, <2>2, <2>3, <2>4
<1>11. CASE ReconnectNow \/ StandingEnds
  <2> USE <1>11 DEF ReconnectNow, ScheduleConnect, StandingEnds
  <2>1. Flags'
    BY DEF Flags
  <2>2. Counts' /\ Silence'
    BY DEF Counts, Silence
  <2>3. Names'
    BY DEF Names
  <2>4. Carried'
    BY SessionAccessAssumption DEF Names, Carried
  <2> QED
    BY <2>1, <2>2, <2>3, <2>4
<1>12. CASE RequestWatermarks \/ WatermarksResume \/ WatermarksAnswered
  <2> USE <1>12 DEF RequestWatermarks, WatermarksResume, WatermarksAnswered, AwaitConnection
  <2>1. Flags'
    BY DEF Flags
  <2>2. Counts' /\ Silence'
    BY DEF Counts, Silence
  <2>3. Names'
    BY DEF Names
  <2>4. Carried'
    BY SessionAccessAssumption DEF Names, Carried
  <2> QED
    BY <2>1, <2>2, <2>3, <2>4
<1>13. CASE UNCHANGED vars
  BY <1>13 DEF vars, Flags, Counts, Names, Silence, Carried
<1> QED
  BY <1>1, <1>2, <1>3, <1>4, <1>5, <1>6, <1>7, <1>8, <1>9, <1>10, <1>11, <1>12, <1>13
     DEF Next, Minting

-----------------------------------------------------------------------------
(* One next step.                                                          *)

\* The close of a socket that is not closing leaves the session waiting, or ended.
LEMMA CourseClosed ==
    ASSUME AccessInv, NEW s \in Sockets, NEW code, phase[s] # "none", Closed(s, code)
    PROVE  Course'
<1> USE SessionAccessAssumption DEF AccessInv, Closed, Course, Quiet, retrying, source
<1>1. Names /\ Flags
  BY AccessParts
<1>2. CASE Ended
  <2>1. Ended' /\ Quiet'
    BY <1>1, <1>2 DEF Ended, Names, Flags
  <2> QED
    BY <1>2, <2>1 DEF Ended, MayEnd
<1>3. CASE ~Ended
  <2>1. Holds /\ socket = s
    BY <1>3 DEF Waits, Asks, Holds, NoSocket
  <2>2. NoSocket' /\ asking' = 0
    BY <1>1, <2>1 DEF Names, Holds, NoSocket
  <2>3. CASE code = "4403"
    BY <1>1, <1>3, <2>1, <2>2, <2>3 DEF EndAccess, MayEnd, Ended, Names, NoSocket
  <2>4. CASE code # "4403"
    BY <1>1, <1>3, <2>1, <2>2, <2>4 DEF ScheduleConnect, Waits, Ended, MayEnd
  <2> QED
    BY <2>3, <2>4
<1> QED
  BY <1>2, <1>3

\* A token opens the one socket of a session that asked for it, and nothing else does.
LEMMA CourseAsked ==
    ASSUME AccessInv, Connect \/ MintSettles
    PROVE  Course'
<1> USE SessionAccessAssumption DEF AccessInv, Course, Quiet, ended
<1>1. Names /\ Flags
  BY AccessParts
<1>2. CASE Connect
  <2>1. ~Ended /\ Waits
    BY <1>2 DEF Connect, Waits, Asks, Holds
  <2>2. ~protocolMismatch'
    BY <1>2, <2>1 DEF Connect, Ended
  <2>3. ~Ended'
    BY <1>2, <2>1 DEF Connect, Ended
  <2>4. CASE AnswersAtOnce(forceToken)
    <3>1. PICK s \in Sockets :
             /\ socket' = s
             /\ phase' = [phase EXCEPT ![s] = "connecting"]
      BY <1>2, <2>1, <2>4 DEF Connect, OpensSocket, Ended
    <3>2. Holds'
      BY <1>1, <1>2, <2>1, <2>4, <3>1 DEF Connect, Waits, Holds, NoSocket, Names
    <3> QED
      BY <2>2, <2>3, <3>2
  <2>5. CASE ~AnswersAtOnce(forceToken)
    <3>1. Asks'
      BY <1>1, <1>2, <2>1, <2>5 DEF Connect, AskSource, Waits, Asks, NoSocket, connection
    <3> QED
      BY <2>2, <2>3, <3>1
  <2> QED
    BY <2>4, <2>5
<1>3. CASE MintSettles
  <2>1. asking' = 0
    BY <1>3 DEF MintSettles
  <2>2. CASE Ended
    <3>1. Quiet'
      <4>1. CASE asking = 0 \/ ~MayEnd
        BY <1>3, <2>2, <4>1 DEF MintSettles, MayEnd, Ended, OpensSocket, retrying, connection
      <4>2. CASE ~(asking = 0 \/ ~MayEnd)
        BY <2>2, <4>2 DEF MayEnd, Ended
      <4> QED
        BY <4>1, <4>2
    <3>2. Ended'
      BY <1>1, <1>3, <2>2 DEF MintSettles, EndAccess, Ended
    <3> QED
      BY <2>1, <3>1, <3>2
  <2>3. CASE ~Ended /\ asking = 0
    <3>1. ~Ended' /\ ~protocolMismatch'
      BY <1>3, <2>3 DEF MintSettles, Ended
    <3>2. Waits \/ Holds
      BY <2>3 DEF Asks
    <3>3. Waits' \/ Holds'
      BY <1>3, <2>3, <3>2 DEF MintSettles, Waits, Holds, NoSocket, retrying, connection
    <3> QED
      BY <3>1, <3>3
  <2>4. CASE ~Ended /\ asking # 0
    <3>1. Asks /\ MayEnd
      BY <2>4 DEF Waits, Holds, MayEnd, Ended
    <3>2. CASE inFlight = "token"
      <4>1. PICK s \in Sockets :
               /\ socket' = s
               /\ phase' = [phase EXCEPT ![s] = "connecting"]
        BY <1>3, <2>4, <3>2 DEF MintSettles, OpensSocket, Ended
      <4>2. Holds'
        BY <1>1, <1>3, <2>4, <3>1, <3>2, <4>1 DEF MintSettles, Asks, Holds, NoSocket, Names, retrying
      <4>3. ~Ended' /\ ~protocolMismatch'
        BY <1>3, <2>4, <3>2 DEF MintSettles, Ended
      <4> QED
        BY <4>2, <4>3
    <3>3. CASE inFlight = "failed"
      <4>1. Waits' /\ ~Ended' /\ ~protocolMismatch'
        BY <1>3, <2>4, <3>1, <3>3
           DEF MintSettles, ScheduleConnect, Asks, Waits, NoSocket, connection, Ended
      <4> QED
        BY <4>1
    <3>4. CASE inFlight \in {"401", "403"}
      <4>1. Ended' /\ ~protocolMismatch'
        BY <1>3, <2>4, <3>1, <3>4 DEF MintSettles, EndAccess, Ended
      <4>2. Quiet'
        BY <1>1, <1>3, <2>4, <3>1, <3>4
           DEF MintSettles, EndAccess, LetGo, Closing, Asks, NoSocket, Names
      <4> QED
        BY <4>1, <4>2
    <3> QED
      BY <1>3, <3>2, <3>3, <3>4 DEF MintSettles
  <2> QED
    BY <2>2, <2>3, <2>4
<1> QED
  BY <1>2, <1>3

\* To close the session's socket is to close all there are.
LEMMA ClosingAll ==
    ASSUME AccessInv, Closing(socket)
    PROVE  \A s \in Sockets : phase'[s] \in {"none", "closing"}
<1> USE SessionAccessAssumption DEF AccessInv, Closing
<1>0. Names
  BY AccessParts
<1>1. ASSUME NEW s \in Sockets, s # socket PROVE phase[s] \in {"none", "closing"}
  <2>1. CASE Ended
    BY <2>1 DEF Course, Quiet
  <2>2. CASE ~Ended
    BY <1>1, <2>2 DEF Course, Waits, Asks, Holds, NoSocket
  <2> QED
    BY <2>1, <2>2
<1>2. ASSUME NEW s \in Sockets PROVE phase'[s] = IF s = socket THEN "closing" ELSE phase[s]
  BY <1>0, <1>2 DEF Names
<1> QED
  BY <1>1, <1>2

LEMMA CourseStep ==
    ASSUME AccessInv, [Next]_vars
    PROVE  Course'
<1> USE DEF AccessInv, ended, retrying, connection, source, server
<1>0. Names /\ Flags
  BY AccessParts
<1>1. CASE UploaderAsks \/ HeldComesDue \/ MintServed \/ MintGoesAstray \/ Deadline
  BY <1>1 DEF UploaderAsks, AskSource, HeldComesDue, MintServed, MintGoesAstray, Deadline,
              DeadlineApplies, Course, Quiet, Ended, MayEnd, Waits, Asks, Holds, NoSocket
<1>2. CASE Connect \/ MintSettles
  BY <1>2, CourseAsked
<1>3. CASE Opened
  <2>1. PICK s \in Sockets : /\ phase[s] = "connecting"
                             /\ phase' = [phase EXCEPT ![s] = "open"]
    BY <1>3 DEF Opened
  <2>2. ~Ended /\ Holds /\ socket = s
    BY <2>1 DEF Course, Quiet, Waits, Asks, Holds, NoSocket
  <2>3. Holds'
    BY <1>0, <1>3, <2>1, <2>2 DEF Opened, Holds, Names
  <2> QED
    BY <1>3, <2>2, <2>3 DEF Opened, Course, Ended, MayEnd
<1>4. CASE CloseEnds \/ Dropped \/ TokenRefused \/ MembershipRefused
  <2>1. \E s \in Sockets : \E code : phase[s] # "none" /\ Closed(s, code)
    BY <1>4 DEF CloseEnds, Dropped, TokenRefused, MembershipRefused
  <2> QED
    BY <2>1, CourseClosed
<1>5. CASE AccessEnds
  <2>1. Ended' /\ ~MayEnd'
    BY <1>5 DEF AccessEnds, EndAccess, Ended, MayEnd
  <2>2. Quiet'
    BY <1>5, ClosingAll DEF AccessEnds, EndAccess, LetGo, Quiet
  <2> QED
    BY <2>1, <2>2 DEF Course
<1>6. CASE ProtocolMismatch
  <2>1. Ended'
    BY <1>6 DEF ProtocolMismatch, Ended
  <2>2. Quiet'
    BY <1>6, ClosingAll DEF ProtocolMismatch, Quiet
  <2>3. MayEnd' => asking' = 0
    BY <1>6 DEF ProtocolMismatch, MayEnd, Course, Quiet, Ended, Waits, Asks, Holds, NoSocket
  <2> QED
    BY <2>1, <2>2, <2>3 DEF Course
<1>7. CASE Dispose
  <2>1. Ended' /\ ~MayEnd'
    BY <1>7 DEF Dispose, Ended, MayEnd
  <2>2. Quiet'
    BY <1>7, ClosingAll DEF Dispose, Quiet
  <2> QED
    BY <2>1, <2>2 DEF Course
<1>8. CASE ReconnectNow
  <2>1. Waits
    BY <1>8 DEF ReconnectNow, MayReconnect, Course, Asks, Holds
  <2> QED
    BY <1>8, <2>1 DEF ReconnectNow, ScheduleConnect, Course, Waits, NoSocket, Ended, MayEnd
<1>9. CASE StandingEnds \/ RequestWatermarks \/ WatermarksResume \/ WatermarksAnswered
  BY <1>9 DEF StandingEnds, RequestWatermarks, WatermarksResume, WatermarksAnswered,
              Course, Quiet, Ended, MayEnd, Waits, Asks, Holds, NoSocket
<1>10. CASE UNCHANGED vars
  BY <1>10 DEF vars, Course, Quiet, Ended, MayEnd, Waits, Asks, Holds, NoSocket
<1> QED
  BY <1>1, <1>2, <1>3, <1>4, <1>5, <1>6, <1>7, <1>8, <1>9, <1>10 DEF Next, Minting

-----------------------------------------------------------------------------
(* Refused tokens.                                                         *)

\* The token in an answer stays nobody's until the mint settles: what the relay refuses is one
\* that a socket presented.
LEMMA FreshStep ==
    ASSUME AccessInv, [Next]_vars
    PROVE  Fresh'
<1> USE SessionAccessAssumption
    DEF AccessInv, Fresh, ended, retrying, connection, source, server
<1>0. Names
  BY AccessParts
<1>1. CASE UploaderAsks \/ HeldComesDue \/ MintGoesAstray \/ Deadline
  BY <1>1 DEF UploaderAsks, AskSource, HeldAfter, HeldComesDue, MintGoesAstray, Deadline
<1>2. CASE MintServed
  BY <1>2 DEF MintServed, Unused
<1>3. CASE Connect
  <2>1. minted # "none" => minted # held'
    BY <1>3 DEF Connect, AskSource, HeldAfter
  <2>2. ASSUME minted # "none", NEW s \in Sockets PROVE presented'[s] # minted
    BY <1>0, <1>3, <2>2 DEF Connect, OpensSocket, AnswersAtOnce, HeldAfter, Names
  <2> QED
    BY <1>3, <2>1, <2>2 DEF Connect
<1>4. CASE MintSettles
  BY <1>4 DEF MintSettles
<1>5. CASE Opened
  BY <1>5 DEF Opened
<1>6. CASE CloseEnds \/ Dropped \/ TokenRefused \/ MembershipRefused
  <2>1. PICK s \in Sockets : \E code : /\ Closed(s, code)
                                       /\ refused' = refused \/ refused' = refused \cup {presented[s]}
    BY <1>6 DEF CloseEnds, Dropped, TokenRefused, MembershipRefused
  <2>2. /\ minted' = minted /\ held' = held
        /\ presented' = [presented EXCEPT ![s] = "none"]
    BY <2>1 DEF Closed
  <2> QED
    BY <1>0, <2>1, <2>2 DEF Names
<1>7. CASE AccessEnds \/ ProtocolMismatch \/ Dispose
  <2>1. UNCHANGED <<held, minted, inFlight, presented, refused>>
    BY <1>7 DEF AccessEnds, LetGo, ProtocolMismatch, Dispose
  <2> QED
    BY <2>1
<1>8. CASE ReconnectNow \/ StandingEnds \/ RequestWatermarks \/ WatermarksResume \/ WatermarksAnswered
  BY <1>8 DEF ReconnectNow, StandingEnds, RequestWatermarks, WatermarksResume, WatermarksAnswered
<1>9. CASE UNCHANGED vars
  BY <1>9 DEF vars
<1> QED
  BY <1>1, <1>2, <1>3, <1>4, <1>5, <1>6, <1>7, <1>8, <1>9 DEF Next, Minting

\* A session that ended stays so.
LEMMA EndedForGood ==
    ASSUME TypeOK, [Next]_vars, Ended
    PROVE  Ended'
<1> USE DEF Ended, ended, retrying, connection, source, server
<1>0. Names /\ Flags
  BY AccessParts
<1>1. CASE UploaderAsks \/ HeldComesDue \/ Minting \/ Connect \/ Opened
  BY <1>0, <1>1 DEF UploaderAsks, HeldComesDue, Minting, MintServed, MintGoesAstray, Deadline,
                    MintSettles, EndAccess, MayEnd, Connect, Opened
<1>2. CASE CloseEnds \/ Dropped \/ TokenRefused \/ MembershipRefused
  <2>1. \E s \in Sockets : \E code : Closed(s, code)
    BY <1>2 DEF CloseEnds, Dropped, TokenRefused, MembershipRefused
  <2> QED
    BY <2>1 DEF Closed
<1>3. CASE AccessEnds \/ ProtocolMismatch \/ Dispose \/ ReconnectNow \/ StandingEnds
  BY <1>3 DEF AccessEnds, EndAccess, ProtocolMismatch, Dispose, ReconnectNow, StandingEnds
<1>4. CASE RequestWatermarks \/ WatermarksResume \/ WatermarksAnswered \/ UNCHANGED vars
  BY <1>4 DEF RequestWatermarks, WatermarksResume, WatermarksAnswered, vars
<1> QED
  BY <1>1, <1>2, <1>3, <1>4 DEF Next

\* A held token that was refused is forgotten by the session's next call, unless it has ended.
LEMMA ForgetsStep ==
    ASSUME AccessInv, [Next]_vars
    PROVE  Forgets'
<1> USE SessionAccessAssumption
    DEF AccessInv, Forgets, ended, retrying, connection, source, server
<1>0. Names /\ Flags
  BY AccessParts
<1>a. CASE Ended
  BY <1>a, EndedForGood
<1> SUFFICES ASSUME ~Ended, ~Ended', held' \in refused' PROVE forceToken'
  BY <1>a
<1>n. held' # "none"
  BY AccessTypes, AccessParts DEF Names
<1>1. CASE UploaderAsks \/ HeldComesDue \/ MintServed \/ MintGoesAstray \/ Deadline
  <2>1. held' = held /\ refused' \subseteq refused /\ forceToken' = forceToken
    BY <1>n, <1>1 DEF UploaderAsks, AskSource, HeldAfter, HeldComesDue, MintServed, MintGoesAstray,
                      Deadline
  <2> QED
    BY <2>1
<1>2. CASE Connect
  <2>1. reconnectTimer # "none" /\ held' = HeldAfter(forceToken) /\ refused' = refused
    BY <1>2 DEF Connect, AskSource
  <2>2. ~forceToken /\ held' = held
    BY <1>n, <2>1 DEF HeldAfter
  <2> QED
    BY <2>1, <2>2
<1>3. CASE MintSettles
  <2>1. CASE inFlight = "token"
    BY <1>3, <2>1 DEF MintSettles, Fresh, Carried
  <2>2. CASE inFlight # "token"
    BY <1>3, <2>2 DEF MintSettles
  <2> QED
    BY <2>1, <2>2
<1>4. CASE Opened \/ CloseEnds \/ Dropped \/ MembershipRefused
  <2>1. held' = held /\ refused' = refused
    BY <1>4 DEF Opened, CloseEnds, Dropped, MembershipRefused, Closed
  <2>2. forceToken => forceToken'
    BY <1>0, <1>4 DEF Opened, CloseEnds, Dropped, MembershipRefused, Closed, Flags
  <2> QED
    BY <2>1, <2>2
<1>5. CASE TokenRefused
  <2>1. PICK s \in Sockets : phase[s] \in {"connecting", "open"} /\ Closed(s, "4401")
    BY <1>5 DEF TokenRefused
  <2>2. socket = s
    BY <2>1 DEF Course, Waits, Asks, Holds, NoSocket
  <2> QED
    BY <2>1, <2>2 DEF Closed
<1>6. CASE AccessEnds
  BY <1>6 DEF AccessEnds, EndAccess, Ended, MayEnd
<1>7. CASE ProtocolMismatch \/ Dispose
  BY <1>7 DEF ProtocolMismatch, Dispose, Ended
<1>8. CASE ReconnectNow \/ StandingEnds \/ RequestWatermarks \/ WatermarksResume \/ WatermarksAnswered
  BY <1>8 DEF ReconnectNow, StandingEnds, RequestWatermarks, WatermarksResume, WatermarksAnswered
<1>9. CASE UNCHANGED vars
  BY <1>9 DEF vars
<1> QED
  BY <1>1, <1>2, <1>3, <1>4, <1>5, <1>6, <1>7, <1>8, <1>9 DEF Next, Minting

-----------------------------------------------------------------------------
(* Theorems.                                                               *)

LEMMA AccessStep == AccessInv /\ [Next]_vars => AccessInv'
<1> SUFFICES ASSUME AccessInv, [Next]_vars PROVE AccessInv'
  OBVIOUS
<1>1. TypeOK' /\ Silence' /\ Carried'
  BY AccessTypes DEF AccessInv
<1> QED
  BY <1>1, CourseStep, FreshStep, ForgetsStep DEF AccessInv

\* What holds of every session: it is at one step of its course, knows a mint's answer from
\* what was refused, and has told its owner of what happened only.
THEOREM AccessInvariant == Spec => []AccessInv
BY AccessInit, AccessStep, PTL DEF Spec

\* The session and its token source keep their types, and the owner is told of a loss at most
\* once, for any sockets, tokens and troubles.
THEOREM AccessTypeCorrect == Spec => []TypeOK
<1>1. AccessInv => TypeOK
  BY DEF AccessInv
<1> QED
  BY AccessInvariant, <1>1, PTL

\* A session that has not ended has one timer, one token asked for or one socket, never none and
\* never two: it does not stop trying by mistake, and does not connect twice.
THEOREM AlwaysOneNextStep == Spec => []OneNextStep
<1>1. AccessInv => OneNextStep
  <2> SUFFICES ASSUME AccessInv PROVE OneNextStep
    OBVIOUS
  <2> DEFINE Live == {s \in Sockets : phase[s] # "none"}
  <2>1. CASE Ended
    BY <2>1 DEF AccessInv, Course, Quiet, OneNextStep
  <2>2. CASE ~Ended /\ (Waits \/ Asks)
    <3>1. Live = {}
      BY <2>2 DEF Waits, Asks, NoSocket
    <3>2. Cardinality(Live) = 0
      BY <3>1, FS_EmptySet
    <3>3. Steps = 1
      BY <2>2, <3>2 DEF Steps, Waits, Asks
    <3> QED
      BY <2>2, <3>3 DEF OneNextStep, Waits, Asks
  <2>3. CASE ~Ended /\ Holds
    <3>1. Live = {socket}
      BY <2>3 DEF Holds
    <3>2. Cardinality(Live) = 1
      BY <3>1, FS_Singleton
    <3>3. Steps = 1
      BY <2>3, <3>2 DEF Steps, Holds
    <3> QED
      BY <2>3, <3>3 DEF OneNextStep, Holds
  <2> QED
    BY <2>1, <2>2, <2>3 DEF AccessInv, Course
<1> QED
  BY AccessInvariant, <1>1, PTL

\* A token the relay refused is not presented to it again: not the one held, which the next call
\* forgets, and not one a mint under way brings, which no socket has presented.
THEOREM RefusedTokensStayAway == Spec => RefusedNotPresented
<1> DEFINE Away == \A s \in Sockets : phase[s] = "none" /\ phase'[s] = "connecting" => presented'[s] \notin refused
<1>1. AccessInv /\ [Next]_vars => [Away]_vars
  <2> SUFFICES ASSUME AccessInv, Next, NEW s \in Sockets,
                      phase[s] = "none", phase'[s] = "connecting"
               PROVE  presented'[s] \notin refused
    BY DEF vars, ended, retrying, connection, source, server
  <2>0. Names /\ Flags
    BY AccessParts DEF AccessInv
  <2>1. CASE Connect
    <3>1. ~Ended /\ AnswersAtOnce(forceToken) /\ OpensSocket(held)
      BY <2>1 DEF Connect, connection
    <3>2. ~forceToken /\ held \notin refused
      BY <3>1 DEF AnswersAtOnce, HeldAfter, AccessInv, Forgets
    <3>3. presented'[s] = held
      BY <2>0, <3>1 DEF OpensSocket, Names, connection
    <3> QED
      BY <3>2, <3>3
  <2>2. CASE MintSettles
    <3>1. inFlight = "token" /\ OpensSocket(minted)
      BY <2>0, <2>2 DEF MintSettles, connection, LetGo, Closing, Names
    <3>2. minted \notin refused
      BY <3>1 DEF AccessInv, Carried, Fresh
    <3>3. presented'[s] = minted
      BY <2>0, <3>1 DEF OpensSocket, Names, connection
    <3> QED
      BY <3>2, <3>3
  <2>3. CASE Opened
    BY <2>0, <2>3 DEF Opened, Names
  <2>4. CASE CloseEnds \/ Dropped \/ TokenRefused \/ MembershipRefused
    <3>1. PICK r \in Sockets : phase' = [phase EXCEPT ![r] = "none"]
      BY <2>4 DEF CloseEnds, Dropped, TokenRefused, MembershipRefused, Closed
    <3> QED
      BY <2>0, <3>1 DEF Names
  <2>5. CASE AccessEnds \/ ProtocolMismatch \/ Dispose
    <3>1. Closing(socket)
      BY <2>5 DEF AccessEnds, LetGo, ProtocolMismatch, Dispose
    <3> QED
      BY <3>1, ClosingAll
  <2>6. CASE UploaderAsks \/ HeldComesDue \/ MintServed \/ MintGoesAstray \/ Deadline
    BY <2>6 DEF UploaderAsks, HeldComesDue, MintServed, MintGoesAstray, Deadline, connection
  <2>7. CASE ReconnectNow \/ StandingEnds \/ RequestWatermarks \/ WatermarksResume \/ WatermarksAnswered
    BY <2>7 DEF ReconnectNow, StandingEnds, RequestWatermarks, WatermarksResume, WatermarksAnswered,
                connection
  <2> QED
    BY <2>1, <2>2, <2>3, <2>4, <2>5, <2>6, <2>7 DEF Next, Minting
<1> QED
  BY AccessInvariant, <1>1, PTL DEF Spec, RefusedNotPresented
=============================================================================
