---------------------------- MODULE SessionAccess ----------------------------
(***************************************************************************)
(* How one graph session stays connected to the relay, and how it stops    *)
(* (sync/graph-sync.ts): the token asked for before each socket, the       *)
(* socket, the wait before the next, the watermark request that outlives   *)
(* them, and the token source the session shares with the asset uploader   *)
(* (sync/sync-token.ts).                                                   *)
(*                                                                         *)
(* How long a wait is does not matter here, so `attempts` is left out. A   *)
(* promise that settles runs what awaits it in the same step, except the   *)
(* continuation of the watermark request. Relay and Sync Server are as the *)
(* session knows them: by close codes and refusal statuses.                *)
(***************************************************************************)
EXTENDS Integers, FiniteSets

CONSTANTS
    Sockets,        \* names of sockets, taken again once closed
    Tokens,         \* names of sync tokens, taken again once nothing holds them
    MaxTroubles     \* bound: sockets dropped, live tokens refused, mints failed or stuck

ASSUME SessionAccessAssumption ==
    /\ IsFiniteSet(Sockets) /\ "none" \notin Sockets
    /\ IsFiniteSet(Tokens) /\ "none" \notin Tokens
    /\ MaxTroubles \in Nat

VARIABLES
    lost, protocolMismatch, disposed,   \* why the session has ended: "no" or the loss, and two flags
    told,                   \* calls of onAccessLost
    reconnectTimer,         \* "none", "now" or "backoff"
    retryWaiting, forceToken, credentialRefusals,
    asking,                 \* calls of deps.token the session waits for
    socket, open,           \* the current socket and whether it opened
    phase, presented,       \* each socket: "none", "connecting", "open", "closing"; and its token
    held, heldIsDue,        \* the source's token, and whether it is past its refreshAt
    inFlight,               \* its mint: "no", "asked", "stuck", an answer
    minted,                 \* the token the answer carries
    watermarks,             \* a request: "no", "waiting", "resumed", "sent"
    standing,               \* what the server knows: "member", "removed", "revoked"
    refused,                \* tokens the relay refused
    troubles

ended      == <<lost, protocolMismatch, disposed, told>>
retrying   == <<reconnectTimer, retryWaiting, forceToken, credentialRefusals>>
connection == <<socket, open, phase, presented>>
source     == <<held, heldIsDue, inFlight, minted>>
server     == <<standing, refused, troubles>>
vars       == <<ended, retrying, asking, connection, source, watermarks, server>>

\* The session calls connect when it is made, over a source that holds nothing.
Init ==
    /\ lost = "no" /\ protocolMismatch = FALSE /\ disposed = FALSE /\ told = 0
    /\ reconnectTimer = "none" /\ retryWaiting = FALSE /\ forceToken = FALSE /\ credentialRefusals = 0
    /\ asking = 1
    /\ socket = "none" /\ open = FALSE
    /\ phase = [s \in Sockets |-> "none"] /\ presented = [s \in Sockets |-> "none"]
    /\ held = "none" /\ heldIsDue = FALSE /\ inFlight = "asked" /\ minted = "none"
    /\ watermarks = "no"
    /\ standing = "member" /\ refused = {} /\ troubles = 0

Ended == lost # "no" \/ protocolMismatch \/ disposed

-----------------------------------------------------------------------------
(* The wait, and the end.                                                  *)

ScheduleConnect(delay) == reconnectTimer' = delay /\ retryWaiting' = TRUE

\* Mutant: access ends again, and the owner is told again.
EndsAgain == TRUE

MayEnd == lost = "no" /\ ~disposed

\* endAccess, as far as lost, told and the timer; LetGo is what it does to the socket.
EndAccess(loss) ==
    IF MayEnd
    THEN lost' = loss /\ told' = told + 1 /\ reconnectTimer' = "none"
    ELSE UNCHANGED <<lost, told, reconnectTimer>>

\* forgetSocketGeneration rejects the request that was sent, which waits for the next socket
\* unless the session ended; the end rejects the one that waits for a socket.
Interrupted(over) ==
    watermarks' = CASE over /\ watermarks \in {"waiting", "sent"} -> "no"
                    [] ~over /\ watermarks = "sent"               -> "waiting"
                    [] OTHER                                      -> watermarks

Closing(s) == phase' = IF s = "none" THEN phase ELSE [phase EXCEPT ![s] = "closing"]

LetGo == socket' = "none" /\ open' = FALSE /\ Closing(socket) /\ presented' = presented

-----------------------------------------------------------------------------
(* The token source.                                                       *)

\* Mutant: a forced call keeps the token the relay refused.
KeepsHeld(force) == held

\* A forced call forgets the held token, whether or not a mint is under way.
HeldAfter(force) == IF force THEN "none" ELSE held

\* The source answers at once with a token it holds, or the caller joins the mint under way.
AnswersAtOnce(force) == HeldAfter(force) # "none" /\ ~heldIsDue

AskSource(force) ==
    /\ held' = HeldAfter(force) /\ heldIsDue' = (heldIsDue /\ held' # "none")
    /\ inFlight' = IF inFlight = "no" /\ ~AnswersAtOnce(force) THEN "asked" ELSE inFlight

Unused == Tokens \ ({held, minted} \cup {presented[s] : s \in Sockets})

\* The uploader asks too, and forces a new token when the asset API refuses the one it has.
UploaderAsks ==
    /\ \E force \in BOOLEAN : AskSource(force)
    /\ UNCHANGED <<ended, retrying, asking, connection, minted, watermarks, server>>

HeldComesDue ==
    /\ held # "none" /\ ~heldIsDue
    /\ heldIsDue' = TRUE
    /\ UNCHANGED <<ended, retrying, asking, connection, held, inFlight, minted, watermarks, server>>

\* The server answers by what it knows when the request is there; the answer is on its way.
MintServed ==
    /\ inFlight = "asked"
    /\ IF standing = "member"
       THEN \E t \in Unused : inFlight' = "token" /\ minted' = t /\ refused' = refused \ {t}
       ELSE inFlight' = (IF standing = "removed" THEN "403" ELSE "401") /\ UNCHANGED <<minted, refused>>
    /\ UNCHANGED <<ended, retrying, asking, connection, held, heldIsDue, watermarks, standing, troubles>>

\* The network fails the request, or keeps it without an answer.
MintGoesAstray ==
    /\ inFlight = "asked" /\ troubles < MaxTroubles
    /\ inFlight' \in {"failed", "stuck"} /\ troubles' = troubles + 1
    /\ UNCHANGED <<ended, retrying, asking, connection, held, heldIsDue, minted, watermarks, standing, refused>>

\* Mutant: a mint without an answer is waited for.
NoDeadline == FALSE

DeadlineApplies == inFlight = "stuck"

\* SYNC_TOKEN_DEADLINE_MS: the mint is given up and every caller told.
Deadline ==
    /\ DeadlineApplies
    /\ inFlight' = "failed"
    /\ UNCHANGED <<ended, retrying, asking, connection, held, heldIsDue, minted, watermarks, server>>

-----------------------------------------------------------------------------
(* connect.                                                                *)

\* The session's continuation with a token: a socket, unless access ended meanwhile. (An ended
\* protocol is not asked about: no token is awaited while a socket that could end it is there.)
OpensSocket(token) ==
    IF disposed \/ lost # "no" THEN UNCHANGED connection
    ELSE \E s \in Sockets :
             /\ phase[s] = "none"
             /\ socket' = s /\ open' = open
             /\ phase' = [phase EXCEPT ![s] = "connecting"]
             /\ presented' = [presented EXCEPT ![s] = token]

Connect ==
    /\ reconnectTimer # "none"
    /\ reconnectTimer' = "none" /\ retryWaiting' = FALSE
    /\ IF Ended
       THEN UNCHANGED <<forceToken, asking, connection, held, heldIsDue, inFlight>>
       ELSE /\ forceToken' = FALSE
            /\ AskSource(forceToken)
            /\ IF AnswersAtOnce(forceToken)
               THEN OpensSocket(held) /\ UNCHANGED asking
               ELSE asking' = asking + 1 /\ UNCHANGED connection
    /\ UNCHANGED <<ended, credentialRefusals, minted, watermarks, server>>

\* The mint settles and everyone who awaits it goes on.
MintSettles ==
    /\ inFlight \in {"token", "401", "403", "failed"}
    /\ inFlight' = "no" /\ minted' = "none" /\ asking' = 0
    /\ IF inFlight = "token" THEN held' = minted /\ heldIsDue' = FALSE ELSE UNCHANGED <<held, heldIsDue>>
    /\ IF inFlight = "token"
       THEN /\ IF asking = 0 THEN UNCHANGED connection ELSE OpensSocket(minted)
            /\ UNCHANGED <<ended, retrying, watermarks>>
       ELSE /\ UNCHANGED <<protocolMismatch, disposed, forceToken, credentialRefusals>>
            /\ IF asking = 0 \/ ~MayEnd
               THEN UNCHANGED <<lost, told, reconnectTimer, retryWaiting, connection, watermarks>>
               ELSE IF inFlight = "failed"
               THEN /\ ScheduleConnect("backoff")
                    /\ UNCHANGED <<lost, told, connection, watermarks>>
               ELSE /\ EndAccess(IF inFlight = "401" THEN "credentials" ELSE "membership")
                    /\ LetGo /\ Interrupted(TRUE) /\ UNCHANGED retryWaiting
    /\ UNCHANGED server

Opened ==
    /\ \E s \in Sockets :
           /\ phase[s] = "connecting"
           /\ phase' = [phase EXCEPT ![s] = "open"]
           /\ IF disposed \/ lost # "no" \/ socket # s
              THEN UNCHANGED <<open, credentialRefusals, watermarks>>
              ELSE /\ open' = TRUE /\ credentialRefusals' = 0
                   /\ watermarks' = IF watermarks = "waiting" THEN "resumed" ELSE watermarks
    /\ UNCHANGED <<ended, reconnectTimer, retryWaiting, forceToken, asking, socket, presented, source, server>>

\* The close event of socket s. One of an earlier socket changes nothing.
Closed(s, code) ==
    /\ phase' = [phase EXCEPT ![s] = "none"] /\ presented' = [presented EXCEPT ![s] = "none"]
    /\ IF socket # s
       THEN UNCHANGED <<lost, told, retrying, socket, open, watermarks>>
       ELSE /\ socket' = "none" /\ open' = FALSE
            /\ Interrupted(Ended \/ code = "4403")
            /\ IF Ended THEN UNCHANGED <<lost, told, retrying>>
               ELSE IF code = "4403"
               THEN EndAccess("membership") /\ UNCHANGED <<retryWaiting, forceToken, credentialRefusals>>
               ELSE IF code = "4401"
               THEN /\ forceToken' = TRUE
                    /\ credentialRefusals' = IF credentialRefusals = 0 THEN 1 ELSE 2
                    /\ ScheduleConnect(IF credentialRefusals = 0 THEN "now" ELSE "backoff")
                    /\ UNCHANGED <<lost, told>>
               ELSE ScheduleConnect("backoff") /\ UNCHANGED <<lost, told, forceToken, credentialRefusals>>
    /\ UNCHANGED <<protocolMismatch, disposed, asking, source, standing>>

\* The session closed it.
CloseEnds ==
    /\ \E s \in Sockets : phase[s] = "closing" /\ Closed(s, "1000")
    /\ UNCHANGED <<refused, troubles>>

Dropped ==
    /\ troubles < MaxTroubles /\ troubles' = troubles + 1
    /\ \E s \in Sockets : phase[s] \in {"connecting", "open"} /\ Closed(s, "1006")
    /\ UNCHANGED refused

\* The relay refuses a token: the credential was revoked, or the token died before its time.
TokenRefused ==
    /\ \/ standing = "revoked" /\ UNCHANGED troubles
       \/ standing = "member" /\ troubles < MaxTroubles /\ troubles' = troubles + 1
    /\ \E s \in Sockets :
           /\ phase[s] \in {"connecting", "open"}
           /\ refused' = refused \cup {presented[s]}
           /\ Closed(s, "4401")

MembershipRefused ==
    /\ standing = "removed"
    /\ \E s \in Sockets : phase[s] \in {"connecting", "open"} /\ Closed(s, "4403")
    /\ UNCHANGED <<refused, troubles>>

-----------------------------------------------------------------------------
(* The ends: a message, the owner.                                         *)

\* membership_revoked on the socket, or the owner's call: the socket is let go at once.
AccessEnds ==
    /\ MayEnd
    /\ \/ standing = "removed" /\ socket # "none" /\ phase[socket] = "open" /\ EndAccess("membership")
       \/ standing = "revoked" /\ EndAccess("credentials")
    /\ LetGo /\ Interrupted(TRUE)
    /\ UNCHANGED <<protocolMismatch, disposed, retryWaiting, forceToken, credentialRefusals, asking, source,
                   server>>

\* A message of another protocol version: the socket is closed, and let go by its close event.
ProtocolMismatch ==
    /\ \E s \in Sockets : phase[s] = "open"
    /\ ~protocolMismatch /\ protocolMismatch' = TRUE
    /\ reconnectTimer' = "none"
    /\ watermarks' = IF watermarks = "waiting" THEN "no" ELSE watermarks
    /\ Closing(socket)
    /\ UNCHANGED <<lost, disposed, told, retryWaiting, forceToken, credentialRefusals, asking, socket, open,
                   presented, source, server>>

Dispose ==
    /\ ~disposed /\ disposed' = TRUE
    /\ reconnectTimer' = "none"
    /\ watermarks' = IF watermarks \in {"waiting", "sent"} THEN "no" ELSE watermarks
    /\ Closing(socket)
    /\ UNCHANGED <<lost, protocolMismatch, told, retryWaiting, forceToken, credentialRefusals, asking, socket,
                   open, presented, source, server>>

\* Mutant: the network's return starts an attempt beside the one under way.
ReconnectsAnyhow == TRUE

\* Only a wait is cut short; a token or a socket already asked for is left alone.
MayReconnect == retryWaiting

ReconnectNow ==
    /\ MayReconnect /\ ~Ended
    /\ ScheduleConnect("now")
    /\ UNCHANGED <<ended, forceToken, credentialRefusals, asking, connection, source, watermarks, server>>

\* The server removes the member, or revokes the credential of this device.
StandingEnds ==
    /\ standing = "member"
    /\ standing' \in {"removed", "revoked"}
    /\ UNCHANGED <<ended, retrying, asking, connection, source, watermarks, refused, troubles>>

-----------------------------------------------------------------------------
(* requestWatermarks.                                                      *)

\* waitForCurrentConnection.
AwaitConnection ==
    watermarks' = IF open /\ socket # "none" THEN "resumed" ELSE IF Ended THEN "no" ELSE "waiting"

RequestWatermarks ==
    /\ watermarks = "no" /\ ~Ended
    /\ AwaitConnection
    /\ UNCHANGED <<ended, retrying, asking, connection, source, server>>

\* A close can land before the continuation runs.
WatermarksResume ==
    /\ watermarks = "resumed"
    /\ IF open /\ socket # "none" THEN watermarks' = "sent"
       ELSE IF disposed THEN watermarks' = "no" ELSE AwaitConnection
    /\ UNCHANGED <<ended, retrying, asking, connection, source, server>>

\* The relay's answer, or fifteen seconds without one.
WatermarksAnswered ==
    /\ watermarks = "sent"
    /\ watermarks' = "no"
    /\ UNCHANGED <<ended, retrying, asking, connection, source, server>>

-----------------------------------------------------------------------------
Minting == MintServed \/ MintGoesAstray \/ Deadline \/ MintSettles

Next ==
    \/ UploaderAsks \/ HeldComesDue \/ Minting
    \/ Connect \/ Opened \/ CloseEnds \/ Dropped \/ TokenRefused \/ MembershipRefused
    \/ AccessEnds \/ ProtocolMismatch \/ Dispose \/ ReconnectNow \/ StandingEnds
    \/ RequestWatermarks \/ WatermarksResume \/ WatermarksAnswered

\* Timers fire, a mint is answered or given up, a socket opens, and the relay closes the sockets
\* of those who lost their access; a request waits fifteen seconds at most. Nobody is bound to
\* call anything.
Fairness ==
    /\ WF_vars(Minting) /\ WF_vars(Connect) /\ WF_vars(Opened) /\ WF_vars(CloseEnds)
    /\ WF_vars(standing # "member" /\ (TokenRefused \/ MembershipRefused))
    /\ WF_vars(WatermarksResume \/ WatermarksAnswered)

Spec == Init /\ [][Next]_vars /\ Fairness

-----------------------------------------------------------------------------
(* Properties.                                                             *)

\* Every variable keeps its type; the owner is told of a loss at most once.
TypeOK ==
    /\ lost \in {"no", "membership", "credentials"} /\ told \in 0..1
    /\ {protocolMismatch, disposed, retryWaiting, forceToken, open, heldIsDue} \subseteq BOOLEAN
    /\ reconnectTimer \in {"none", "now", "backoff"} /\ credentialRefusals \in 0..2
    /\ asking \in Nat /\ socket \in Sockets \cup {"none"}
    /\ phase \in [Sockets -> {"none", "connecting", "open", "closing"}]
    /\ presented \in [Sockets -> Tokens \cup {"none"}]
    /\ {held, minted} \subseteq Tokens \cup {"none"}
    /\ inFlight \in {"no", "asked", "stuck", "token", "401", "403", "failed"}
    /\ watermarks \in {"no", "waiting", "resumed", "sent"}
    /\ standing \in {"member", "removed", "revoked"} /\ refused \subseteq Tokens
    /\ troubles \in 0..MaxTroubles

\* A session that has not ended has exactly one next step: a timer, a token asked for, or a
\* socket. So it never stops trying by mistake, and never opens two sockets. One that has ended
\* sets no timer and has told every socket to close.
Steps == (IF reconnectTimer # "none" THEN 1 ELSE 0) + asking + Cardinality({s \in Sockets : phase[s] # "none"})
OneNextStep ==
    /\ ~Ended => /\ Steps = 1
                 /\ retryWaiting <=> reconnectTimer # "none"
                 /\ asking = 1 => inFlight # "no"
    /\ Ended => /\ reconnectTimer = "none"
                /\ \A s \in Sockets : phase[s] \in {"none", "closing"}

\* A token the relay refused is never presented to it again, through mints that fail or are
\* shared with the uploader.
RefusedNotPresented ==
    [][\A s \in Sockets : phase[s] = "none" /\ phase'[s] = "connecting" => presented'[s] \notin refused]_vars

\* A session that is not connected connects or ends; one whose access was taken away ends; and a
\* request for watermarks is answered or refused, over any number of sockets.
ComesBackOrEnds ==
    /\ ~open ~> open \/ Ended
    /\ standing # "member" ~> Ended
    /\ watermarks # "no" ~> watermarks = "no"

=============================================================================
