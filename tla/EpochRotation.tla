----------------------------- MODULE EpochRotation -----------------------------
(***************************************************************************)
(* The Graph Key of one graph and the vaults it is kept in: how the        *)
(* owner's devices start an epoch (sync/epoch-rotation.ts), how every      *)
(* account collects its copy (sync/key-handouts.ts), how members come, go  *)
(* and replace their keys (sync/invites.ts, sync/pins.ts,                  *)
(* sync/key-replacement.ts), and the compare-and-set every one of them     *)
(* writes a vault by (sync/vault-update.ts). The server's side is the      *)
(* contract those modules are tested against (testing/fake-sync-server.ts).*)
(*                                                                         *)
(* A call runs from one request to the next in a step of its own; the      *)
(* server serves a request and the call goes on in one step, for nothing   *)
(* but the call reads what the answer carries, unless the answer is lost.  *)
(* A key is named by the device that made it, an identity by its number,   *)
(* which is the vault key's too: both are replaced together. Keys from     *)
(* before signing keys, and what the user is told, are left out.           *)
(***************************************************************************)
EXTENDS Integers, FiniteSets

CONSTANTS
    Owner, Members,     \* the accounts; a member has one device, named like the member
    Devices,            \* the owner's devices
    Replacing,          \* the accounts that may replace their keys
    MaxChanges,         \* bound: removals, invites, rotations asked for, replacements
    MaxTroubles         \* bound: requests or answers lost, pages closed

Accounts  == {Owner} \cup Members
Processes == Devices \cup Members

ASSUME EpochRotationAssumption ==
    /\ Owner \notin Members \cup Devices /\ Members \cap Devices = {}
    /\ IsFiniteSet(Processes) /\ Replacing \subseteq Accounts
    /\ MaxChanges \in Nat /\ MaxTroubles \in Nat

VARIABLES
    committed,      \* the epochs of the graph so far, each with its key
    lease, due,     \* the number allocated last, and whether the server marks the graph due
    membership,     \* each account: "active", "invited" or "out"
    copies, invites,\* the newest copy, and the invite, that wait for an account
    vault,          \* each account's: version, keys of the graph, pins, identity
    call,           \* what each device is doing
    leftAt,         \* history: the epoch a member was removed at, 0 for none
    missed,         \* history: accounts an invite or a replacement left without an epoch
    changes, troubles

server == <<committed, lease, due, membership, copies, invites, leftAt, missed>>
vars   == <<server, vault, call, changes, troubles>>

Account(p) == IF p \in Devices THEN Owner ELSE p
Current    == Cardinality(committed)
InGraph    == {a \in Accounts : membership[a] # "out"}
Identity   == [a \in Accounts |-> vault[a].identity]

MaxAttempts == 3    \* of rotateGraphKey, updateVault and commit alike
NoOne   == [a \in Accounts |-> 0]
NoCopy  == [epoch |-> 0, keys |-> {}, to |-> 0, by |-> 0]
NoVault == [version |-> 0, keys |-> {}, pins |-> NoOne, identity |-> 0]
Idle    == [kind |-> "none", step |-> "idle", then |-> "no", key |-> 0, from |-> 0, attempt |-> 0,
            tries |-> 0, epoch |-> 0, previous |-> 0, presented |-> NoOne,
            copy |-> NoCopy, keys |-> {}, read |-> NoVault]

\* A graph in its first epoch, due the next or not, shared with some. Nobody is pinned.
Init ==
    /\ committed = {<<1, Owner>>} /\ lease = 0 /\ due \in BOOLEAN
    /\ membership \in {f \in [Accounts -> {"active", "out"}] : f[Owner] = "active"}
    /\ copies = [a \in Accounts |-> NoCopy] /\ invites = [m \in Members |-> NoCopy]
    /\ vault = [a \in Accounts |->
                   [version |-> 1, keys |-> IF a \in InGraph THEN committed ELSE {}, pins |-> NoOne,
                    identity |-> 1]]
    /\ call = [p \in Processes |-> Idle]
    /\ leftAt = [m \in Members |-> 0] /\ missed = {}
    /\ changes = 0 /\ troubles = 0

-----------------------------------------------------------------------------
(* What a call makes of a vault.                                           *)

EpochsIn(keys)       == {k[1] : k \in keys}
Newest(keys)         == CHOOSE e \in EpochsIn(keys) : \A f \in EpochsIn(keys) : f <= e
Conflict(held, keys) == \E k \in held, l \in keys : k[1] = l[1] /\ k # l

WithPins(v, own, presented) ==
    [v EXCEPT !.pins = [a \in Accounts |->
        IF a # own /\ presented[a] # 0 THEN presented[a] ELSE v.pins[a]]]

PinChanged(v, own, presented) ==
    \E a \in Accounts \ {own} : presented[a] # 0 /\ v.pins[a] \notin {0, presented[a]}

\* openKeyHandouts: sealed to this vault, and signed by the owner's identity as published.
ChecksOut(copy, v, signer) == copy # NoCopy /\ copy.to = v.identity /\ copy.by = signer

\* foldHandouts: what checks out, from the owner the pins say, joins the keyring held, if one is.
Folds(v, own, c) ==
    /\ ChecksOut(c.copy, v, c.presented[Owner]) /\ ~PinChanged(v, own, c.presented)
    /\ v.keys # {} /\ ~Conflict(v.keys, c.copy.keys)

Collecting(c) == c.then # "no"

Change(v, own, c) ==
    IF Collecting(c)
    THEN IF Folds(v, own, c)
         THEN [WithPins(v, own, c.presented) EXCEPT !.keys = @ \cup c.copy.keys]
         ELSE v
    ELSE CASE c.kind = "rotate" /\ PinChanged(v, own, c.presented) -> v
           [] c.kind = "accept" -> [WithPins(v, own, c.presented) EXCEPT !.keys = @ \cup c.keys]
           [] OTHER             -> WithPins(v, own, c.presented)

-----------------------------------------------------------------------------
(* Where a call goes on.                                                   *)

\* Mutant: updateVault does not begin to count its attempts anew.
ReadsOn(c) == [c EXCEPT !.step = "read"]

Reads(c) == [c EXCEPT !.step = "read", !.tries = 1]

\* The presented identities are those of whoever the call looked at; a collection looks anew.
Collects(c, then) == [c EXCEPT !.step = "list", !.then = then]

Collected(c) ==
    CASE c.then = "replace" -> [c EXCEPT !.step = "open", !.then = "no", !.attempt = 1]
      [] c.then = "again" /\ c.attempt < MaxAttempts ->
             [c EXCEPT !.step = "allocate", !.then = "no", !.attempt = @ + 1, !.copy = NoCopy]
      [] OTHER              -> Idle

\* What a call does about a request that failed: a collection is best effort but for one.
Throws(c) == IF c.then \in {"done", "replace"} THEN Collected(c) ELSE Idle

\* Mutant: a key is made on top of whatever keyring the vault holds.
BuildsOnAny(keys, epoch) == TRUE

BuildsOn(keys, epoch) == Newest(keys) = epoch - 1

\* The vault holds v now, or held it already: what follows updateVault.
Updated(p, c, v) ==
    LET own == Account(p) IN
    IF Collecting(c)
    THEN IF Folds(v, own, c) THEN [c EXCEPT !.step = "ack"] ELSE Collected(c)
    ELSE CASE c.kind = "rotate" ->
                  IF PinChanged(v, own, c.presented) THEN Idle
                  ELSE IF ~BuildsOn(v.keys, c.epoch) THEN Collects(c, "again")
                  ELSE [c EXCEPT !.step = "commit", !.keys = v.keys \cup {<<c.epoch, p>>},
                                 !.presented[Owner] = v.identity]
           [] c.kind = "invite" -> [c EXCEPT !.step = "create", !.keys = v.keys]
           [] c.kind = "accept" -> [c EXCEPT !.step = "activate"]
           [] OTHER -> Idle

Goes(p, c) == call' = [call EXCEPT ![p] = c]

\* The answer reaches the call, which goes on as c; or it is lost, or the page closes first.
Answered(p, c) ==
    \/ Goes(p, c) /\ UNCHANGED troubles
    \/ /\ troubles < MaxTroubles /\ troubles' = troubles + 1
       /\ Goes(p, Throws(call[p])) \/ Goes(p, Idle)

-----------------------------------------------------------------------------
(* updateVault.                                                            *)

\* Mutant: a change made before the conflict is kept for the next attempt.
ReadAtFirst(c, v) == IF c.tries > 1 THEN [c.read EXCEPT !.version = v.version] ELSE v

\* Each attempt works from the vault as it is now.
ReadNow(c, v) == v

\* A vault whose keys were replaced does not open with the key this call holds.
ReadVault(p) ==
    LET c   == call[p]
        own == Account(p)
        v   == ReadNow(c, vault[own])
        to  == Change(v, own, c) IN
    /\ c.step = "read"
    /\ Answered(p, IF vault[own].identity # c.key \/ (c.kind = "accept" /\ Conflict(v.keys, c.keys))
                   THEN Throws(c)
                   ELSE IF to = v /\ (Collecting(c) \/ c.kind # "accept") THEN Updated(p, c, v)
                   ELSE [c EXCEPT !.step = "write", !.read = v])
    /\ UNCHANGED <<server, vault, changes>>

WriteVault(p) ==
    LET c   == call[p]
        own == Account(p)
        to  == [Change(c.read, own, c) EXCEPT !.version = @ + 1] IN
    /\ c.step = "write"
    /\ IF vault[own].version = c.read.version
       THEN /\ vault' = [vault EXCEPT ![own] = to]
            /\ Answered(p, [Updated(p, c, to) EXCEPT !.read = NoVault])
       ELSE /\ UNCHANGED vault
            /\ Answered(p, IF c.tries < MaxAttempts THEN [c EXCEPT !.step = "read", !.tries = @ + 1]
                           ELSE Throws(c))
    /\ UNCHANGED <<server, changes>>

-----------------------------------------------------------------------------
(* collectKeyHandouts.                                                     *)

Begins(p, c) ==
    /\ call[p].step = "idle"
    /\ Goes(p, [c EXCEPT !.key = vault[Account(p)].identity])
    /\ UNCHANGED <<vault, troubles>>

StartCollect(p) ==
    /\ copies[Account(p)] # NoCopy /\ Account(p) \in InGraph
    /\ Begins(p, Collects([Idle EXCEPT !.kind = "collect"], "end"))
    /\ UNCHANGED <<server, changes>>

ListCopies(p) ==
    /\ call[p].step = "list"
    /\ Answered(p, Reads([call[p] EXCEPT
           !.copy = IF Account(p) \in InGraph THEN copies[Account(p)] ELSE NoCopy,
           !.presented = [NoOne EXCEPT ![Owner] = vault[Owner].identity]]))
    /\ UNCHANGED <<server, vault, changes>>

\* A copy that replaced the one listed is left; an acknowledgement that fails is not missed.
Acknowledge(p) ==
    LET a == Account(p) IN
    /\ call[p].step = "ack"
    /\ copies' = IF copies[a].epoch = call[p].copy.epoch THEN [copies EXCEPT ![a] = NoCopy] ELSE copies
    /\ Answered(p, Collected(call[p]))
    /\ UNCHANGED <<committed, lease, due, membership, invites, leftAt, missed, vault, changes>>

-----------------------------------------------------------------------------
(* rotateGraphKey.                                                         *)

\* A page of the owner that finds the graph due, from the Graphs page or as the graph opens.
StartRotate(p) ==
    /\ p \in Devices /\ due
    /\ Begins(p, [Idle EXCEPT !.kind = "rotate", !.step = "allocate", !.attempt = 1, !.from = Current])
    /\ UNCHANGED <<server, changes>>

\* Mutant: the epoch this call was allocated before counts as another's.
SupersededBySame(c, epoch) == c.previous # 0 /\ epoch >= c.previous

\* Another device committed an epoch after this call's last allocation.
Superseded(c, epoch) == c.previous # 0 /\ epoch > c.previous

Allocate(p) ==
    LET c     == call[p]
        epoch == Current + 1 IN
    /\ c.step = "allocate"
    /\ lease' = epoch
    /\ Answered(p, IF Superseded(c, epoch) THEN Collects([c EXCEPT !.epoch = epoch - 1], "done")
                   ELSE Reads([c EXCEPT !.epoch = epoch, !.presented =
                       [a \in Accounts |-> IF a \in InGraph THEN Identity[a] ELSE 0]]))
    /\ UNCHANGED <<committed, due, membership, copies, invites, leftAt, missed, vault, changes>>

\* The server takes the copies of everyone in the graph, sealed to the keys they have now.
CommitHolds(c) ==
    /\ lease = c.epoch /\ Current = c.epoch - 1
    /\ \A a \in Accounts : c.presented[a] = IF a \in InGraph THEN Identity[a] ELSE 0

CopyFor(c, a) == [epoch |-> c.epoch, keys |-> c.keys, to |-> c.presented[a], by |-> c.presented[Owner]]

Commit(p) ==
    LET c == call[p] IN
    /\ c.step = "commit"
    /\ IF CommitHolds(c)
       THEN /\ committed' = committed \cup {<<c.epoch, p>>}
            /\ lease' = 0 /\ due' = FALSE
            /\ copies' = [a \in Accounts |-> IF a \in InGraph THEN CopyFor(c, a) ELSE copies[a]]
            /\ missed' = missed \ InGraph
            /\ Answered(p, Collects([c EXCEPT !.keys = {}], "done"))
       ELSE /\ UNCHANGED <<committed, lease, due, copies, missed>>
            /\ Answered(p, IF c.attempt < MaxAttempts
                           THEN [c EXCEPT !.step = "allocate", !.attempt = @ + 1, !.previous = c.epoch,
                                          !.keys = {}]
                           ELSE Idle)
    /\ UNCHANGED <<membership, invites, leftAt, vault, changes>>

\* The owner's Rotate key.
RequestRotation ==
    /\ ~due /\ changes < MaxChanges
    /\ due' = TRUE /\ changes' = changes + 1
    /\ UNCHANGED <<committed, lease, membership, copies, invites, leftAt, missed, vault, call, troubles>>

-----------------------------------------------------------------------------
(* Members: removal, Verify, invites.                                      *)

\* Out of the graph go the membership and the copy that waits. That a pending invite goes with them is
\* an assumption about the server: the fake one leaves it pending (fake-sync-server.ts:490-496).
Leave(gone) ==
    /\ membership' = [a \in Accounts |-> IF a \in gone THEN "out" ELSE membership[a]]
    /\ copies'     = [a \in Accounts |-> IF a \in gone THEN NoCopy ELSE copies[a]]
    /\ invites'    = [m \in Members |-> IF m \in gone THEN NoCopy ELSE invites[m]]

RemoveMember(m) ==
    /\ m \in InGraph /\ changes < MaxChanges
    /\ Leave({m}) /\ due' = TRUE /\ changes' = changes + 1
    /\ leftAt' = [leftAt EXCEPT ![m] = Current]
    /\ UNCHANGED <<committed, lease, missed, vault, call, troubles>>

\* savePin, by an account that is shown another identity than the one it pinned.
StartVerify(p, a) ==
    /\ a # Account(p) /\ vault[Account(p)].pins[a] \notin {0, Identity[a]}
    /\ Begins(p, Reads([Idle EXCEPT !.kind = "verify", !.presented[a] = Identity[a]]))
    /\ UNCHANGED <<server, changes>>

\* sendInvite: the pin first, then the keyring of the vault that holds it.
StartInvite(p, m) ==
    /\ p \in Devices /\ m \notin InGraph /\ changes < MaxChanges
    /\ Begins(p, Reads([Idle EXCEPT !.kind = "invite", !.presented[m] = Identity[m]]))
    /\ changes' = changes + 1
    /\ UNCHANGED server

CreateInvite(p) ==
    LET c == call[p] IN
    /\ c.step = "create"
    /\ \E m \in Members :
           /\ c.presented[m] # 0
           /\ IF membership[m] # "active" /\ c.presented[m] = Identity[m] /\ c.key = Identity[Owner]
              THEN /\ membership' = [membership EXCEPT ![m] = "invited"]
                   /\ invites' = [invites EXCEPT ![m] =
                          [epoch |-> 0, keys |-> c.keys, to |-> c.presented[m], by |-> c.key]]
                   /\ leftAt' = [leftAt EXCEPT ![m] = 0]
                   /\ missed' = IF c.keys = committed THEN missed ELSE missed \cup {m}
              ELSE UNCHANGED <<membership, invites, leftAt, missed>>
    /\ Answered(p, Idle)
    /\ UNCHANGED <<committed, lease, due, copies, vault, changes>>

\* acceptInvite: the keyring into the vault first, then the membership.
StartAccept(m) ==
    LET invite == invites[m] IN
    /\ invite # NoCopy /\ invite.to = Identity[m] /\ invite.by = Identity[Owner]
    /\ Begins(m, Reads([Idle EXCEPT !.kind = "accept", !.keys = invite.keys,
                                    !.presented[Owner] = invite.by]))
    /\ UNCHANGED <<server, changes>>

Activate(m) ==
    /\ call[m].step = "activate"
    /\ IF invites[m].keys = call[m].keys
       THEN /\ membership' = [membership EXCEPT ![m] = "active"]
            /\ invites' = [invites EXCEPT ![m] = NoCopy]
       ELSE UNCHANGED <<membership, invites>>
    /\ Answered(m, Idle)
    /\ UNCHANGED <<committed, lease, due, copies, leftAt, missed, vault, changes>>

-----------------------------------------------------------------------------
(* Key Replacement.                                                        *)

StartReplace(p) ==
    /\ Account(p) \in Replacing /\ changes < MaxChanges
    /\ Begins(p, Collects([Idle EXCEPT !.kind = "replace"], "replace"))
    /\ changes' = changes + 1
    /\ UNCHANGED server

\* The vault the new identity is made over. The write before it (key-replacement.ts:82) only gives a
\* signing key to a vault from before there were any; every vault here has one, and it writes nothing.
OpenVault(p) ==
    LET v == vault[Account(p)] IN
    /\ call[p].step = "open"
    /\ Answered(p, IF v.identity # call[p].key THEN Idle ELSE [call[p] EXCEPT !.step = "replace", !.read = v])
    /\ UNCHANGED <<server, vault, changes>>

\* What an account has or can still take, once fingerprints are compared where they must be.
Reach(a) ==
    LET v == vault[a] IN
    v.keys
      \cup (IF a \in Members THEN invites[a].keys ELSE {})
      \cup (IF ChecksOut(copies[a], v, Identity[Owner]) THEN copies[a].keys ELSE {})

\* replaceKeys: a new identity over the vault it was made from. The server drops the copies sealed
\* to the old one, ends the account's pending invites, and makes what it owns due.
ReplaceKeys(p) ==
    LET c    == call[p]
        a    == Account(p)
        gone == {m \in Members : membership[m] = "invited" /\ (a = Owner \/ m = a)} IN
    /\ c.step = "replace"
    /\ IF vault[a].version = c.read.version
       THEN /\ vault' = [vault EXCEPT ![a].version = @ + 1, ![a].identity = @ + 1]
            /\ membership' = [b \in Accounts |-> IF b \in gone THEN "out" ELSE membership[b]]
            /\ invites' = [m \in Members |-> IF m \in gone THEN NoCopy ELSE invites[m]]
            /\ copies' = [b \in Accounts |-> IF b \in gone \cup {a} THEN NoCopy ELSE copies[b]]
            /\ due' = (due \/ a = Owner)
            /\ leftAt' = [m \in Members |-> IF a = Owner /\ m \in gone THEN Current ELSE leftAt[m]]
            /\ missed' = missed \cup {b \in Accounts : Reach(b)' # committed}
            /\ Answered(p, Idle)
       ELSE /\ UNCHANGED <<vault, membership, invites, copies, due, leftAt, missed>>
            /\ Answered(p, IF c.attempt < MaxAttempts THEN [c EXCEPT !.step = "open", !.attempt = @ + 1]
                           ELSE Idle)
    /\ UNCHANGED <<committed, lease, changes>>

-----------------------------------------------------------------------------

\* A request that does not reach the server, or a page that closes.
Trouble(p) ==
    /\ call[p].step # "idle" /\ troubles < MaxTroubles /\ troubles' = troubles + 1
    /\ Goes(p, Throws(call[p])) \/ Goes(p, Idle)
    /\ UNCHANGED <<server, vault, changes>>

GoOn(p) ==
    \/ ReadVault(p) \/ WriteVault(p) \/ ListCopies(p) \/ Acknowledge(p)
    \/ Allocate(p) \/ Commit(p) \/ CreateInvite(p)
    \/ p \in Members /\ Activate(p)
    \/ OpenVault(p) \/ ReplaceKeys(p)

Next ==
    \/ \E p \in Processes :
           \/ GoOn(p) \/ Trouble(p)
           \/ StartCollect(p) \/ StartRotate(p) \/ StartReplace(p)
           \/ \E a \in Accounts : StartVerify(p, a)
           \/ \E m \in Members : StartInvite(p, m)
    \/ \E m \in Members : RemoveMember(m) \/ StartAccept(m)
    \/ RequestRotation

Spec == Init /\ [][Next]_vars

-----------------------------------------------------------------------------

KeySets == SUBSET (Nat \X (Processes \cup {Owner}))
Copies  == [epoch : Nat, keys : KeySets, to : Nat, by : Nat]
Vaults  == [version : Nat, keys : KeySets, pins : [Accounts -> Nat], identity : Nat]
Kinds   == {"none", "rotate", "collect", "verify", "invite", "accept", "replace"}
Steps   == {"idle", "list", "read", "write", "ack", "allocate", "commit", "create", "activate",
            "open", "replace"}
Thens   == {"no", "end", "again", "done", "replace"}
Calls   ==
    [kind : Kinds, step : Steps, then : Thens,
     key : Nat, from : Nat, attempt : 0 .. MaxAttempts, tries : 0 .. MaxAttempts,
     epoch : Nat, previous : Nat, presented : [Accounts -> Nat], copy : Copies, keys : KeySets,
     read : Vaults]

\* The variables keep their types, and every vault update counts its attempts from one to three.
TypeOK ==
    /\ committed \in KeySets /\ IsFiniteSet(committed) /\ lease \in Nat /\ due \in BOOLEAN
    /\ membership \in [Accounts -> {"active", "invited", "out"}]
    /\ copies \in [Accounts -> Copies] /\ invites \in [Members -> Copies]
    /\ vault \in [Accounts -> Vaults] /\ call \in [Processes -> Calls]
    /\ \A p \in Processes : call[p].step \in {"read", "write"} => call[p].tries \in 1 .. MaxAttempts
    /\ leftAt \in [Members -> Nat] /\ missed \subseteq Accounts
    /\ changes \in Nat /\ troubles \in Nat

\* Everyone in the graph holds every epoch of it, or can still take those that are missing from
\* the copy or the invite that waits, and holds no key but the graph's: "a member who missed one
\* copy loses nothing by collecting the next" (key-handouts.ts:9-10). Except whom the owner
\* invited with a keyring that an epoch overtook, and who replaced keys with a copy unread, until
\* the next epoch.
NoEpochLost == \A a \in InGraph \ missed : Reach(a) = committed

\* The owner is not to be excepted: the next epoch is made from the keyring the owner holds, so
\* an owner who lost one can neither write nor start another.
OwnerKeepsUp == Reach(Owner) = committed

\* Whoever was removed knows no epoch made after, and once nothing is due the newest epoch is one
\* of those; a rotation that is about to be reported names an epoch committed after it was asked for.
LeaversShutOut ==
    /\ \A m \in Members \ InGraph : leftAt[m] # 0 =>
           /\ \A k \in vault[m].keys \cup call[m].copy.keys \cup call[m].keys : k[1] <= leftAt[m]
           /\ due \/ leftAt[m] < Current
    /\ \A p \in Devices : call[p].then = "done" => call[p].epoch \in call[p].from + 1 .. Current

\* No write of a vault loses an epoch or a pin that another device of the account put there: "one
\* device's change never overwrites another's" (vault-update.ts:7).
VaultKeepsWhatItHolds ==
    [][\A a \in Accounts :
           /\ vault[a].keys \subseteq vault'[a].keys
           /\ \A b \in Accounts : vault[a].pins[b] # 0 => vault'[a].pins[b] # 0]_vars
=============================================================================
