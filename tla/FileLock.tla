------------------------------ MODULE FileLock ------------------------------
(***************************************************************************)
(* withFileLock (apps/mcp/src/file-lock.ts): processes that take turns     *)
(* under a lock file created exclusively, and take over the lock of one    *)
(* that died under a second file, the breaker.                             *)
(*                                                                         *)
(* Every file operation is a step. A file is who created it and whether it *)
(* has gone untouched for its limit: only that of a dead process does, for *)
(* a live holder touches its lock and a live waiter breaks one within      *)
(* milliseconds. A process suspended while it holds, which the module      *)
(* documents as an overlap, is left out.                                   *)
(***************************************************************************)
EXTENDS Naturals, FiniteSets

CONSTANTS
    Processes,
    MaxDeaths       \* bound: processes that die

ASSUME FileLockAssumption ==
    IsFiniteSet(Processes) /\ "nobody" \notin Processes /\ MaxDeaths \in Nat

VARIABLES
    pc,             \* what each process does next
    lock, breaker,  \* the files: who created each, "nobody" when there is none
    named,          \* whom the lock file names, once it was written
    lockOld, breakerOld,
    removed,        \* whether the process that ends a break removed the lock
    crossed,        \* a breaker was removed that its remover neither made nor found old
    deaths

files == <<lock, breaker, named, lockOld, breakerOld>>
vars  == <<pc, files, removed, crossed, deaths>>

Steps == {"away", "open", "write", "work", "read", "release",
          "stat", "openBreaker", "statBreaker", "rmBreaker", "recheck", "rmLock", "endBreak",
          "wait", "dead"}

Init ==
    /\ pc = [p \in Processes |-> "away"]
    /\ lock = "nobody" /\ breaker = "nobody" /\ named = "nobody"
    /\ lockOld = FALSE /\ breakerOld = FALSE
    /\ removed = [p \in Processes |-> FALSE] /\ crossed = FALSE
    /\ deaths = 0

-----------------------------------------------------------------------------
Goes(p, from, to) == pc[p] = from /\ pc' = [pc EXCEPT ![p] = to]

RemoveLock    == lock' = "nobody" /\ named' = "nobody" /\ lockOld' = FALSE
RemoveBreaker == breaker' = "nobody" /\ breakerOld' = FALSE

KeepLock    == UNCHANGED <<lock, named, lockOld>>
KeepBreaker == UNCHANGED <<breaker, breakerOld>>

(* Taking the lock and letting it go.                                      *)

Call(p) ==
    /\ Goes(p, "away", "open")
    /\ UNCHANGED <<files, removed, crossed, deaths>>

\* open(lock, 'wx'): created, or found there.
OpenLock(p) ==
    /\ \/ lock = "nobody" /\ Goes(p, "open", "write") /\ lock' = p
       \/ lock # "nobody" /\ Goes(p, "open", "stat") /\ UNCHANGED lock
    /\ UNCHANGED <<named, lockOld, breaker, breakerOld, removed, crossed, deaths>>

\* Mutant: the name is written by the path, into whichever file is there.
ByPath(p) == TRUE

\* The handle is this process's file: what it writes is not seen once the file was removed.
ByHandle(p) == lock = p

WriteName(p) ==
    /\ Goes(p, "write", "work")
    /\ named' = IF ByHandle(p) THEN p ELSE named
    /\ UNCHANGED <<lock, lockOld, breaker, breakerOld, removed, crossed, deaths>>

Work(p) ==
    /\ Goes(p, "work", "read")
    /\ UNCHANGED <<files, removed, crossed, deaths>>

\* The holder removes the lock only if it still names it.
ReadName(p) ==
    /\ Goes(p, "read", IF named = p THEN "release" ELSE "away")
    /\ UNCHANGED <<files, removed, crossed, deaths>>

Release(p) ==
    /\ Goes(p, "release", "away")
    /\ RemoveLock /\ KeepBreaker
    /\ UNCHANGED <<removed, crossed, deaths>>

-----------------------------------------------------------------------------
(* Waiting, and breaking a stale lock.                                     *)

\* isOlderThan(lock) before the break.
StatLock(p) ==
    /\ Goes(p, "stat", IF lock # "nobody" /\ lockOld THEN "openBreaker" ELSE "wait")
    /\ UNCHANGED <<files, removed, crossed, deaths>>

OpenBreaker(p) ==
    /\ \/ breaker = "nobody" /\ Goes(p, "openBreaker", "recheck") /\ breaker' = p
       \/ breaker # "nobody" /\ Goes(p, "openBreaker", "statBreaker") /\ UNCHANGED breaker
    /\ UNCHANGED <<lock, named, lockOld, breakerOld, removed, crossed, deaths>>

\* Mutant: the breaker of a waiter that died is left there.
NeverStale == FALSE

BreakerIsStale == breaker # "nobody" /\ breakerOld

StatBreaker(p) ==
    /\ Goes(p, "statBreaker", IF BreakerIsStale THEN "rmBreaker" ELSE "wait")
    /\ UNCHANGED <<files, removed, crossed, deaths>>

\* rm(breaker): whichever breaker is there by now.
ClearBreaker(p) ==
    /\ Goes(p, "rmBreaker", "wait")
    /\ RemoveBreaker /\ KeepLock
    /\ crossed' = (crossed \/ (breaker # "nobody" /\ ~breakerOld))
    /\ UNCHANGED <<removed, deaths>>

\* Mutant: the lock found stale before is removed without a second look.
StaleBefore == TRUE

\* isOlderThan(lock) under the breaker.
StillStale == lock # "nobody" /\ lockOld

Recheck(p) ==
    /\ Goes(p, "recheck", IF StillStale THEN "rmLock" ELSE "endBreak")
    /\ removed' = [removed EXCEPT ![p] = StillStale]
    /\ UNCHANGED <<files, crossed, deaths>>

BreakLock(p) ==
    /\ Goes(p, "rmLock", "endBreak")
    /\ RemoveLock /\ KeepBreaker
    /\ UNCHANGED <<removed, crossed, deaths>>

\* rm(breaker), and the lock at once if this process removed it.
EndBreak(p) ==
    /\ Goes(p, "endBreak", IF removed[p] THEN "open" ELSE "wait")
    /\ RemoveBreaker /\ KeepLock
    /\ removed' = [removed EXCEPT ![p] = FALSE]
    /\ crossed' = (crossed \/ breaker \notin {p, "nobody"})
    /\ UNCHANGED deaths

\* A tenth of a second later.
Retry(p) ==
    /\ Goes(p, "wait", "open")
    /\ UNCHANGED <<files, removed, crossed, deaths>>

\* LOCK_WAIT_MS has passed: withFileLock throws.
GiveUp(p) ==
    /\ Goes(p, "wait", "away")
    /\ UNCHANGED <<files, removed, crossed, deaths>>

-----------------------------------------------------------------------------
(* Death and time.                                                         *)

Dies(p) ==
    /\ pc[p] \notin {"away", "dead"} /\ deaths < MaxDeaths
    /\ pc' = [pc EXCEPT ![p] = "dead"]
    /\ removed' = [removed EXCEPT ![p] = FALSE]
    /\ deaths' = deaths + 1
    /\ UNCHANGED <<files, crossed>>

Dead(p) == p \in Processes /\ pc[p] = "dead"

\* LOCK_STALE_MS and BREAK_STALE_MS after the last touch.
LockAges ==
    /\ Dead(lock) /\ ~lockOld /\ lockOld' = TRUE
    /\ UNCHANGED <<pc, lock, named, breaker, breakerOld, removed, crossed, deaths>>

BreakerAges ==
    /\ Dead(breaker) /\ ~breakerOld /\ breakerOld' = TRUE
    /\ UNCHANGED <<pc, lock, named, lockOld, breaker, removed, crossed, deaths>>

-----------------------------------------------------------------------------
Holding(p)  == OpenLock(p) \/ WriteName(p) \/ Work(p) \/ ReadName(p) \/ Release(p)
Breaking(p) ==
    \/ StatLock(p) \/ OpenBreaker(p) \/ StatBreaker(p) \/ ClearBreaker(p)
    \/ Recheck(p) \/ BreakLock(p) \/ EndBreak(p) \/ Retry(p)

Next ==
    \/ \E p \in Processes : Call(p) \/ Holding(p) \/ Breaking(p) \/ GiveUp(p) \/ Dies(p)
    \/ LockAges \/ BreakerAges

\* A live process goes on, and time passes. Nobody has to call, give up or die.
Fairness ==
    /\ \A p \in Processes : WF_vars(Holding(p) \/ Breaking(p))
    /\ WF_vars(LockAges \/ BreakerAges)

Spec == Init /\ [][Next]_vars /\ Fairness

-----------------------------------------------------------------------------
(* Properties.                                                             *)

\* Every variable keeps its type; a lock file names its creator or nobody yet.
TypeOK ==
    /\ pc \in [Processes -> Steps]
    /\ {lock, breaker} \subseteq Processes \cup {"nobody"} /\ named \in {lock, "nobody"}
    /\ {lockOld, breakerOld, crossed} \subseteq BOOLEAN
    /\ removed \in [Processes -> BOOLEAN]
    /\ deaths \in 0..MaxDeaths

Holders == {p \in Processes : pc[p] \in {"write", "work", "read", "release"}}

\* One process works at a time, whoever died and however many found the lock stale at once, as
\* long as no breaker was removed but by who made it or found it old.
HoldersApart == ~crossed => Cardinality(Holders) <= 1

\* A lock whose process died does not stay while somebody waits, a breaker of the dead standing in
\* its way included, unless the waiters give up: then the next one to call finds it old at once.
\* It says nothing of a breaker left without a stale lock, by a waiter that dies after it removed
\* the lock: that one stays until a lock next goes stale and somebody needs the breaker.
Waiting == \E p \in Processes : pc[p] \notin {"away", "dead"}
StaleIsCleared == Dead(lock) ~> (~Dead(lock) \/ ~Waiting)

=============================================================================
