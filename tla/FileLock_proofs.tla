--------------------------- MODULE FileLock_proofs ---------------------------
(***************************************************************************)
(* Mutual exclusion of withFileLock, for any number of processes and any   *)
(* deaths.                                                                 *)
(***************************************************************************)
EXTENDS FileLock, TLAPS, FiniteSetTheorems

\* What an age says: only files of dead processes grow old.
AgesAreOfTheDead == (lockOld => Dead(lock)) /\ (breakerOld => Dead(breaker))

\* A process that holds is the one that created the lock file there is.
HolderMadeIt == \A p \in Holders : lock = p

\* A process that breaks is the one that created the breaker there is, and goes on to remove
\* only a lock that is still old.
Breakers == {p \in Processes : pc[p] \in {"recheck", "rmLock", "endBreak"}}
BreakerMadeIt ==
    /\ \A p \in Breakers : breaker = p
    /\ \A p \in Processes : pc[p] = "rmLock" => lockOld

LockInv ==
    /\ TypeOK
    /\ AgesAreOfTheDead
    /\ ~crossed => HolderMadeIt /\ BreakerMadeIt

LEMMA LockInit == Init => LockInv
<1> SUFFICES ASSUME Init PROVE LockInv
  OBVIOUS
<1>1. TypeOK
  <2>1. deaths \in 0..MaxDeaths
    BY FileLockAssumption DEF Init
  <2>2. /\ pc \in [Processes -> Steps] /\ removed \in [Processes -> BOOLEAN]
        /\ {lock, breaker} \subseteq Processes \cup {"nobody"} /\ named \in {lock, "nobody"}
    BY DEF Init, Steps
  <2>3. {lockOld, breakerOld, crossed} \subseteq BOOLEAN
    BY DEF Init
  <2> QED
    BY <2>1, <2>2, <2>3 DEF TypeOK
<1>2. AgesAreOfTheDead
  BY DEF Init, AgesAreOfTheDead
<1>3. HolderMadeIt /\ BreakerMadeIt
  BY DEF Init, HolderMadeIt, BreakerMadeIt, Holders, Breakers
<1> QED
  BY <1>1, <1>2, <1>3 DEF LockInv

LEMMA LockTypes == TypeOK /\ [Next]_vars => TypeOK'
<1> SUFFICES ASSUME TypeOK, [Next]_vars PROVE TypeOK'
  OBVIOUS
<1> USE FileLockAssumption DEF TypeOK, Goes, Steps
<1>1. ASSUME NEW p \in Processes, Call(p) \/ Work(p) \/ ReadName(p) \/ StatLock(p) \/ StatBreaker(p)
                                  \/ Retry(p) \/ GiveUp(p)
      PROVE  TypeOK'
  BY <1>1 DEF Call, Work, ReadName, StatLock, StatBreaker, Retry, GiveUp, files
<1>2. ASSUME NEW p \in Processes, OpenLock(p) \/ WriteName(p) \/ Release(p) \/ OpenBreaker(p)
      PROVE  TypeOK'
  BY <1>2 DEF OpenLock, WriteName, ByHandle, Release, OpenBreaker, RemoveLock, KeepBreaker
<1>3. ASSUME NEW p \in Processes, ClearBreaker(p) \/ Recheck(p) \/ BreakLock(p) \/ EndBreak(p)
      PROVE  TypeOK'
  BY <1>3 DEF ClearBreaker, Recheck, StillStale, BreakLock, EndBreak, RemoveLock, RemoveBreaker,
              KeepLock, KeepBreaker, files
<1>4. ASSUME NEW p \in Processes, Dies(p) PROVE TypeOK'
  BY <1>4 DEF Dies, files
<1>5. CASE LockAges \/ BreakerAges
  BY <1>5 DEF LockAges, BreakerAges
<1>6. CASE UNCHANGED vars
  BY <1>6 DEF vars, files
<1> QED
  BY <1>1, <1>2, <1>3, <1>4, <1>5, <1>6 DEF Next, Holding, Breaking

\* The dead stay dead, and what is created anew is not old.
LEMMA LockAging == LockInv /\ [Next]_vars => AgesAreOfTheDead'
<1> SUFFICES ASSUME LockInv, [Next]_vars PROVE AgesAreOfTheDead'
  OBVIOUS
<1> USE FileLockAssumption DEF LockInv, TypeOK, AgesAreOfTheDead, Dead, Goes
<1>1. ASSUME NEW p \in Processes, Call(p) \/ Work(p) \/ ReadName(p) \/ StatLock(p) \/ StatBreaker(p)
                                  \/ Retry(p) \/ GiveUp(p)
      PROVE  AgesAreOfTheDead'
  BY <1>1 DEF Call, Work, ReadName, StatLock, StatBreaker, Retry, GiveUp, files
<1>2. ASSUME NEW p \in Processes, OpenLock(p) \/ WriteName(p) \/ Release(p) \/ OpenBreaker(p)
      PROVE  AgesAreOfTheDead'
  BY <1>2 DEF OpenLock, WriteName, Release, OpenBreaker, RemoveLock, KeepBreaker
<1>3. ASSUME NEW p \in Processes, ClearBreaker(p) \/ Recheck(p) \/ BreakLock(p) \/ EndBreak(p)
      PROVE  AgesAreOfTheDead'
  BY <1>3 DEF ClearBreaker, Recheck, BreakLock, EndBreak, RemoveLock, RemoveBreaker,
              KeepLock, KeepBreaker, files
<1>4. ASSUME NEW p \in Processes, Dies(p) PROVE AgesAreOfTheDead'
  BY <1>4 DEF Dies, files
<1>5. CASE LockAges \/ BreakerAges
  BY <1>5 DEF LockAges, BreakerAges
<1>6. CASE UNCHANGED vars
  BY <1>6 DEF vars, files
<1> QED
  BY <1>1, <1>2, <1>3, <1>4, <1>5, <1>6 DEF Next, Holding, Breaking

\* Nobody's lock is removed under it: its holder removes its own, and a break removes one that
\* is old, hence of a dead process.
LEMMA HolderStep ==
    ASSUME LockInv, [Next]_vars, ~crossed'
    PROVE  HolderMadeIt'
<1>a. ~crossed
  BY DEF LockInv, TypeOK, Next, vars, files, Call, Holding, Breaking, OpenLock, WriteName, Work,
         ReadName, Release, StatLock, OpenBreaker, StatBreaker, ClearBreaker, Recheck, BreakLock,
         EndBreak, Retry, GiveUp, Dies, LockAges, BreakerAges
<1> USE <1>a, FileLockAssumption
    DEF LockInv, TypeOK, HolderMadeIt, Holders, Goes
<1>1. ASSUME NEW p \in Processes, Call(p) \/ Work(p) \/ ReadName(p) \/ StatLock(p) \/ StatBreaker(p)
                                  \/ Retry(p) \/ GiveUp(p)
      PROVE  HolderMadeIt'
  BY <1>1 DEF Call, Work, ReadName, StatLock, StatBreaker, Retry, GiveUp, files
<1>2. ASSUME NEW p \in Processes, OpenLock(p) \/ WriteName(p) \/ Release(p) \/ OpenBreaker(p)
      PROVE  HolderMadeIt'
  BY <1>2 DEF OpenLock, WriteName, Release, OpenBreaker, RemoveLock, KeepBreaker
<1>3. ASSUME NEW p \in Processes, ClearBreaker(p) \/ Recheck(p) \/ EndBreak(p)
      PROVE  HolderMadeIt'
  BY <1>3 DEF ClearBreaker, Recheck, EndBreak, RemoveBreaker, KeepLock, KeepBreaker, files
<1>4. ASSUME NEW p \in Processes, BreakLock(p) PROVE HolderMadeIt'
  <2>1. Dead(lock)
    BY <1>4 DEF BreakLock, BreakerMadeIt, AgesAreOfTheDead
  <2>2. Holders = {}
    BY <2>1 DEF Dead
  <2> QED
    BY <1>4, <2>2 DEF BreakLock, KeepBreaker
<1>5. ASSUME NEW p \in Processes, Dies(p) PROVE HolderMadeIt'
  BY <1>5 DEF Dies, files
<1>6. CASE LockAges \/ BreakerAges
  BY <1>6 DEF LockAges, BreakerAges
<1>7. CASE UNCHANGED vars
  BY <1>7 DEF vars, files
<1> QED
  BY <1>1, <1>2, <1>3, <1>4, <1>5, <1>6, <1>7 DEF Next, Holding, Breaking

\* Nobody's breaker is removed under it either, and so the lock a breaker found old stays.
LEMMA BreakerStep ==
    ASSUME LockInv, [Next]_vars, ~crossed'
    PROVE  BreakerMadeIt'
<1>a. ~crossed
  BY DEF LockInv, TypeOK, Next, vars, files, Call, Holding, Breaking, OpenLock, WriteName, Work,
         ReadName, Release, StatLock, OpenBreaker, StatBreaker, ClearBreaker, Recheck, BreakLock,
         EndBreak, Retry, GiveUp, Dies, LockAges, BreakerAges
<1> USE <1>a, FileLockAssumption
    DEF LockInv, TypeOK, BreakerMadeIt, Breakers, Goes
<1>1. ASSUME NEW p \in Processes, Call(p) \/ Work(p) \/ ReadName(p) \/ StatLock(p) \/ StatBreaker(p)
                                  \/ Retry(p) \/ GiveUp(p)
      PROVE  BreakerMadeIt'
  BY <1>1 DEF Call, Work, ReadName, StatLock, StatBreaker, Retry, GiveUp, files
<1>2. ASSUME NEW p \in Processes, OpenLock(p) \/ WriteName(p) \/ OpenBreaker(p)
      PROVE  BreakerMadeIt'
  BY <1>2 DEF OpenLock, WriteName, OpenBreaker
<1>3. ASSUME NEW p \in Processes, Release(p) PROVE BreakerMadeIt'
  <2>1. lock = p /\ ~Dead(lock)
    BY <1>3 DEF Release, HolderMadeIt, Holders, Dead
  <2>2. ~lockOld
    BY <2>1 DEF AgesAreOfTheDead
  <2> QED
    BY <1>3, <2>2 DEF Release, RemoveLock, KeepBreaker
<1>4. ASSUME NEW p \in Processes, ClearBreaker(p) PROVE BreakerMadeIt'
  <2>1. breaker = "nobody" \/ Dead(breaker)
    BY <1>4 DEF ClearBreaker, AgesAreOfTheDead
  <2>2. Breakers = {}
    BY <2>1 DEF Dead
  <2> QED
    BY <1>4, <2>2 DEF ClearBreaker, RemoveBreaker, KeepLock
<1>5. ASSUME NEW p \in Processes, Recheck(p) PROVE BreakerMadeIt'
  BY <1>5 DEF Recheck, StillStale, files
<1>6. ASSUME NEW p \in Processes, BreakLock(p) PROVE BreakerMadeIt'
  BY <1>6 DEF BreakLock, RemoveLock, KeepBreaker
<1>7. ASSUME NEW p \in Processes, EndBreak(p) PROVE BreakerMadeIt'
  BY <1>7 DEF EndBreak, RemoveBreaker, KeepLock
<1>8. ASSUME NEW p \in Processes, Dies(p) PROVE BreakerMadeIt'
  BY <1>8 DEF Dies, files
<1>9. CASE LockAges \/ BreakerAges
  BY <1>9 DEF LockAges, BreakerAges
<1>10. CASE UNCHANGED vars
  BY <1>10 DEF vars, files
<1> QED
  BY <1>1, <1>2, <1>3, <1>4, <1>5, <1>6, <1>7, <1>8, <1>9, <1>10 DEF Next, Holding, Breaking

\* Files grow old only when their process died; and while no breaker was removed out of turn, a
\* holder made the lock there is, and a waiter that breaks made the breaker there is.
THEOREM LockInvariant == Spec => []LockInv
<1>1. LockInv /\ [Next]_vars => LockInv'
  BY LockTypes, LockAging, HolderStep, BreakerStep DEF LockInv
<1> QED
  BY LockInit, <1>1, PTL DEF Spec

\* The lock and the breaker keep their types, for any number of processes.
THEOREM LockTypeCorrect == Spec => []TypeOK
<1>1. LockInv => TypeOK
  BY DEF LockInv
<1> QED
  BY LockInvariant, <1>1, PTL

\* One process works under the lock at a time, for any number of processes and deaths, as long
\* as no breaker was removed out of turn (file-lock.ts:11).
THEOREM MutualExclusion == Spec => []HoldersApart
<1>1. LockInv => HoldersApart
  <2> SUFFICES ASSUME LockInv, ~crossed PROVE Cardinality(Holders) <= 1
    BY DEF HoldersApart
  <2>1. Holders \subseteq {lock}
    BY DEF LockInv, HolderMadeIt
  <2>2. IsFiniteSet({lock}) /\ Cardinality({lock}) = 1
    BY FS_Singleton
  <2>3. Cardinality(Holders) <= Cardinality({lock})
    BY <2>1, <2>2, FS_Subset
  <2> QED
    BY <2>2, <2>3
<1> QED
  BY LockInvariant, <1>1, PTL
=============================================================================
