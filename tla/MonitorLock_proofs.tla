-------------------------- MODULE MonitorLock_proofs --------------------------
(***************************************************************************)
(* When starts do not overlap and rounds keep to their time, the lock file *)
(* admits one monitor, for any number of processes, crashes and reused     *)
(* pids, and any interval and staleness threshold that leaves room for     *)
(* two rounds and a sleep.                                                 *)
(***************************************************************************)
EXTENDS MonitorLock, TLAPS

LEMMA TypeInit == Init => TypeOK
BY TimeAssumption DEF Init, TypeOK, NoLock, Live, Starting, Running, Leaving, Ended

LEMMA TypeStep == TypeOK /\ [Next]_vars => TypeOK'
<1> SUFFICES ASSUME TypeOK, [Next]_vars
             PROVE  TypeOK'
  OBVIOUS
<1> USE TimeAssumption DEF TypeOK, Live, Starting, Running, Leaving, Ended, Goto
<1>1. CASE Tick
  BY <1>1 DEF Tick
<1>2. ASSUME NEW p \in Proc, Start(p) \/ ReadPid(p) \/ Stat(p) \/ EndRound(p) \/ Abort(p)
                             \/ Wake(p) \/ ReleaseRead(p) \/ Crash(p)
      PROVE  TypeOK'
  BY <1>2 DEF Start, ReadPid, Stat, EndRound, Abort, Wake, ReleaseRead, Crash
<1>3. ASSUME NEW p \in Proc, Open(p) \/ Unlink(p) \/ ReleaseUnlink(p)
      PROVE  TypeOK'
  BY <1>3 DEF Open, Unlink, ReleaseUnlink, NoLock
<1>4. ASSUME NEW p \in Proc, WritePid(p)
      PROVE  TypeOK'
  BY <1>4 DEF WritePid
<1>5. ASSUME NEW p \in Proc, Touch(p)
      PROVE  TypeOK'
  BY <1>5 DEF Touch, Touched
<1>6. ASSUME NEW p \in Proc, ReusePid(p)
      PROVE  TypeOK'
  BY <1>6 DEF ReusePid
<1>7. CASE UNCHANGED vars
  BY <1>7 DEF vars
<1> QED
  BY <1>1, <1>2, <1>3, <1>4, <1>5, <1>6, <1>7 DEF Next, MonitorStep
-----------------------------------------------------------------------------
(* The inductive invariant.  A process that holds the lock, up to and      *)
(* including its own release, has its pid in the file and has touched it   *)
(* less than Interval + 2 * MaxRound ago, so nobody starting up can come   *)
(* to the point of unlinking it.                                           *)

Orderly == ~ConcurrentStarts /\ ~SlowRounds

Holds(p) == IsIn(p, Running \cup Leaving)

OneStarts == \A p, q \in Proc : IsIn(p, Starting) /\ IsIn(q, Starting) => p = q

CreatorWrites == \A p \in Proc : pc[p] = "write" => lock.by = p

HolderOwns == \A p \in Proc : Holds(p) => lock.by = p /\ lock.pid = p

UnlinkIsSafe ==
    \A p \in Proc : pc[p] = "unlink" => \A q \in Proc : ~Holds(q) /\ pc[q] # "write"

StartsInThePast == \A p \in Proc : startedAt[p] <= now

\* What a holder's clock reads against the file's.
HolderIsFresh ==
    \A p \in Proc :
        /\ pc[p] \in {"round", "touch"} =>
              /\ lock.mtime <= roundTime[p] /\ roundTime[p] <= now
              /\ now <= roundTime[p] + MaxRound
              /\ roundTime[p] <= lock.mtime + Interval + MaxRound
        /\ pc[p] = "sleep" =>
              /\ lock.mtime <= now /\ now <= roundTime[p]
              /\ roundTime[p] <= lock.mtime + Interval + MaxRound
        /\ pc[p] \in Leaving => now <= lock.mtime + Interval + 2 * MaxRound

LockInv ==
    /\ OneStarts /\ CreatorWrites /\ HolderOwns /\ UnlinkIsSafe
    /\ StartsInThePast /\ HolderIsFresh

LEMMA LockInvInit == Init => LockInv
BY DEF Init, LockInv, OneStarts, CreatorWrites, HolderOwns, UnlinkIsSafe, StartsInThePast,
   HolderIsFresh, Holds, IsIn, Starting, Running, Leaving

LEMMA HolderNotStale ==
    ASSUME TypeOK, LockInv, NEW q \in Proc, Holds(q)
    PROVE  now <= lock.mtime + StaleAfter
BY TimeAssumption DEF TypeOK, LockInv, HolderIsFresh, Holds, IsIn, Running, Leaving

LEMMA StartKeeps ==
    ASSUME TypeOK, LockInv, Orderly, NEW p \in Proc, Start(p)
    PROVE  LockInv'
<1> USE DEF TypeOK, LockInv, Start, Goto, IsIn, Starting, Running, Leaving, Holds
<1>1. OneStarts'
  BY DEF OneStarts, Orderly
<1>2. CreatorWrites' /\ HolderOwns' /\ UnlinkIsSafe'
  BY DEF CreatorWrites, HolderOwns, UnlinkIsSafe
<1>3. StartsInThePast' /\ HolderIsFresh'
  BY DEF StartsInThePast, HolderIsFresh
<1> QED
  BY <1>1, <1>2, <1>3

LEMMA AcquireKeeps ==
    ASSUME TypeOK, LockInv, NEW p \in Proc,
           Open(p) \/ WritePid(p) \/ ReadPid(p) \/ Stat(p) \/ Unlink(p)
    PROVE  LockInv'
<1>0. TypeOK /\ ProcAssumption /\ TimeAssumption
  BY ProcAssumption, TimeAssumption
<1> USE DEF Goto, IsIn, Starting, Running, Leaving, Holds
<1>1. CASE Open(p)
  <2>1. LockExists \/ \A q \in Proc : ~Holds(q) /\ pc[q] # "write"
    BY <1>0 DEF LockInv, HolderOwns, CreatorWrites, LockExists, ProcAssumption
  <2>2. OneStarts' /\ CreatorWrites' /\ HolderOwns' /\ UnlinkIsSafe'
    BY <1>0, <1>1, <2>1 DEF Open, TypeOK, LockInv, OneStarts, CreatorWrites, HolderOwns,
       UnlinkIsSafe
  <2>3. StartsInThePast' /\ HolderIsFresh'
    BY <1>0, <1>1, <2>1 DEF Open, TypeOK, LockInv, StartsInThePast, HolderIsFresh
  <2> QED
    BY <2>2, <2>3 DEF LockInv
<1>2. CASE WritePid(p)
  <2>1. lock.by = p /\ \A q \in Proc : ~Holds(q)
    BY <1>0, <1>2 DEF WritePid, LockInv, CreatorWrites, HolderOwns
  <2>2. OneStarts' /\ CreatorWrites' /\ HolderOwns' /\ UnlinkIsSafe'
    BY <1>0, <1>2, <2>1 DEF WritePid, TypeOK, LockInv, OneStarts, CreatorWrites, HolderOwns,
       UnlinkIsSafe
  <2>3. StartsInThePast'
    BY <1>0, <1>2 DEF WritePid, LockInv, StartsInThePast
  <2>4. HolderIsFresh'
    BY <1>0, <1>2, <2>1 DEF WritePid, TypeOK, TimeAssumption, LockInv, HolderIsFresh
  <2> QED
    BY <2>2, <2>3, <2>4 DEF LockInv
<1>3. CASE ReadPid(p) \/ Stat(p)
  <2>1. ASSUME NEW q \in Proc, Holds(q)
        PROVE  pc'[p] # "unlink"
    <3>1. ProcessRunning(lock.pid)
      BY <2>1 DEF ProcessRunning, Live, LockInv, HolderOwns
    <3>2. ~IsLockStale(p)
      BY <1>0, <2>1, HolderNotStale DEF TypeOK, TimeAssumption, ProcAssumption, IsLockStale,
         LockExists, LockInv, HolderOwns, StartsInThePast
    <3> QED
      BY <1>0, <1>3, <3>1, <3>2 DEF ReadPid, Stat, TypeOK
  <2>2. \A q \in Proc : pc[q] # "write"
    BY <1>0, <1>3 DEF ReadPid, Stat, LockInv, OneStarts
  <2>3. UnlinkIsSafe'
    BY <1>0, <1>3, <2>1, <2>2 DEF ReadPid, Stat, TypeOK, LockInv, UnlinkIsSafe
  <2>4. OneStarts' /\ CreatorWrites' /\ HolderOwns'
    BY <1>0, <1>3 DEF ReadPid, Stat, TypeOK, LockInv, OneStarts, CreatorWrites, HolderOwns
  <2>5. StartsInThePast' /\ HolderIsFresh'
    BY <1>0, <1>3 DEF ReadPid, Stat, TypeOK, LockInv, StartsInThePast, HolderIsFresh
  <2> QED
    BY <2>3, <2>4, <2>5 DEF LockInv
<1>4. CASE Unlink(p)
  <2>1. \A q \in Proc : ~Holds(q) /\ pc[q] # "write"
    BY <1>4 DEF Unlink, LockInv, UnlinkIsSafe
  <2>2. OneStarts' /\ CreatorWrites' /\ HolderOwns' /\ UnlinkIsSafe'
    BY <1>0, <1>4, <2>1 DEF Unlink, TypeOK, LockInv, OneStarts, CreatorWrites, HolderOwns,
       UnlinkIsSafe
  <2>3. StartsInThePast' /\ HolderIsFresh'
    BY <1>0, <1>4, <2>1 DEF Unlink, TypeOK, LockInv, StartsInThePast, HolderIsFresh
  <2> QED
    BY <2>2, <2>3 DEF LockInv
<1> QED
  BY <1>1, <1>2, <1>3, <1>4

LEMMA HolderKeeps ==
    ASSUME TypeOK, LockInv, NEW p \in Proc,
           EndRound(p) \/ Touch(p) \/ Abort(p) \/ Wake(p) \/ ReleaseRead(p)
           \/ ReleaseUnlink(p) \/ Crash(p) \/ ReusePid(p)
    PROVE  LockInv'
<1>0. TypeOK /\ ProcAssumption /\ TimeAssumption
  BY ProcAssumption, TimeAssumption
<1> USE DEF Goto, IsIn, Starting, Running, Leaving, Holds
<1>1. CASE EndRound(p) \/ Abort(p) \/ ReleaseRead(p) \/ Crash(p) \/ ReusePid(p)
  <2>1. OneStarts' /\ CreatorWrites' /\ HolderOwns' /\ UnlinkIsSafe' /\ StartsInThePast'
    BY <1>0, <1>1 DEF EndRound, Abort, ReleaseRead, Crash, ReusePid, TypeOK, LockInv,
       OneStarts, CreatorWrites, HolderOwns, UnlinkIsSafe, StartsInThePast
  <2>2. HolderIsFresh'
    BY <1>0, <1>1 DEF EndRound, Abort, ReleaseRead, Crash, ReusePid, TypeOK, LockInv,
       HolderIsFresh, TimeAssumption
  <2> QED
    BY <2>1, <2>2 DEF LockInv
<1>2. CASE Touch(p) \/ Wake(p)
  <2>1. lock.by = p /\ lock.pid = p /\ \A q \in Proc : Holds(q) => q = p
    BY <1>0, <1>2 DEF Touch, Wake, LockInv, HolderOwns
  <2>2. lock'.by = lock.by /\ lock'.pid = lock.pid
    BY <1>0, <1>2 DEF Touch, Touched, Wake, TypeOK
  <2>3. OneStarts' /\ CreatorWrites' /\ HolderOwns' /\ UnlinkIsSafe' /\ StartsInThePast'
    BY <1>0, <1>2, <2>1, <2>2 DEF Touch, Wake, TypeOK, LockInv, OneStarts, CreatorWrites,
       HolderOwns, UnlinkIsSafe, StartsInThePast
  <2>4. CASE Touch(p)
    <3>1. lock'.mtime = roundTime[p]
      BY <1>0, <2>1, <2>4 DEF Touch, Touched, LockExists, ProcAssumption, TypeOK
    <3>2. /\ lock.mtime <= roundTime[p] /\ roundTime[p] <= now
          /\ now <= roundTime[p] + MaxRound
      BY <2>4 DEF Touch, LockInv, HolderIsFresh
    <3>3. \A q \in Proc : pc[q] \in Running \cup Leaving => q = p
      BY <2>1
    <3>4. HolderIsFresh'
      BY <1>0, <2>4, <3>1, <3>2, <3>3 DEF Touch, TypeOK, HolderIsFresh, TimeAssumption
    <3> QED
      BY <2>3, <3>4 DEF LockInv
  <2>5. CASE Wake(p)
    <3>1. HolderIsFresh'
      BY <1>0, <2>1, <2>5 DEF Wake, TypeOK, LockInv, HolderIsFresh, TimeAssumption
    <3> QED
      BY <2>3, <3>1 DEF LockInv
  <2> QED
    BY <1>2, <2>4, <2>5
<1>3. CASE ReleaseUnlink(p)
  <2>1. \A q \in Proc : Holds(q) => q = p
    BY <1>0, <1>3 DEF ReleaseUnlink, LockInv, HolderOwns
  <2>2. \A q \in Proc : pc[q] # "write"
    BY <1>0, <1>3 DEF ReleaseUnlink, LockInv, HolderOwns, CreatorWrites
  <2>3. OneStarts' /\ CreatorWrites' /\ HolderOwns' /\ UnlinkIsSafe' /\ StartsInThePast'
    BY <1>0, <1>3, <2>1, <2>2 DEF ReleaseUnlink, TypeOK, LockInv, OneStarts, CreatorWrites,
       HolderOwns, UnlinkIsSafe, StartsInThePast
  <2>4. HolderIsFresh'
    BY <1>0, <1>3, <2>1 DEF ReleaseUnlink, TypeOK, LockInv, HolderIsFresh
  <2> QED
    BY <2>3, <2>4 DEF LockInv
<1> QED
  BY <1>1, <1>2, <1>3

LEMMA TickKeeps ==
    ASSUME TypeOK, LockInv, Orderly, Tick
    PROVE  LockInv'
<1>1. OneStarts' /\ CreatorWrites' /\ HolderOwns' /\ UnlinkIsSafe'
  BY DEF Tick, LockInv, OneStarts, CreatorWrites, HolderOwns, UnlinkIsSafe, Holds, IsIn
<1>2. StartsInThePast'
  BY DEF Tick, TypeOK, LockInv, StartsInThePast
<1>3. HolderIsFresh'
  BY TimeAssumption DEF Tick, TypeOK, Orderly, LockInv, HolderIsFresh, IsIn, Leaving
<1> QED
  BY <1>1, <1>2, <1>3 DEF LockInv

LEMMA LockInvStep ==
    ASSUME TypeOK, LockInv, Orderly, [Next]_vars
    PROVE  LockInv'
<1>1. CASE UNCHANGED vars
  BY <1>1 DEF vars, LockInv, OneStarts, CreatorWrites, HolderOwns, UnlinkIsSafe,
     StartsInThePast, HolderIsFresh, Holds, IsIn
<1> QED
  BY <1>1, StartKeeps, AcquireKeeps, HolderKeeps, TickKeeps DEF Next, MonitorStep

LEMMA LockInvGives == LockInv => AtMostOneMonitor /\ RunnerKeepsLock
BY ProcAssumption DEF ProcAssumption, LockInv, HolderOwns, AtMostOneMonitor, RunnerKeepsLock,
   Holds, IsIn, Running, Leaving, LockExists

\* The lock admits one monitor at a time as long as starts do not overlap and no
\* round outlasts MaxRound, however often monitors are killed and their pids reused.
THEOREM MutualExclusion ==
    ASSUME Orderly
    PROVE  Spec => []AtMostOneMonitor
<1>1. TypeOK /\ LockInv /\ [Next]_vars => (TypeOK /\ LockInv)'
  BY TypeStep, LockInvStep
<1> QED
  BY <1>1, TypeInit, LockInvInit, LockInvGives, PTL DEF Spec

\* Under the same condition nobody takes a running monitor's file away.
THEOREM LockKept ==
    ASSUME Orderly
    PROVE  Spec => []RunnerKeepsLock
<1>1. TypeOK /\ LockInv /\ [Next]_vars => (TypeOK /\ LockInv)'
  BY TypeStep, LockInvStep
<1> QED
  BY <1>1, TypeInit, LockInvInit, LockInvGives, PTL DEF Spec

\* Every variable keeps its type.
THEOREM LockTypeCorrect == Spec => []TypeOK
  BY TypeInit, TypeStep, PTL DEF Spec
-----------------------------------------------------------------------------
(* Why a refusal ends.  Every open, write and touch of the file is noted   *)
(* in lastAlive, so the file is never younger than that.                   *)

AliveInv ==
    /\ lastAlive <= now
    /\ LockExists => lock.mtime <= lastAlive
    /\ \A p \in Proc : pc[p] = "write" => lastAlive = now
    /\ \A p \in Proc : pc[p] \in {"round", "touch"} => roundTime[p] <= now

LEMMA AliveStep == TypeOK /\ AliveInv /\ [Next]_vars => AliveInv'
<1> SUFFICES ASSUME TypeOK, AliveInv, [Next]_vars
             PROVE  AliveInv'
  OBVIOUS
<1> USE DEF TypeOK, AliveInv, LockExists, Goto
<1>1. CASE Tick
  BY <1>1 DEF Tick, IsIn, Starting
<1>2. ASSUME NEW p \in Proc, Start(p) \/ ReadPid(p) \/ Stat(p) \/ EndRound(p) \/ Abort(p)
                             \/ ReleaseRead(p) \/ Crash(p) \/ ReusePid(p)
      PROVE  AliveInv'
  BY <1>2 DEF Start, ReadPid, Stat, EndRound, Abort, ReleaseRead, Crash, ReusePid
<1>3. ASSUME NEW p \in Proc, Open(p) \/ Unlink(p) \/ ReleaseUnlink(p)
      PROVE  AliveInv'
  BY <1>3 DEF Open, Unlink, ReleaseUnlink, NoLock
<1>4. ASSUME NEW p \in Proc, WritePid(p)
      PROVE  AliveInv'
  <2>1. lastAlive = now /\ lastAlive' = now /\ now' = now
    BY <1>4 DEF WritePid
  <2>2. LockExists' => lock'.mtime <= lastAlive'
    BY <1>4, <2>1 DEF WritePid
  <2>3. \A q \in Proc : pc'[q] \in {"round", "touch"} => roundTime'[q] <= now'
    BY <1>4, <2>1 DEF WritePid
  <2> QED
    BY <2>1, <2>2, <2>3
<1>7. ASSUME NEW p \in Proc, Wake(p)
      PROVE  AliveInv'
  BY <1>7 DEF Wake
<1>5. ASSUME NEW p \in Proc, Touch(p)
      PROVE  AliveInv'
  BY <1>5, TimeAssumption DEF Touch, Touched
<1>6. CASE UNCHANGED vars
  BY <1>6 DEF vars
<1> QED
  BY <1>1, <1>2, <1>3, <1>4, <1>5, <1>6, <1>7 DEF Next, MonitorStep

LEMMA RefusalStep ==
    ASSUME TypeOK, AliveInv, [Next]_vars, NEW p \in Proc,
           pc[p] # "refused", pc'[p] = "refused"
    PROVE  startedAt[p] <= lastAlive + StaleAfter
<1>1. Stat(p)
  BY DEF TypeOK, Next, MonitorStep, Tick, Start, Open, WritePid, ReadPid, Stat, Unlink, EndRound,
     Touch, Abort, Wake, ReleaseRead, ReleaseUnlink, Crash, ReusePid, Goto, vars
<1>2. ~IsLockStale(p)
  BY <1>1 DEF Stat, Goto, TypeOK
<1> QED
  BY <1>2, TimeAssumption DEF IsLockStale, AliveInv, TypeOK

\* A forced exit never locks the monitor out for good, with no condition on starts
\* or rounds: isLockStale lets go StaleAfter after the last sign of life.
THEOREM RefusalEnds == Spec => NoEternalRefusal
<1>1. Init => AliveInv
  BY DEF Init, AliveInv, NoLock, LockExists
<1>2. TypeOK /\ AliveInv /\ [Next]_vars => (TypeOK /\ AliveInv)'
  BY TypeStep, AliveStep
<1>3. TypeOK /\ AliveInv /\ [Next]_vars =>
        [\A p \in Proc :
            pc[p] # "refused" /\ pc'[p] = "refused" =>
                startedAt[p] <= lastAlive + StaleAfter]_vars
  BY RefusalStep
<1> QED
  BY <1>1, <1>2, <1>3, TypeInit, PTL DEF Spec, NoEternalRefusal

=============================================================================
