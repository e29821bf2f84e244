------------------------------ MODULE MonitorLock ------------------------------
(***************************************************************************)
(* The lock file that keeps a second LocalMonitor from running on the      *)
(* Windows host: acquireMonitorLock, its staleness rule, touchMonitorLock  *)
(* and release, with the watch loop that holds the lock.                   *)
(*                                                                         *)
(* The file is named by its path, and every call on it is a step of its    *)
(* own: open 'wx', write of the pid, read, stat, unlink, utimes.  An open  *)
(* handle keeps writing to the file it created, whatever the path names.   *)
(*                                                                         *)
(* The Task Scheduler starts the task every minute and ignores the start   *)
(* while its instance runs (IgnoreNew); anybody may start one by hand.     *)
(***************************************************************************)
EXTENDS Integers, FiniteSets

CONSTANTS
    Proc,             \* processes, each named by its pid
    NoPid,            \* no process: a file not there, or without its pid yet
    Scheduled,        \* those the Task Scheduler starts; the others by hand
    Interval,         \* ticks between two rounds
    MaxRound,         \* how long a round may take
    StaleAfter,       \* resolveStaleLockThresholdMs
    ConcurrentStarts, \* whether two processes may be starting at once
    SlowRounds,       \* whether a round may outlast MaxRound (or the host sleep)
    MaxTime           \* bound: the last tick

ASSUME ProcAssumption == Scheduled \subseteq Proc /\ NoPid \notin Proc

ASSUME TimeAssumption ==
    /\ Interval \in Nat /\ MaxRound \in Nat /\ StaleAfter \in Nat /\ MaxTime \in Nat
    /\ Interval + 2 * MaxRound <= StaleAfter
    /\ ConcurrentStarts \in BOOLEAN /\ SlowRounds \in BOOLEAN

VARIABLES
    now,
    lock,       \* the file at the lock path: the process that created it, its pid, its mtime
    pc,         \* pc[p]: where process p is
    startedAt,  \* startedAt[p]: the `now` of its acquireMonitorLock
    roundTime,  \* roundTime[p]: when its round began; asleep, when the next one is due
    reused,     \* pids of dead processes that another program has now
    lastAlive   \* history: when a monitor last created or touched the lock

vars == <<now, lock, pc, startedAt, roundTime, reused, lastAlive>>

-----------------------------------------------------------------------------
(* State *)

NoLock     == [by |-> NoPid, pid |-> NoPid, mtime |-> 0]
LockExists == lock.by # NoPid

Starting == {"open", "write", "read", "stat", "unlink"}
Running  == {"round", "touch", "sleep"}
Leaving  == {"release", "releaseUnlink"}
Live     == Starting \cup Running \cup Leaving
Ended    == {"off", "refused", "exited", "dead"}

TypeOK ==
    /\ now \in Nat /\ lastAlive \in Nat
    /\ lock \in [by : Proc \cup {NoPid}, pid : Proc \cup {NoPid}, mtime : Nat]
    /\ pc \in [Proc -> Live \cup Ended]
    /\ startedAt \in [Proc -> Nat] /\ roundTime \in [Proc -> Nat]
    /\ reused \subseteq Proc

Init ==
    /\ now = 0 /\ lastAlive = 0
    /\ lock = NoLock
    /\ pc = [p \in Proc |-> "off"]
    /\ startedAt = [p \in Proc |-> 0]
    /\ roundTime = [p \in Proc |-> 0]
    /\ reused = {}

IsIn(p, places) == pc[p] \in places
Goto(p, place)  == pc' = [pc EXCEPT ![p] = place]

\* process.kill(pid, 0): some process has this pid.
ProcessRunning(pid) == \E p \in Proc : pid = p /\ (IsIn(p, Live) \/ p \in reused)

-----------------------------------------------------------------------------
(* Starting: acquireMonitorLock *)

Start(p) ==
    /\ pc[p] = "off"
    /\ p \in Scheduled => \A q \in Scheduled : ~IsIn(q, Live)
    /\ ConcurrentStarts \/ \A q \in Proc : ~IsIn(q, Starting)
    /\ Goto(p, "open")
    /\ startedAt' = [startedAt EXCEPT ![p] = now]
    /\ UNCHANGED <<now, lock, roundTime, reused, lastAlive>>

\* open(path, 'wx'): creates the file, or finds that there is one.
Open(p) ==
    /\ pc[p] = "open"
    /\ \/ /\ ~LockExists
          /\ lock' = [by |-> p, pid |-> NoPid, mtime |-> now]
          /\ lastAlive' = now
          /\ Goto(p, "write")
       \/ /\ LockExists
          /\ Goto(p, "read")
          /\ UNCHANGED <<lock, lastAlive>>
    /\ UNCHANGED <<now, startedAt, roundTime, reused>>

\* The pid goes into the file p created; then the first round begins.
WritePid(p) ==
    /\ pc[p] = "write"
    /\ lock' = IF lock.by = p THEN [lock EXCEPT !.pid = p, !.mtime = now] ELSE lock
    /\ Goto(p, "round")
    /\ roundTime' = [roundTime EXCEPT ![p] = now]
    /\ UNCHANGED <<now, startedAt, reused, lastAlive>>

\* An absent or unwritten file has no pid, and no pid is not running.
ReadPid(p) ==
    /\ pc[p] = "read"
    /\ Goto(p, IF ProcessRunning(lock.pid) THEN "stat" ELSE "unlink")
    /\ UNCHANGED <<now, lock, startedAt, roundTime, reused, lastAlive>>

\* Mutants: the check before the heartbeat, when a pid that looks alive was enough;
\* one missed round is taken for an abandoned lock.
NeverStale(p) == ~LockExists
HastilyStale(p) == ~LockExists \/ startedAt[p] - lock.mtime >= Interval

IsLockStale(p) == ~LockExists \/ startedAt[p] - lock.mtime > StaleAfter

\* MONITOR_ALREADY_RUNNING unless nobody has touched the file for too long.
Stat(p) ==
    /\ pc[p] = "stat"
    /\ Goto(p, IF IsLockStale(p) THEN "unlink" ELSE "refused")
    /\ UNCHANGED <<now, lock, startedAt, roundTime, reused, lastAlive>>

\* The unlink is by path, whatever file is there by now.
Unlink(p) ==
    /\ pc[p] = "unlink"
    /\ lock' = NoLock
    /\ Goto(p, "open")
    /\ UNCHANGED <<now, startedAt, roundTime, reused, lastAlive>>

-----------------------------------------------------------------------------
(* Running: the loop of localMonitor.js *)

EndRound(p) ==
    /\ pc[p] = "round"
    /\ Goto(p, "touch")
    /\ UNCHANGED <<now, lock, startedAt, roundTime, reused, lastAlive>>

\* Mutants: no heartbeat; a heartbeat dated one interval back.
LeaveUntouched(p) == lock
TouchedBack(p) ==
    IF LockExists THEN [lock EXCEPT !.mtime = roundTime[p] - Interval] ELSE lock

\* utimes by path, with the time the round began.
Touched(p) == IF LockExists THEN [lock EXCEPT !.mtime = roundTime[p]] ELSE lock

\* A watching process sleeps, a single run leaves.
Touch(p) ==
    /\ pc[p] = "touch"
    /\ lock' = Touched(p)
    /\ lastAlive' = now
    /\ \/ /\ Goto(p, "sleep")
          /\ roundTime' = [roundTime EXCEPT ![p] = now + Interval]
       \/ /\ p \notin Scheduled
          /\ Goto(p, "release")
          /\ UNCHANGED roundTime
    /\ UNCHANGED <<now, startedAt, reused>>

\* A log or a heartbeat that cannot be written ends the loop.
Abort(p) ==
    /\ pc[p] \in {"round", "touch"}
    /\ Goto(p, "release")
    /\ UNCHANGED <<now, lock, startedAt, roundTime, reused, lastAlive>>

Wake(p) ==
    /\ pc[p] = "sleep"
    /\ now >= roundTime[p]
    /\ Goto(p, "round")
    /\ roundTime' = [roundTime EXCEPT ![p] = now]
    /\ UNCHANGED <<now, lock, startedAt, reused, lastAlive>>

-----------------------------------------------------------------------------
(* Leaving: release *)

OwnLock(p) == LockExists /\ lock.pid = p

ReleaseRead(p) ==
    /\ pc[p] = "release"
    /\ Goto(p, IF OwnLock(p) THEN "releaseUnlink" ELSE "exited")
    /\ UNCHANGED <<now, lock, startedAt, roundTime, reused, lastAlive>>

ReleaseUnlink(p) ==
    /\ pc[p] = "releaseUnlink"
    /\ lock' = NoLock
    /\ Goto(p, "exited")
    /\ UNCHANGED <<now, startedAt, roundTime, reused, lastAlive>>

\* A forced exit: the file stays.
Crash(p) ==
    /\ IsIn(p, Live)
    /\ Goto(p, "dead")
    /\ UNCHANGED <<now, lock, startedAt, roundTime, reused, lastAlive>>

\* Another program gets the pid of a process that is gone.
ReusePid(p) ==
    /\ pc[p] \in {"dead", "exited"} /\ p \notin reused
    /\ reused' = reused \cup {p}
    /\ UNCHANGED <<now, lock, pc, startedAt, roundTime, lastAlive>>

-----------------------------------------------------------------------------
(* The specification *)

\* Starting and leaving take no time; a round takes at most MaxRound and the
\* sleep ends when its timer does, unless rounds may be slow.
Tick ==
    /\ now < MaxTime
    /\ \A p \in Proc :
          /\ ~IsIn(p, Starting \cup Leaving \cup {"touch"})
          /\ pc[p] = "round" /\ ~SlowRounds => now < roundTime[p] + MaxRound
          /\ pc[p] = "sleep" /\ ~SlowRounds => now < roundTime[p]
    /\ now' = now + 1
    /\ UNCHANGED <<lock, pc, startedAt, roundTime, reused, lastAlive>>

MonitorStep(p) ==
    \/ Open(p) \/ WritePid(p) \/ ReadPid(p) \/ Stat(p) \/ Unlink(p)
    \/ EndRound(p) \/ Touch(p) \/ Abort(p) \/ Wake(p)
    \/ ReleaseRead(p) \/ ReleaseUnlink(p)

Next ==
    \/ Tick
    \/ \E p \in Proc : Start(p) \/ MonitorStep(p) \/ Crash(p) \/ ReusePid(p)

Spec == Init /\ [][Next]_vars

-----------------------------------------------------------------------------
(* Properties *)

\* Two monitors never run at once: they would read and write one state file and
\* push one change twice.
AtMostOneMonitor ==
    \A p, q \in Proc : IsIn(p, Running) /\ IsIn(q, Running) => p = q

\* A running monitor's file stays its own: nobody starting up takes it away and
\* nobody leaving does.
RunnerKeepsLock ==
    \A p \in Proc : IsIn(p, Running) => LockExists /\ lock.by = p /\ lock.pid = p

\* After a forced exit the monitor can be started again: once nothing has touched
\* the file for StaleAfter, no start is refused, even when another program has the
\* dead monitor's pid.
NoEternalRefusal ==
    [][\A p \in Proc :
          pc[p] # "refused" /\ pc'[p] = "refused" =>
              startedAt[p] <= lastAlive + StaleAfter]_vars

=============================================================================
