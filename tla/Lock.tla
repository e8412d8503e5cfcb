-------------------------------- MODULE Lock --------------------------------
(****************************************************************************)
(* The locks uWSGI processes share (core/lock.c) and the deadlock detector  *)
(* of the master.  A lock item has the lock itself and the pid of a holder, *)
(* written after the lock is taken and cleared after it is released; when a *)
(* process dies, the master compares that pid to free what it held.         *)
(*                                                                          *)
(* The pthread locks are external: a process-shared rwlock whose unlock     *)
(* undoes one hold whoever calls it, and a robust mutex that the next       *)
(* locker gets when its owner has died.                                     *)
(****************************************************************************)
EXTENDS Integers, FiniteSets

CONSTANTS
    Process,        \* the workers; a pid is not used twice
    NoPid

ASSUME LockAssumption == NoPid \notin Process /\ IsFiniteSet(Process)

VARIABLES
    kind,           \* "rwlock", or "mutex" for a robust mutex
    lock,           \* the lock, with the pid of the lock item
    locker,         \* the processes
    raced           \* which of the races below have happened

lockVars == <<kind, lock, locker, raced>>

Races == {"early", "stale", "overwritten", "stray"}

LockInit ==
    /\ kind \in {"rwlock", "mutex"}
    /\ lock = [writer |-> FALSE, readers |-> 0, owner |-> NoPid, pid |-> NoPid]
    /\ locker = [p \in Process |-> [at |-> "idle", mode |-> "w"]]
    /\ raced = {}

LockLeft(p, place) == locker' = [locker EXCEPT ![p] = [at |-> place, mode |-> "w"]]
LockAt(p, place) == locker' = [locker EXCEPT ![p].at = place]

Holding == {p \in Process : locker[p].at \in {"taken", "holding"}}
Dead == {p \in Process : locker[p].at \in {"killed", "freed", "reaped"}}

Held == lock.writer \/ lock.readers > 0

\* pthread_rwlock_unlock and pthread_mutex_unlock.
Undone(l) ==
    IF l.writer THEN [l EXCEPT !.writer = FALSE, !.owner = NoPid]
    ELSE [l EXCEPT !.readers = IF @ > 0 THEN @ - 1 ELSE 0]

\* pthread_rwlock_wrlock; pthread_mutex_lock, which recovers from EOWNERDEAD.
WLock(p) ==
    /\ locker[p].at = "idle"
    /\ Held => (kind = "mutex" /\ lock.owner \in Dead)
    /\ lock' = [lock EXCEPT !.writer = TRUE, !.owner = p]
    /\ locker' = [locker EXCEPT ![p] = [at |-> "taken", mode |-> "w"]]
    /\ UNCHANGED <<kind, raced>>

RLock(p) ==
    /\ locker[p].at = "idle" /\ kind = "rwlock"
    /\ ~lock.writer
    /\ lock' = [lock EXCEPT !.readers = @ + 1]
    /\ locker' = [locker EXCEPT ![p] = [at |-> "taken", mode |-> "r"]]
    /\ UNCHANGED <<kind, raced>>

\* uli->pid = uwsgi.mypid, over the pid of another reader perhaps.
RecordPid(p) ==
    /\ locker[p].at = "taken"
    /\ raced' = IF lock.pid # NoPid /\ locker[lock.pid].at \notin {"released", "freed"}
                THEN raced \cup {"overwritten"} ELSE raced
    /\ lock' = [lock EXCEPT !.pid = p]
    /\ LockAt(p, "holding")
    /\ UNCHANGED kind

\* The first half of uwsgi_unlock and uwsgi_rwunlock.
Unlock(p) ==
    /\ locker[p].at = "holding"
    /\ lock' = Undone(lock)
    /\ LockAt(p, "released")
    /\ UNCHANGED <<kind, raced>>

\* uli->pid = 0, although the lock may have another holder by now.
ClearPid(p) ==
    /\ locker[p].at = "released"
    /\ raced' = IF lock.pid # p THEN raced \cup {"overwritten"} ELSE raced
    /\ lock' = [lock EXCEPT !.pid = NoPid]
    /\ LockLeft(p, "idle")
    /\ UNCHANGED kind

\* uwsgi_sharedarea_wait unlocks when its pause fails, and holds no lock then.
StrayUnlock(p) ==
    /\ locker[p].at = "idle" /\ kind = "rwlock"
    /\ lock' = [Undone(lock) EXCEPT !.pid = NoPid]
    /\ raced' = raced \cup {"stray"}
    /\ UNCHANGED <<kind, locker>>

\* A process dies, anywhere.
Die(p) ==
    /\ p \notin Dead
    /\ Cardinality(Dead) + 1 < Cardinality(Process)
    /\ raced' = raced \cup (CASE locker[p].at = "taken" -> {"early"}
                              [] locker[p].at = "released" -> {"stale"}
                              [] OTHER -> {})
    /\ LockLeft(p, "killed")
    /\ UNCHANGED <<kind, lock>>

\* Mutant: the detector frees whatever lock is held.
DeadlockCheckAny(p) ==
    /\ locker[p].at = "killed"
    /\ IF kind = "rwlock" /\ Held
       THEN lock' = Undone(lock) /\ LockAt(p, "freed")
       ELSE UNCHANGED lock /\ LockAt(p, "reaped")
    /\ UNCHANGED <<kind, raced>>

\* uwsgi_deadlock_check, when the master has waited for the process: a lock
\* that cannot be taken and has its pid is released.  A robust mutex cannot
\* deadlock and is left out.
DeadlockCheck(p) ==
    /\ locker[p].at = "killed"
    /\ IF kind = "rwlock" /\ Held /\ lock.pid = p
       THEN lock' = Undone(lock) /\ LockAt(p, "freed")
       ELSE UNCHANGED lock /\ LockAt(p, "reaped")
    /\ UNCHANGED <<kind, raced>>

\* The second half of the release: like ClearPid, but in the master.
DeadlockClear(p) ==
    /\ locker[p].at = "freed"
    /\ raced' = IF lock.pid # p THEN raced \cup {"overwritten"} ELSE raced
    /\ lock' = [lock EXCEPT !.pid = NoPid]
    /\ LockAt(p, "reaped")
    /\ UNCHANGED kind

LockNext ==
    \E p \in Process :
        \/ WLock(p) \/ RLock(p) \/ RecordPid(p) \/ Unlock(p) \/ ClearPid(p)
        \/ StrayUnlock(p) \/ Die(p) \/ DeadlockCheck(p) \/ DeadlockClear(p)

------------------------------------------------------------------------------
(* Properties.                                                              *)

LockTypeOK ==
    /\ kind \in {"rwlock", "mutex"} /\ raced \subseteq Races
    /\ lock \in [writer: BOOLEAN, readers: 0..Cardinality(Process),
                 owner: Process \cup {NoPid}, pid: Process \cup {NoPid}]
    /\ locker \in [Process -> [at: {"idle", "taken", "holding", "released", "killed", "freed",
                                    "reaped"},
                               mode: {"r", "w"}]]

\* A writer is alone.  The exceptions are a process that dies between its
\* unlock and clearing the pid, whose pid makes the detector release the lock
\* of the next holder, and the stray unlock of uwsgi_sharedarea_wait.
ExclusionOnlyBrokenByStalePid ==
    (\E p, q \in Holding : p # q /\ locker[p].mode = "w") =>
        raced \cap {"stale", "stray"} # {}

\* What a dead process held is released when the master has noticed: the lock
\* is not held by nobody.  It stays held for ever after a process that died
\* before it recorded its pid, or whose pid another process overwrote; a
\* robust mutex goes to the next process that asks for it.
AbandonedOnlyByPidRace ==
    kind = "rwlock" /\ Held /\ Holding = {} /\ (\A p \in Process : locker[p].at # "killed") =>
        raced \cap {"early", "overwritten"} # {}

\* The processes that took the lock and did not release it, or died.
Engaged == {p \in Process : locker[p].at \notin {"idle", "released"}}

\* Why it is so.  The pid of the item was recorded by a process that held the
\* lock, and stays after its death; a writer of the lock shuts out readers; a
\* reader of the lock is a process that took it and has not released it.
PidOfHolder ==
    /\ \A p \in Process :
          lock.pid = p =>
              locker[p].at \in {"holding", "released", "killed", "freed", "reaped"}
    /\ lock.writer \/ kind = "mutex" => lock.readers = 0
    /\ lock.readers =< Cardinality(Engaged)

\* A dead process the detector has yet to see and whose pid is in the item.
Condemned == {p \in Process : locker[p].at = "killed" /\ lock.pid = p}

\* Without a stale pid and a stray unlock, every process that believes it has
\* the lock has it, and the detector undoes the hold of a dead process only.
HoldersHaveTheLock ==
    /\ kind = "mutex" => \A p \in Holding : lock.writer /\ lock.owner = p
    /\ kind = "rwlock" /\ raced \cap {"stale", "stray"} = {} =>
          IF lock.writer
          THEN \A p \in Holding : lock.owner = p /\ Condemned = {}
          ELSE /\ \A p \in Holding : locker[p].mode = "r"
               /\ Cardinality(Holding \cup Condemned) =< lock.readers

\* The processes that will undo a hold: those that are about to record their
\* pid, and the one whose pid is in the item, dead or alive.
Pledged ==
    {p \in Process : \/ locker[p].at = "taken"
                     \/ locker[p].at \in {"holding", "killed"} /\ lock.pid = p}

\* Unless a process dies before it recorded its pid or loses it to another
\* one, there is a process to undo every hold.
HoldsAreUndone ==
    kind = "rwlock" /\ raced \cap {"early", "overwritten"} = {} =>
        /\ lock.writer => Pledged # {}
        /\ lock.readers =< Cardinality(Pledged)

\* A lock has its holders, and only live ones, but for the races of the pid.
LocksAreSound ==
    /\ LockTypeOK /\ ExclusionOnlyBrokenByStalePid /\ AbandonedOnlyByPidRace
    /\ PidOfHolder /\ HoldersHaveTheLock /\ HoldsAreUndone
==============================================================================
