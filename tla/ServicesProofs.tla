--------------------------- MODULE ServicesProofs ---------------------------
(****************************************************************************)
(* Theorems about the services that uWSGI processes share, for every number *)
(* of processes and every size of the queue: the locks have their holders   *)
(* but for the races of the pid, the ring of core/queue.c implements Deque, *)
(* the spooler runs a task once, complete and in time but for a kill, a     *)
(* Legion whose quorum is a majority has one Lord but for a handover, and   *)
(* the router counts its references and lets no backend wait for ever.      *)
(****************************************************************************)
EXTENDS Services, FiniteSetTheorems, SequenceTheorems, TLAPS

------------------------------------------------------------------------------
(* The locks.                                                               *)

\* The inductive part of LocksAreSound beside the types.
LockCore == PidOfHolder /\ HoldersHaveTheLock /\ HoldsAreUndone
LockInv == LockTypeOK /\ LockCore

\* The sets of processes that the invariant counts are finite.
LEMMA LockSets ==
    /\ Cardinality(Process) \in Nat
    /\ \A S \in SUBSET Process : IsFiniteSet(S) /\ Cardinality(S) \in Nat
    /\ \A S \in SUBSET Process, T \in SUBSET Process :
          S \subseteq T => Cardinality(S) =< Cardinality(T)
    /\ \A S \in SUBSET Process, p \in Process :
          Cardinality(S \cup {p}) = IF p \in S THEN Cardinality(S) ELSE Cardinality(S) + 1
    /\ \A S \in SUBSET Process, p \in Process :
          Cardinality(S \ {p}) = IF p \in S THEN Cardinality(S) - 1 ELSE Cardinality(S)
    /\ \A S \in SUBSET Process : Cardinality(S) = 0 <=> S = {}
<1>1. IsFiniteSet(Process)
  BY LockAssumption
<1>2. ASSUME NEW S \in SUBSET Process PROVE IsFiniteSet(S)
  BY <1>1, FS_Subset
<1>3. ASSUME NEW S \in SUBSET Process PROVE Cardinality(S) \in Nat
  BY <1>2, FS_CardinalityType
<1>4. ASSUME NEW S \in SUBSET Process, NEW T \in SUBSET Process, S \subseteq T
      PROVE Cardinality(S) =< Cardinality(T)
  BY <1>2, <1>4, FS_Subset
<1>5. ASSUME NEW S \in SUBSET Process, NEW p \in Process
      PROVE Cardinality(S \cup {p}) = IF p \in S THEN Cardinality(S) ELSE Cardinality(S) + 1
  BY <1>2, FS_AddElement
<1>6. ASSUME NEW S \in SUBSET Process, NEW p \in Process
      PROVE Cardinality(S \ {p}) = IF p \in S THEN Cardinality(S) - 1 ELSE Cardinality(S)
  <2>1. CASE p \in S
    BY <1>2, <2>1, FS_RemoveElement
  <2>2. CASE p \notin S
    <3>1. S \ {p} = S
      BY <2>2
    <3> QED BY <3>1, <2>2
  <2> QED BY <2>1, <2>2
<1>7. ASSUME NEW S \in SUBSET Process PROVE Cardinality(S) = 0 <=> S = {}
  BY <1>2, FS_EmptySet
<1>8. Cardinality(Process) \in Nat
  BY <1>3
<1> QED BY <1>2, <1>3, <1>4, <1>5, <1>6, <1>7, <1>8

\* The lock starts free.
LEMMA LockStarts == LockInit => LockInv
<1> SUFFICES ASSUME LockInit PROVE LockInv
  OBVIOUS
<1>1. Holding = {} /\ Condemned = {} /\ Pledged = {} /\ Engaged = {}
  BY LockAssumption DEF LockInit, Holding, Condemned, Pledged, Engaged
<1>2. Cardinality({}) = 0 /\ Cardinality(Process) \in Nat
  BY LockSets
<1>3. LockTypeOK
  BY <1>2, LockAssumption DEF LockInit, LockTypeOK, Races
<1>4. PidOfHolder
  BY <1>1, <1>2, LockAssumption DEF LockInit, PidOfHolder
<1>5. HoldersHaveTheLock
  BY <1>1, <1>2 DEF LockInit, HoldersHaveTheLock
<1>6. HoldsAreUndone
  BY <1>1, <1>2 DEF LockInit, HoldsAreUndone
<1> QED BY <1>3, <1>4, <1>5, <1>6 DEF LockInv, LockCore


\* A lock item with any number of readers.
LockRecord == [writer: BOOLEAN, readers: Nat,
               owner: Process \cup {NoPid}, pid: Process \cup {NoPid}]

\* What the fields of the lock are after it was released once.
LEMMA UndoneFields ==
    ASSUME NEW l \in LockRecord
    PROVE /\ Undone(l) \in LockRecord
          /\ ~Undone(l).writer /\ Undone(l).pid = l.pid
          /\ Undone(l).readers = IF l.writer \/ l.readers = 0 THEN l.readers ELSE l.readers - 1
<1>1. CASE l.writer
  BY <1>1 DEF Undone, LockRecord
<1>2. CASE ~l.writer
  <2> DEFINE n == IF l.readers > 0 THEN l.readers - 1 ELSE 0
  <2>1. Undone(l) = [l EXCEPT !.readers = n]
    BY <1>2 DEF Undone
  <2>2. n \in Nat /\ l.readers \in Nat
    BY DEF LockRecord
  <2>3. n = IF l.writer \/ l.readers = 0 THEN l.readers ELSE l.readers - 1
    BY <1>2, <2>2
  <2> HIDE DEF n
  <2> QED BY <1>2, <2>1, <2>2, <2>3 DEF LockRecord
<1> QED BY <1>1, <1>2

\* The same lock with no pid.
LEMMA NoPidFields ==
    ASSUME NEW l \in LockRecord, NEW m, m = [Undone(l) EXCEPT !.pid = NoPid]
    PROVE /\ m \in LockRecord
          /\ ~m.writer /\ m.pid = NoPid
          /\ m.readers = IF l.writer \/ l.readers = 0 THEN l.readers ELSE l.readers - 1
<1> DEFINE u == Undone(l)
<1>1. /\ u \in LockRecord /\ ~u.writer
      /\ u.readers = IF l.writer \/ l.readers = 0 THEN l.readers ELSE l.readers - 1
  BY UndoneFields
<1>2. m = [u EXCEPT !.pid = NoPid]
  OBVIOUS
<1> HIDE DEF u
<1> QED BY <1>1, <1>2 DEF LockRecord

LockPlaces == {"idle", "taken", "holding", "released", "killed", "freed", "reaped"}

\* What the invariant needs of the types, and gives back.
LockShape ==
    /\ kind \in {"rwlock", "mutex"} /\ raced \subseteq Races
    /\ lock \in LockRecord
    /\ locker \in [Process -> [at: LockPlaces, mode: {"r", "w"}]]

\* The two say the same once every pid is known.
LEMMA ShapeIsType == PidOfHolder => (LockShape <=> LockTypeOK)
<1> SUFFICES ASSUME PidOfHolder PROVE LockShape <=> LockTypeOK
  OBVIOUS
<1>1. Engaged \in SUBSET Process
  BY DEF Engaged
<1>2. Cardinality(Engaged) =< Cardinality(Process) /\ Cardinality(Process) \in Nat
      /\ Cardinality(Engaged) \in Nat
  BY <1>1, LockSets
<1>3. lock.readers =< Cardinality(Engaged)
  BY DEF PidOfHolder
<1>4. lock.readers \in Nat <=> lock.readers \in 0..Cardinality(Process)
  BY <1>2, <1>3
<1> DEFINE Bound == 0..Cardinality(Process)
<1>5. Bound \subseteq Nat
  BY <1>2
<1>6. LockTypeOK => LockShape
  <2> SUFFICES ASSUME LockTypeOK PROVE LockShape
    OBVIOUS
  <2>1. lock \in [writer: BOOLEAN, readers: Bound,
                 owner: Process \cup {NoPid}, pid: Process \cup {NoPid}]
    BY DEF LockTypeOK
  <2> HIDE DEF Bound
  <2>2. lock \in LockRecord
    BY <2>1, <1>5 DEF LockRecord
  <2> QED BY <2>2 DEF LockTypeOK, LockShape, LockPlaces
<1>7. LockShape => LockTypeOK
  <2> SUFFICES ASSUME LockShape PROVE LockTypeOK
    OBVIOUS
  <2>1. lock.readers \in Bound
    BY <1>4 DEF LockShape, LockRecord
  <2> HIDE DEF Bound
  <2>2. lock \in [writer: BOOLEAN, readers: Bound,
                 owner: Process \cup {NoPid}, pid: Process \cup {NoPid}]
    BY <2>1 DEF LockShape, LockRecord
  <2> QED BY <2>2 DEF LockTypeOK, LockShape, LockPlaces, Bound
<1> QED BY <1>6, <1>7

\* The four sets that the invariant is about are sets of processes.
LEMMA LockSubsets ==
    /\ Holding \in SUBSET Process /\ Condemned \in SUBSET Process
    /\ Pledged \in SUBSET Process /\ Engaged \in SUBSET Process
BY DEF Holding, Condemned, Pledged, Engaged

\* The same sets after a step.
LEMMA LockSubsetsNext ==
    /\ Holding' \in SUBSET Process /\ Condemned' \in SUBSET Process
    /\ Pledged' \in SUBSET Process /\ Engaged' \in SUBSET Process
BY DEF Holding, Condemned, Pledged, Engaged

\* A process takes the lock to write.
LEMMA WLockStep ==
    ASSUME LockShape, LockCore, NEW p \in Process, WLock(p)
    PROVE LockShape' /\ LockCore'
<1> USE DEF LockCore
<1>1. LockShape'
  BY DEF LockShape, WLock, LockRecord, LockPlaces
<1>2. /\ lock'.writer /\ lock'.owner = p /\ lock'.pid = lock.pid
      /\ lock'.readers = lock.readers /\ kind' = kind /\ raced' = raced
  BY DEF LockShape, WLock, LockRecord
<1>3. /\ Holding' = Holding \cup {p} /\ Condemned' = Condemned
      /\ Pledged' = Pledged \cup {p} /\ Engaged' = Engaged \cup {p}
  BY <1>2 DEF LockShape, WLock, Holding, Condemned, Pledged, Engaged, PidOfHolder
<1>4. lock.readers = 0
  BY DEF WLock, Held, PidOfHolder, LockShape, LockRecord
<1>5. PidOfHolder'
  <2>1. Cardinality(Engaged') \in Nat
    BY LockSets, LockSubsetsNext
  <2>2. \A q \in Process :
          lock'.pid = q =>
            locker'[q].at \in {"holding", "released", "killed", "freed", "reaped"}
    BY <1>2 DEF LockShape, WLock, PidOfHolder
  <2> QED BY <1>2, <1>4, <2>1, <2>2 DEF PidOfHolder
<1>6. HoldersHaveTheLock'
  <2>1. CASE kind = "mutex"
    <3>1. Holding = {}
      BY <2>1 DEF WLock, Held, HoldersHaveTheLock, Holding, Dead
    <3> QED BY <1>2, <1>3, <2>1, <3>1 DEF HoldersHaveTheLock
  <2>2. CASE kind = "rwlock" /\ raced \cap {"stale", "stray"} = {}
    <3>1. ~lock.writer /\ lock.readers = 0
      BY <2>2, <1>4 DEF WLock, Held
    <3>2. Cardinality(Holding \cup Condemned) \in Nat
      BY LockSets, LockSubsets
    <3>3. Cardinality(Holding \cup Condemned) = 0
      BY <2>2, <3>1, <3>2 DEF HoldersHaveTheLock
    <3>4. Holding \cup Condemned = {}
      BY <3>3, LockSets, LockSubsets
    <3> QED BY <1>2, <1>3, <2>2, <3>4 DEF HoldersHaveTheLock
  <2> QED BY <1>2, <2>1, <2>2 DEF HoldersHaveTheLock, LockShape
<1>7. HoldsAreUndone'
  <2>1. Cardinality(Pledged') \in Nat
    BY LockSets, LockSubsetsNext
  <2> QED BY <1>2, <1>3, <1>4, <2>1 DEF HoldsAreUndone
<1> QED BY <1>1, <1>5, <1>6, <1>7

\* A process takes the lock to read.
LEMMA RLockStep ==
    ASSUME LockShape, LockCore, NEW p \in Process, RLock(p)
    PROVE LockShape' /\ LockCore'
<1> USE DEF LockCore
<1>1. LockShape'
  BY DEF LockShape, RLock, LockRecord, LockPlaces
<1>2. /\ ~lock.writer /\ ~lock'.writer /\ lock'.pid = lock.pid
      /\ lock'.readers = lock.readers + 1 /\ lock.readers \in Nat
      /\ kind = "rwlock" /\ kind' = kind /\ raced' = raced
  BY DEF LockShape, RLock, LockRecord
<1>3. /\ Holding' = Holding \cup {p} /\ Condemned' = Condemned
      /\ Pledged' = Pledged \cup {p} /\ Engaged' = Engaged \cup {p}
      /\ p \notin Holding /\ p \notin Condemned /\ p \notin Pledged /\ p \notin Engaged
  BY <1>2 DEF LockShape, RLock, Holding, Condemned, Pledged, Engaged, PidOfHolder
<1>4. PidOfHolder'
  <2>1. Cardinality(Engaged') = Cardinality(Engaged) + 1 /\ Cardinality(Engaged) \in Nat
    BY <1>3, LockSets, LockSubsets
  <2>2. \A q \in Process :
          lock'.pid = q =>
            locker'[q].at \in {"holding", "released", "killed", "freed", "reaped"}
    BY <1>2 DEF LockShape, RLock, PidOfHolder
  <2>3. lock'.readers =< Cardinality(Engaged')
    BY <1>2, <2>1 DEF PidOfHolder
  <2> QED BY <1>2, <2>2, <2>3 DEF PidOfHolder
<1>5. HoldersHaveTheLock'
  <2> SUFFICES ASSUME raced \cap {"stale", "stray"} = {}
               PROVE /\ \A q \in Holding' : locker'[q].mode = "r"
                     /\ Cardinality((Holding \cup Condemned)') =< lock'.readers
    BY <1>2 DEF HoldersHaveTheLock
  <2>1. \A q \in Holding' : locker'[q].mode = "r"
    BY <1>2, <1>3 DEF HoldersHaveTheLock, RLock, LockShape, Holding
  <2>2. (Holding \cup Condemned)' = (Holding \cup Condemned) \cup {p}
    BY <1>3
  <2>3. Cardinality((Holding \cup Condemned)') = Cardinality(Holding \cup Condemned) + 1
    BY <1>3, <2>2, LockSets, LockSubsets
  <2>4. Cardinality(Holding \cup Condemned) \in Nat
    BY LockSets, LockSubsets
  <2>5. Cardinality(Holding \cup Condemned) =< lock.readers
    BY <1>2 DEF HoldersHaveTheLock
  <2> QED BY <1>2, <2>1, <2>3, <2>4, <2>5
<1>6. HoldsAreUndone'
  <2>1. Cardinality(Pledged') = Cardinality(Pledged) + 1 /\ Cardinality(Pledged) \in Nat
    BY <1>3, LockSets, LockSubsets
  <2> QED BY <1>2, <2>1 DEF HoldsAreUndone
<1> QED BY <1>1, <1>4, <1>5, <1>6

\* A step that only changes the pid of the item leaves the holders alone.
LEMMA PidChanges ==
    ASSUME LockShape, HoldersHaveTheLock,
           lock'.writer = lock.writer, lock'.owner = lock.owner, lock'.readers = lock.readers,
           kind' = kind, raced \subseteq raced',
           Holding' = Holding, Condemned' = {},
           \A q \in Holding : locker'[q].mode = locker[q].mode
    PROVE HoldersHaveTheLock'
<1>1. CASE kind = "mutex"
  BY <1>1 DEF HoldersHaveTheLock
<1>2. CASE kind = "rwlock" /\ raced' \cap {"stale", "stray"} = {}
  <2>1. raced \cap {"stale", "stray"} = {}
    BY <1>2
  <2>2. CASE lock.writer
    BY <1>2, <2>1, <2>2 DEF HoldersHaveTheLock
  <2>3. CASE ~lock.writer
    <3>1. Cardinality(Holding) =< Cardinality(Holding \cup Condemned)
          /\ Cardinality(Holding) \in Nat /\ Cardinality(Holding \cup Condemned) \in Nat
      BY LockSets, LockSubsets
    <3>2. (Holding \cup Condemned)' = Holding
      OBVIOUS
    <3>3. Cardinality(Holding \cup Condemned) =< lock.readers
          /\ \A q \in Holding : locker[q].mode = "r"
      BY <1>2, <2>1, <2>3 DEF HoldersHaveTheLock
    <3>4. Cardinality((Holding \cup Condemned)') =< lock'.readers
      <4>1. Cardinality((Holding \cup Condemned)') = Cardinality(Holding)
        BY <3>2
      <4>2. lock'.readers = lock.readers /\ lock.readers \in Nat
        BY DEF LockShape, LockRecord
      <4>3. Cardinality(Holding) =< lock.readers
        BY <3>1, <3>3, <4>2
      <4> QED BY <4>1, <4>2, <4>3
    <3>5. \A q \in Holding' : locker'[q].mode = "r"
      BY <3>3 DEF Holding
    <3> QED BY <1>2, <2>3, <3>4, <3>5 DEF HoldersHaveTheLock
  <2> QED BY <2>2, <2>3
<1> QED BY <1>1, <1>2 DEF HoldersHaveTheLock, LockShape

\* A process records its pid.
LEMMA RecordPidStep ==
    ASSUME LockShape, LockCore, NEW p \in Process, RecordPid(p)
    PROVE LockShape' /\ LockCore'
<1> USE DEF LockCore
<1>1. LockShape'
  BY DEF LockShape, RecordPid, LockRecord, LockPlaces, LockAt, Races
<1>2. /\ lock'.writer = lock.writer /\ lock'.pid = p /\ lock'.owner = lock.owner
      /\ lock'.readers = lock.readers /\ lock.readers \in Nat
      /\ kind' = kind /\ raced \subseteq raced'
      /\ locker[p].at = "taken" /\ locker'[p].at = "holding"
      /\ \A q \in Process : locker'[q].mode = locker[q].mode
      /\ \A q \in Process \ {p} : locker'[q] = locker[q]
  BY DEF LockShape, RecordPid, LockRecord, LockAt
<1>3. Holding' = Holding /\ Condemned' = {} /\ Engaged' = Engaged
  BY <1>2 DEF Holding, Condemned, Engaged
<1>4. PidOfHolder'
  <2>1. \A q \in Process :
          lock'.pid = q =>
            locker'[q].at \in {"holding", "released", "killed", "freed", "reaped"}
    BY <1>2
  <2> QED BY <1>2, <1>3, <2>1 DEF PidOfHolder
<1>5. HoldersHaveTheLock'
  BY <1>2, <1>3, PidChanges DEF Holding
<1>6. HoldsAreUndone'
  <2> SUFFICES ASSUME kind = "rwlock", raced' \cap {"early", "overwritten"} = {}
               PROVE (lock'.writer => Pledged' # {}) /\ lock'.readers =< Cardinality(Pledged')
    BY <1>2 DEF HoldsAreUndone
  <2>1. raced \cap {"early", "overwritten"} = {}
    BY <1>2
  <2>2. lock.pid = NoPid \/ locker[lock.pid].at \in {"released", "freed"}
    BY DEF RecordPid
  <2>3. p \in Pledged'
    BY <1>2 DEF Pledged
  <2>4. Pledged \subseteq Pledged'
    BY <1>2, <2>2, LockAssumption DEF Pledged
  <2>5. Cardinality(Pledged) =< Cardinality(Pledged')
        /\ Cardinality(Pledged) \in Nat /\ Cardinality(Pledged') \in Nat
    BY <2>4, LockSets, LockSubsets, LockSubsetsNext
  <2> QED BY <1>2, <2>1, <2>3, <2>5 DEF HoldsAreUndone
<1> QED BY <1>1, <1>4, <1>5, <1>6

\* What a release of the lock does to the readers, in numbers: when a process
\* that was counted is counted no more, one reader less is enough.
LEMMA OneLess ==
    ASSUME NEW n \in Nat, NEW a \in Nat, NEW b \in Nat, NEW m \in Nat
    PROVE /\ n =< a /\ b = a - 1 /\ (m = IF n = 0 THEN 0 ELSE n - 1) => m =< b
          /\ a =< n /\ b = a - 1 /\ (m = IF n = 0 THEN 0 ELSE n - 1) => b =< m
          /\ n =< a /\ b = a /\ (m = IF n = 0 THEN 0 ELSE n - 1) => m =< b
OBVIOUS

\* A process unlocks, and its pid stays in the item.
LEMMA UnlockStep ==
    ASSUME LockShape, LockCore, NEW p \in Process, Unlock(p)
    PROVE LockShape' /\ LockCore'
<1> USE DEF LockCore
<1>a. lock \in LockRecord /\ lock' = Undone(lock)
  BY DEF LockShape, Unlock
<1>b. lock' \in LockRecord
  BY <1>a, UndoneFields
<1>1. LockShape'
  BY <1>b DEF LockShape, Unlock, LockPlaces, LockAt
<1>2. /\ ~lock'.writer /\ lock'.pid = lock.pid
      /\ lock'.readers = (IF lock.writer \/ lock.readers = 0 THEN lock.readers ELSE lock.readers - 1)
      /\ lock.readers \in Nat /\ lock'.readers \in Nat
  BY <1>a, <1>b, UndoneFields DEF LockRecord
<1>3. /\ kind' = kind /\ raced' = raced
      /\ locker[p].at = "holding" /\ locker'[p].at = "released"
      /\ \A q \in Process : locker'[q].mode = locker[q].mode
      /\ \A q \in Process \ {p} : locker'[q] = locker[q]
  BY DEF LockShape, Unlock, LockAt
<1>4. /\ Holding' = Holding \ {p} /\ Condemned' = Condemned
      /\ Pledged' = Pledged \ {p} /\ Engaged' = Engaged \ {p}
      /\ p \in Holding /\ p \in Engaged /\ p \notin Condemned
  BY <1>2, <1>3 DEF Holding, Condemned, Engaged, Pledged
<1>5. lock'.readers = IF lock.readers = 0 THEN 0 ELSE lock.readers - 1
  BY <1>2 DEF PidOfHolder
<1>6. PidOfHolder'
  <2>1. \A q \in Process :
          lock'.pid = q =>
            locker'[q].at \in {"holding", "released", "killed", "freed", "reaped"}
    BY <1>2, <1>3 DEF PidOfHolder
  <2>2. /\ Cardinality(Engaged') = Cardinality(Engaged) - 1
        /\ Cardinality(Engaged) \in Nat /\ Cardinality(Engaged') \in Nat
    BY <1>4, LockSets, LockSubsets, LockSubsetsNext
  <2>3. lock.readers =< Cardinality(Engaged)
    BY DEF PidOfHolder
  <2>4. lock'.readers =< Cardinality(Engaged')
    BY <1>2, <1>5, <2>2, <2>3, OneLess
  <2>5. kind' = "mutex" => lock'.readers = 0
    BY <1>3, <1>5 DEF PidOfHolder
  <2> QED BY <1>2, <2>1, <2>4, <2>5 DEF PidOfHolder
<1>7. HoldersHaveTheLock'
  <2>1. CASE kind = "mutex"
    <3>1. Holding' = {}
      BY <1>4, <2>1 DEF HoldersHaveTheLock
    <3> QED BY <1>3, <2>1, <3>1 DEF HoldersHaveTheLock
  <2>2. CASE kind = "rwlock" /\ raced \cap {"stale", "stray"} = {}
    <3> SUFFICES /\ \A q \in Holding' : locker'[q].mode = "r"
                 /\ Cardinality((Holding \cup Condemned)') =< lock'.readers
      BY <1>2, <1>3, <2>2 DEF HoldersHaveTheLock
    <3>1. CASE lock.writer
      <4>1. (Holding \cup Condemned)' = {}
        BY <1>4, <2>2, <3>1 DEF HoldersHaveTheLock
      <4>2. Cardinality((Holding \cup Condemned)') = 0
        BY <4>1, LockSets
      <4> QED BY <1>2, <4>1, <4>2
    <3>2. CASE ~lock.writer
      <4>1. (Holding \cup Condemned)' = (Holding \cup Condemned) \ {p}
        BY <1>4
      <4>2. /\ Cardinality((Holding \cup Condemned)') = Cardinality(Holding \cup Condemned) - 1
            /\ Cardinality(Holding \cup Condemned) \in Nat
            /\ Cardinality((Holding \cup Condemned)') \in Nat
        BY <1>4, <4>1, LockSets, LockSubsets
      <4>3. /\ Cardinality(Holding \cup Condemned) =< lock.readers
            /\ \A q \in Holding : locker[q].mode = "r"
        BY <2>2, <3>2 DEF HoldersHaveTheLock
      <4>4. Cardinality((Holding \cup Condemned)') =< lock'.readers
        BY <1>2, <1>5, <4>2, <4>3, OneLess
      <4>5. \A q \in Holding' : locker'[q].mode = "r"
        BY <1>3, <1>4, <4>3, LockSubsets
      <4> QED BY <4>4, <4>5
    <3> QED BY <3>1, <3>2
  <2> QED BY <1>3, <2>1, <2>2 DEF HoldersHaveTheLock, LockShape
<1>8. HoldsAreUndone'
  <2> SUFFICES ASSUME kind = "rwlock", raced \cap {"early", "overwritten"} = {}
               PROVE lock'.readers =< Cardinality(Pledged')
    BY <1>2, <1>3 DEF HoldsAreUndone
  <2>1. /\ Cardinality(Pledged') = Cardinality(Pledged) - 1 \/ Cardinality(Pledged') = Cardinality(Pledged)
        /\ Cardinality(Pledged) \in Nat /\ Cardinality(Pledged') \in Nat
    BY <1>4, LockSets, LockSubsets, LockSubsetsNext
  <2>2. lock.readers =< Cardinality(Pledged)
    BY DEF HoldsAreUndone
  <2> QED BY <1>2, <1>5, <2>1, <2>2, OneLess
<1> QED BY <1>1, <1>6, <1>7, <1>8

\* A process that has unlocked clears the pid.
LEMMA ClearPidStep ==
    ASSUME LockShape, LockCore, NEW p \in Process, ClearPid(p)
    PROVE LockShape' /\ LockCore'
<1> USE DEF LockCore
<1>1. LockShape'
  BY DEF LockShape, ClearPid, LockRecord, LockPlaces, LockLeft, Races
<1>2. /\ lock'.writer = lock.writer /\ lock'.pid = NoPid /\ lock'.owner = lock.owner
      /\ lock'.readers = lock.readers /\ lock.readers \in Nat
      /\ kind' = kind /\ raced \subseteq raced'
      /\ locker[p].at = "released" /\ locker'[p].at = "idle"
      /\ \A q \in Process \ {p} : locker'[q] = locker[q]
  BY DEF LockShape, ClearPid, LockRecord, LockLeft
<1>3. Holding' = Holding /\ Condemned' = {} /\ Engaged' = Engaged
  BY <1>2, LockAssumption DEF Holding, Condemned, Engaged
<1>4. PidOfHolder'
  BY <1>2, <1>3, LockAssumption DEF PidOfHolder
<1>5. HoldersHaveTheLock'
  BY <1>2, <1>3, PidChanges DEF Holding
<1>6. HoldsAreUndone'
  <2> SUFFICES ASSUME kind = "rwlock", raced' \cap {"early", "overwritten"} = {}
               PROVE (lock'.writer => Pledged' # {}) /\ lock'.readers =< Cardinality(Pledged')
    BY <1>2 DEF HoldsAreUndone
  <2>1. raced \cap {"early", "overwritten"} = {}
    BY <1>2
  <2>2. lock.pid = p
    BY DEF ClearPid
  <2>3. Pledged' = Pledged
    BY <1>2, <2>2, LockAssumption DEF Pledged
  <2> QED BY <1>2, <2>1, <2>3 DEF HoldsAreUndone
<1> QED BY <1>1, <1>4, <1>5, <1>6

\* uwsgi_sharedarea_wait unlocks what it does not hold.
LEMMA StrayUnlockStep ==
    ASSUME LockShape, LockCore, NEW p \in Process, StrayUnlock(p)
    PROVE LockShape' /\ LockCore'
<1> USE DEF LockCore
<1>a. lock \in LockRecord /\ lock' = [Undone(lock) EXCEPT !.pid = NoPid]
  BY DEF LockShape, StrayUnlock
<1>b. lock' \in LockRecord
  BY <1>a, NoPidFields
<1>1. LockShape'
  BY <1>b DEF LockShape, StrayUnlock, Races
<1>2. /\ ~lock'.writer /\ lock'.pid = NoPid
      /\ lock'.readers = (IF lock.writer \/ lock.readers = 0 THEN lock.readers ELSE lock.readers - 1)
      /\ lock.readers \in Nat /\ lock'.readers \in Nat
  BY <1>a, <1>b, NoPidFields DEF LockRecord
<1>3. kind = "rwlock" /\ kind' = kind /\ raced' = raced \cup {"stray"} /\ locker' = locker
  BY DEF StrayUnlock
<1>4. lock'.readers = IF lock.readers = 0 THEN 0 ELSE lock.readers - 1
  BY <1>2 DEF PidOfHolder
<1>5. PidOfHolder'
  <2>1. Engaged' = Engaged
    BY <1>3 DEF Engaged
  <2>2. Cardinality(Engaged) \in Nat /\ lock.readers =< Cardinality(Engaged)
    BY LockSets, LockSubsets DEF PidOfHolder
  <2>3. lock'.readers =< Cardinality(Engaged)
    BY <1>2, <1>4, <2>2, OneLess
  <2> QED BY <1>2, <1>3, <2>1, <2>3, LockAssumption DEF PidOfHolder
<1>6. HoldersHaveTheLock'
  BY <1>3 DEF HoldersHaveTheLock
<1>7. HoldsAreUndone'
  <2> SUFFICES ASSUME raced' \cap {"early", "overwritten"} = {}
               PROVE lock'.readers =< Cardinality(Pledged')
    BY <1>2 DEF HoldsAreUndone
  <2>1. lock.readers =< Cardinality(Pledged)
    BY <1>3 DEF HoldsAreUndone
  <2>2. /\ Cardinality(Pledged) \in Nat /\ Cardinality(Pledged') \in Nat
    BY LockSets, LockSubsets, LockSubsetsNext
  <2>3. CASE lock.pid = NoPid
    <3>1. Pledged' = Pledged
      BY <1>2, <1>3, <2>3, LockAssumption DEF Pledged
    <3> QED BY <1>2, <1>4, <2>1, <2>2, <3>1, OneLess
  <2>4. CASE lock.pid \in Process
    <3>1. Pledged' = Pledged \ {lock.pid}
      BY <1>2, <1>3, <2>4, LockAssumption DEF Pledged, PidOfHolder
    <3>2. Cardinality(Pledged') = Cardinality(Pledged) - 1 \/ Cardinality(Pledged') = Cardinality(Pledged)
      BY <2>4, <3>1, LockSets, LockSubsets
    <3> QED BY <1>2, <1>4, <2>1, <2>2, <3>2, OneLess
  <2> QED BY <1>a, <2>3, <2>4 DEF LockRecord
<1> QED BY <1>1, <1>5, <1>6, <1>7

\* A process dies; the races it starts are remembered.
LEMMA DieStep ==
    ASSUME LockShape, LockCore, NEW p \in Process, Die(p)
    PROVE LockShape' /\ LockCore'
<1> USE DEF LockCore
<1>1. /\ kind' = kind /\ lock' = lock /\ raced \subseteq raced' /\ raced' \subseteq Races
      /\ locker[p].at \notin {"killed", "freed", "reaped"} /\ locker'[p].at = "killed"
      /\ \A q \in Process \ {p} : locker'[q] = locker[q]
      /\ locker[p].at = "taken" => "early" \in raced'
      /\ locker[p].at = "released" => "stale" \in raced'
  <2>1. raced' = raced \cup {"early"} \/ raced' = raced \cup {"stale"} \/ raced' = raced
    BY DEF Die
  <2>2. locker[p].at = "taken" => "early" \in raced'
    BY DEF Die
  <2>3. locker[p].at = "released" => "stale" \in raced'
    BY DEF Die
  <2> QED BY <2>1, <2>2, <2>3 DEF Die, Dead, LockShape, LockLeft, Races
<1>2. LockShape'
  BY <1>1 DEF LockShape, Die, LockLeft, LockPlaces
<1>3. lock.readers \in Nat
  BY DEF LockShape, LockRecord
<1>4. PidOfHolder'
  <2>1. Engaged \subseteq Engaged'
    BY <1>1 DEF Engaged
  <2>2. /\ Cardinality(Engaged) =< Cardinality(Engaged')
        /\ Cardinality(Engaged) \in Nat /\ Cardinality(Engaged') \in Nat
    BY <2>1, LockSets, LockSubsets, LockSubsetsNext
  <2>3. lock.readers =< Cardinality(Engaged')
    BY <1>3, <2>2 DEF PidOfHolder
  <2>4. \A q \in Process :
          lock'.pid = q =>
            locker'[q].at \in {"holding", "released", "killed", "freed", "reaped"}
    BY <1>1 DEF PidOfHolder
  <2> QED BY <1>1, <2>3, <2>4 DEF PidOfHolder
<1>5. Holding' = Holding \ {p}
  BY <1>1 DEF Holding
<1>6. HoldersHaveTheLock'
  <2>1. CASE kind = "mutex"
    BY <1>1, <1>5, <2>1 DEF HoldersHaveTheLock
  <2>2. CASE kind = "rwlock" /\ raced' \cap {"stale", "stray"} = {}
    <3>1. raced \cap {"stale", "stray"} = {} /\ locker[p].at # "released"
      BY <1>1, <2>2
    <3>2. Condemned' \subseteq Condemned \cup (Holding \cap {p})
      BY <1>1, <3>1 DEF Condemned, Holding, PidOfHolder
    <3>3. CASE lock.writer
      BY <1>1, <1>5, <2>2, <3>1, <3>2, <3>3 DEF HoldersHaveTheLock
    <3>4. CASE ~lock.writer
      <4>1. (Holding \cup Condemned)' \subseteq Holding \cup Condemned
        BY <1>5, <3>2
      <4>2. /\ Cardinality((Holding \cup Condemned)') =< Cardinality(Holding \cup Condemned)
            /\ Cardinality(Holding \cup Condemned) \in Nat
            /\ Cardinality((Holding \cup Condemned)') \in Nat
        BY <4>1, LockSets, LockSubsets, LockSubsetsNext
      <4>3. /\ Cardinality(Holding \cup Condemned) =< lock.readers
            /\ \A q \in Holding : locker[q].mode = "r"
        BY <2>2, <3>1, <3>4 DEF HoldersHaveTheLock
      <4>4. Cardinality((Holding \cup Condemned)') =< lock.readers
        BY <1>3, <4>2, <4>3
      <4>5. \A q \in Holding' : locker'[q].mode = "r"
        BY <1>1, <1>5, <4>3, LockSubsets
      <4> QED BY <1>1, <2>2, <3>4, <4>4, <4>5 DEF HoldersHaveTheLock
    <3> QED BY <3>3, <3>4
  <2> QED BY <1>1, <2>1, <2>2 DEF HoldersHaveTheLock, LockShape
<1>7. HoldsAreUndone'
  <2> SUFFICES ASSUME kind = "rwlock", raced' \cap {"early", "overwritten"} = {}
               PROVE (lock.writer => Pledged' # {}) /\ lock.readers =< Cardinality(Pledged')
    BY <1>1 DEF HoldsAreUndone
  <2>1. raced \cap {"early", "overwritten"} = {} /\ locker[p].at # "taken"
    BY <1>1
  <2>2. Pledged \subseteq Pledged'
    BY <1>1, <2>1 DEF Pledged
  <2>3. Cardinality(Pledged) =< Cardinality(Pledged')
        /\ Cardinality(Pledged) \in Nat /\ Cardinality(Pledged') \in Nat
    BY <2>2, LockSets, LockSubsets, LockSubsetsNext
  <2>4. (lock.writer => Pledged # {}) /\ lock.readers =< Cardinality(Pledged)
    BY <2>1 DEF HoldsAreUndone
  <2> QED BY <1>3, <2>2, <2>3, <2>4
<1> QED BY <1>2, <1>4, <1>6, <1>7

\* The master notices a dead process.
LEMMA DeadlockCheckStep ==
    ASSUME LockShape, LockCore, NEW p \in Process, DeadlockCheck(p)
    PROVE LockShape' /\ LockCore'
<1> USE DEF LockCore
<1>1. /\ kind' = kind /\ raced' = raced
      /\ locker[p].at = "killed" /\ locker'[p].at \in {"freed", "reaped"}
      /\ \A q \in Process \ {p} : locker'[q] = locker[q]
      /\ \A q \in Process : locker'[q].mode = locker[q].mode
  BY DEF DeadlockCheck, LockShape, LockAt
<1>2. lock \in LockRecord /\ lock.readers \in Nat
  BY DEF LockShape, LockRecord
<1>3. Holding' = Holding /\ Engaged' = Engaged
  BY <1>1 DEF Holding, Engaged
<1>4. CASE kind = "rwlock" /\ Held /\ lock.pid = p
  <2>a. lock' = Undone(lock) /\ locker'[p].at = "freed"
    BY <1>4 DEF DeadlockCheck, LockShape, LockAt
  <2>b. lock' \in LockRecord
    BY <1>2, <2>a, UndoneFields
  <2>1. LockShape'
    BY <2>b DEF LockShape, DeadlockCheck, LockAt, LockPlaces
  <2>2. /\ ~lock'.writer /\ lock'.pid = p
        /\ lock'.readers = (IF lock.writer \/ lock.readers = 0 THEN lock.readers ELSE lock.readers - 1)
        /\ lock'.readers \in Nat
    BY <1>2, <1>4, <2>a, <2>b, UndoneFields DEF LockRecord
  <2>3. lock'.readers = IF lock.readers = 0 THEN 0 ELSE lock.readers - 1
    BY <2>2 DEF PidOfHolder
  <2>4. Condemned = {p} /\ Condemned' = {} /\ p \notin Holding
    BY <1>1, <1>4, <2>a, <2>2, LockAssumption DEF Condemned, Holding
  <2>5. Pledged' = Pledged \ {p} /\ p \in Pledged
    BY <1>1, <1>4, <2>a, <2>2, LockAssumption DEF Pledged
  <2>6. PidOfHolder'
    <3>1. Cardinality(Engaged) \in Nat /\ lock.readers =< Cardinality(Engaged)
      BY LockSets, LockSubsets DEF PidOfHolder
    <3>2. lock'.readers =< Cardinality(Engaged')
      BY <1>2, <1>3, <2>2, <2>3, <3>1, OneLess
    <3> QED BY <1>1, <1>4, <2>a, <2>2, <3>2, LockAssumption DEF PidOfHolder
  <2>7. HoldersHaveTheLock'
    <3> SUFFICES ASSUME raced \cap {"stale", "stray"} = {}
                 PROVE /\ \A q \in Holding' : locker'[q].mode = "r"
                       /\ Cardinality((Holding \cup Condemned)') =< lock'.readers
      BY <1>1, <1>4, <2>2 DEF HoldersHaveTheLock
    <3>1. CASE lock.writer
      <4>1. (Holding \cup Condemned)' = {}
        BY <1>3, <1>4, <2>4, <3>1 DEF HoldersHaveTheLock
      <4>2. Cardinality((Holding \cup Condemned)') = 0
        BY <4>1, LockSets
      <4> QED BY <2>2, <4>1, <4>2
    <3>2. CASE ~lock.writer
      <4>1. (Holding \cup Condemned)' = (Holding \cup Condemned) \ {p}
        BY <1>3, <2>4
      <4>2. /\ Cardinality((Holding \cup Condemned)') = Cardinality(Holding \cup Condemned) - 1
            /\ Cardinality(Holding \cup Condemned) \in Nat
            /\ Cardinality((Holding \cup Condemned)') \in Nat
        BY <2>4, <4>1, LockSets, LockSubsets
      <4>3. /\ Cardinality(Holding \cup Condemned) =< lock.readers
            /\ \A q \in Holding : locker[q].mode = "r"
        BY <1>4, <3>2 DEF HoldersHaveTheLock
      <4>4. Cardinality((Holding \cup Condemned)') =< lock'.readers
        BY <1>2, <2>2, <2>3, <4>2, <4>3, OneLess
      <4>5. \A q \in Holding' : locker'[q].mode = "r"
        BY <1>1, <1>3, <4>3, LockSubsets
      <4> QED BY <4>4, <4>5
    <3> QED BY <3>1, <3>2
  <2>8. HoldsAreUndone'
    <3> SUFFICES ASSUME raced \cap {"early", "overwritten"} = {}
                 PROVE lock'.readers =< Cardinality(Pledged')
      BY <1>1, <2>2 DEF HoldsAreUndone
    <3>1. /\ Cardinality(Pledged') = Cardinality(Pledged) - 1
          /\ Cardinality(Pledged) \in Nat /\ Cardinality(Pledged') \in Nat
      BY <2>5, LockSets, LockSubsets, LockSubsetsNext
    <3>2. lock.readers =< Cardinality(Pledged)
      BY <1>4 DEF HoldsAreUndone
    <3> QED BY <1>2, <2>2, <2>3, <3>1, <3>2, OneLess
  <2> QED BY <2>1, <2>6, <2>7, <2>8
<1>5. CASE ~(kind = "rwlock" /\ Held /\ lock.pid = p)
  <2>1. lock' = lock
    BY <1>5 DEF DeadlockCheck
  <2>2. LockShape'
    BY <2>1 DEF LockShape, DeadlockCheck, LockAt, LockPlaces
  <2>3. PidOfHolder'
    BY <1>1, <1>3, <2>1 DEF PidOfHolder
  <2>4. Condemned' = Condemned \ {p} /\ p \notin Holding
    BY <1>1, <2>1 DEF Condemned, Holding
  <2>5. HoldersHaveTheLock'
    <3>1. CASE kind = "mutex"
      BY <1>1, <1>3, <2>1, <3>1 DEF HoldersHaveTheLock
    <3>2. CASE kind = "rwlock" /\ raced \cap {"stale", "stray"} = {} /\ lock.writer
      BY <1>1, <1>3, <2>1, <2>4, <3>2 DEF HoldersHaveTheLock
    <3>3. CASE kind = "rwlock" /\ raced \cap {"stale", "stray"} = {} /\ ~lock.writer
      <4>1. (Holding \cup Condemned)' \subseteq Holding \cup Condemned
        BY <1>3, <2>4
      <4>2. /\ Cardinality((Holding \cup Condemned)') =< Cardinality(Holding \cup Condemned)
            /\ Cardinality(Holding \cup Condemned) \in Nat
            /\ Cardinality((Holding \cup Condemned)') \in Nat
        BY <4>1, LockSets, LockSubsets, LockSubsetsNext
      <4>3. /\ Cardinality(Holding \cup Condemned) =< lock.readers
            /\ \A q \in Holding : locker[q].mode = "r"
        BY <3>3 DEF HoldersHaveTheLock
      <4>4. Cardinality((Holding \cup Condemned)') =< lock.readers
        BY <1>2, <4>2, <4>3
      <4>5. \A q \in Holding' : locker'[q].mode = "r"
        BY <1>1, <1>3, <4>3, LockSubsets
      <4> QED BY <1>1, <2>1, <3>3, <4>4, <4>5 DEF HoldersHaveTheLock
    <3> QED BY <1>1, <3>1, <3>2, <3>3 DEF HoldersHaveTheLock, LockShape
  <2>6. HoldsAreUndone'
    <3> SUFFICES ASSUME kind = "rwlock", raced \cap {"early", "overwritten"} = {}
                 PROVE (lock.writer => Pledged' # {}) /\ lock.readers =< Cardinality(Pledged')
      BY <1>1, <2>1 DEF HoldsAreUndone
    <3>1. Pledged' = Pledged \/ (~lock.writer /\ lock.readers = 0)
      BY <1>1, <1>2, <1>5, <2>1 DEF Pledged, Held
    <3>2. Cardinality(Pledged') \in Nat
      BY LockSets, LockSubsetsNext
    <3> QED BY <3>1, <3>2 DEF HoldsAreUndone
  <2> QED BY <2>2, <2>3, <2>5, <2>6
<1> QED BY <1>4, <1>5

\* The master clears the pid of the lock that it has released.
LEMMA DeadlockClearStep ==
    ASSUME LockShape, LockCore, NEW p \in Process, DeadlockClear(p)
    PROVE LockShape' /\ LockCore'
<1> USE DEF LockCore
<1>1. LockShape'
  BY DEF LockShape, DeadlockClear, LockRecord, LockPlaces, LockAt, Races
<1>2. /\ lock'.writer = lock.writer /\ lock'.pid = NoPid /\ lock'.owner = lock.owner
      /\ lock'.readers = lock.readers /\ lock.readers \in Nat
      /\ kind' = kind /\ raced \subseteq raced'
      /\ locker[p].at = "freed" /\ locker'[p].at = "reaped"
      /\ \A q \in Process : locker'[q].mode = locker[q].mode
      /\ \A q \in Process \ {p} : locker'[q] = locker[q]
  BY DEF LockShape, DeadlockClear, LockRecord, LockAt
<1>3. Holding' = Holding /\ Condemned' = {} /\ Engaged' = Engaged
  BY <1>2, LockAssumption DEF Holding, Condemned, Engaged
<1>4. PidOfHolder'
  BY <1>2, <1>3, LockAssumption DEF PidOfHolder
<1>5. HoldersHaveTheLock'
  BY <1>2, <1>3, PidChanges DEF Holding
<1>6. HoldsAreUndone'
  <2> SUFFICES ASSUME kind = "rwlock", raced' \cap {"early", "overwritten"} = {}
               PROVE (lock'.writer => Pledged' # {}) /\ lock'.readers =< Cardinality(Pledged')
    BY <1>2 DEF HoldsAreUndone
  <2>1. raced \cap {"early", "overwritten"} = {}
    BY <1>2
  <2>2. lock.pid = p
    BY DEF DeadlockClear
  <2>3. Pledged' = Pledged
    BY <1>2, <2>2, LockAssumption DEF Pledged
  <2> QED BY <1>2, <2>1, <2>3 DEF HoldsAreUndone
<1> QED BY <1>1, <1>4, <1>5, <1>6

\* Every step of the processes and of the master keeps the invariant.
LEMMA LockSteps ==
    ASSUME LockInv, [LockNext]_lockVars
    PROVE LockInv'
<1>1. LockShape /\ LockCore
  BY ShapeIsType DEF LockInv, LockCore
<1>2. ASSUME NEW p \in Process,
             \/ WLock(p) \/ RLock(p) \/ RecordPid(p) \/ Unlock(p) \/ ClearPid(p)
             \/ StrayUnlock(p) \/ Die(p) \/ DeadlockCheck(p) \/ DeadlockClear(p)
      PROVE LockShape' /\ LockCore'
  BY <1>1, <1>2, WLockStep, RLockStep, RecordPidStep, UnlockStep, ClearPidStep,
     StrayUnlockStep, DieStep, DeadlockCheckStep, DeadlockClearStep
<1>3. ASSUME UNCHANGED lockVars PROVE LockShape' /\ LockCore'
  BY <1>1, <1>3 DEF lockVars, LockShape, LockCore, PidOfHolder, HoldersHaveTheLock, HoldsAreUndone,
     Holding, Condemned, Pledged, Engaged
<1>4. LockShape' /\ LockCore'
  BY <1>2, <1>3 DEF LockNext
<1>5. LockShape' /\ PidOfHolder' => LockTypeOK'
  BY ShapeIsType, PTL
<1> QED BY <1>4, <1>5 DEF LockInv, LockCore

\* The invariant has what the properties say.
LEMMA LockInvImplies == LockInv => LocksAreSound
<1> SUFFICES ASSUME LockInv PROVE LocksAreSound
  OBVIOUS
<1> USE DEF LockInv, LockCore
<1>1. ExclusionOnlyBrokenByStalePid
  BY DEF ExclusionOnlyBrokenByStalePid, HoldersHaveTheLock, LockTypeOK
<1>2. AbandonedOnlyByPidRace
  <2> SUFFICES ASSUME kind = "rwlock", Held, Holding = {},
                      \A p \in Process : locker[p].at # "killed",
                      raced \cap {"early", "overwritten"} = {}
               PROVE FALSE
    BY DEF AbandonedOnlyByPidRace
  <2>1. Pledged = {}
    BY DEF Pledged, Holding
  <2>2. Cardinality(Pledged) = 0
    BY <2>1, LockSets
  <2>3. lock.readers \in Nat
    BY ShapeIsType DEF LockShape, LockRecord
  <2> QED BY <2>1, <2>2, <2>3 DEF HoldsAreUndone, Held
<1> QED BY <1>1, <1>2 DEF LocksAreSound

------------------------------------------------------------------------------
(* The queue.                                                                  *)

\* The slots from p on, once around the ring: no division is left.
LEMMA PlaceIs ==
  ASSUME NEW p \in Slot0, NEW i \in 0..QueueSize
  PROVE  /\ Place(p, i) = IF p + i < QueueSize THEN p + i ELSE p + i - QueueSize
         /\ Place(p, i) \in Slot0
BY QueueAssumption DEF Slot0, Place

\* Each slot is one place of the ring and no other.
LEMMA PlaceOnce ==
  ASSUME NEW p \in Slot0
  PROVE  /\ \A i, j \in Slot0 : Place(p, i) = Place(p, j) => i = j
         /\ \A s \in Slot0 : \E i \in Slot0 : s = Place(p, i)
<1>1. ASSUME NEW i \in Slot0, NEW j \in Slot0, Place(p, i) = Place(p, j) PROVE i = j
  <2>1. i \in 0..QueueSize /\ j \in 0..QueueSize
    BY QueueAssumption DEF Slot0
  <2>2. /\ Place(p, i) = IF p + i < QueueSize THEN p + i ELSE p + i - QueueSize
        /\ Place(p, j) = IF p + j < QueueSize THEN p + j ELSE p + j - QueueSize
    BY <2>1, PlaceIs
  <2>3. (IF p + i < QueueSize THEN p + i ELSE p + i - QueueSize)
          = IF p + j < QueueSize THEN p + j ELSE p + j - QueueSize
    BY <1>1, <2>2
  <2> QED BY <2>3, QueueAssumption DEF Slot0
<1>2. ASSUME NEW s \in Slot0 PROVE \E i \in Slot0 : s = Place(p, i)
  <2>1. CASE p =< s
    <3>1. s - p \in Slot0 /\ s = Place(p, s - p)
      BY <2>1, PlaceIs, QueueAssumption DEF Slot0
    <3> QED BY <3>1
  <2>2. CASE s < p
    <3>1. s - p + QueueSize \in Slot0 /\ s = Place(p, s - p + QueueSize)
      BY <2>2, PlaceIs, QueueAssumption DEF Slot0
    <3> QED BY <3>1
  <2> QED BY <2>1, <2>2, QueueAssumption DEF Slot0
<1> QED BY <1>1, <1>2

\* The position that push and pull move to is the next place, and the one that
\* pop moves to is the place before.
LEMMA PlaceMoves ==
  ASSUME NEW p \in Slot0
  PROVE  /\ After(p) \in Slot0 /\ Place(p, 0) = p /\ Place(p, QueueSize) = p
         /\ \A i \in Slot0 : /\ After(Place(p, i)) = Place(p, i + 1)
                             /\ Place(After(p), i) = Place(p, i + 1)
                             /\ (Place(p, i + 1) + QueueSize - 1) % QueueSize = Place(p, i)
<1>1. After(p) \in Slot0 /\ Place(p, 0) = p /\ Place(p, QueueSize) = p
  BY PlaceIs, QueueAssumption DEF Slot0, After
<1>2. ASSUME NEW i \in Slot0
      PROVE  /\ After(Place(p, i)) = Place(p, i + 1)
             /\ Place(After(p), i) = Place(p, i + 1)
  <2>1. i \in 0..QueueSize /\ i + 1 \in 0..QueueSize
    BY QueueAssumption DEF Slot0
  <2>2. /\ Place(p, i) = IF p + i < QueueSize THEN p + i ELSE p + i - QueueSize
        /\ Place(p, i + 1) = IF p + (i + 1) < QueueSize THEN p + (i + 1) ELSE p + (i + 1) - QueueSize
        /\ Place(After(p), i) = IF After(p) + i < QueueSize THEN After(p) + i
                                ELSE After(p) + i - QueueSize
    BY <1>1, <2>1, PlaceIs
  <2> QED BY <2>2, QueueAssumption DEF Slot0, After
<1>3. ASSUME NEW i \in Slot0
      PROVE  (Place(p, i + 1) + QueueSize - 1) % QueueSize = Place(p, i)
  <2>1. Place(p, i + 1) \in Slot0 /\ QueueSize - 1 \in 0..QueueSize
    BY PlaceIs, QueueAssumption DEF Slot0
  <2>2. Place(Place(p, i + 1), QueueSize - 1) = Place(p, i)
    <3> DEFINE q == IF p + (i + 1) < QueueSize THEN p + (i + 1) ELSE p + (i + 1) - QueueSize
    <3>1. i \in 0..QueueSize /\ i + 1 \in 0..QueueSize /\ q \in Slot0
      BY QueueAssumption DEF Slot0
    <3>2. /\ Place(p, i) = IF p + i < QueueSize THEN p + i ELSE p + i - QueueSize
          /\ Place(p, i + 1) = q
      BY <3>1, PlaceIs
    <3>3. Place(q, QueueSize - 1) = IF q + (QueueSize - 1) < QueueSize THEN q + (QueueSize - 1)
                                    ELSE q + (QueueSize - 1) - QueueSize
      BY <2>1, <3>1, PlaceIs
    <3>4. (IF q + (QueueSize - 1) < QueueSize THEN q + (QueueSize - 1)
           ELSE q + (QueueSize - 1) - QueueSize)
            = IF p + i < QueueSize THEN p + i ELSE p + i - QueueSize
      BY QueueAssumption DEF Slot0
    <3> QED BY <3>2, <3>3, <3>4
  <2>3. Place(p, i + 1) + QueueSize - 1 = Place(p, i + 1) + (QueueSize - 1)
    BY <2>1, QueueAssumption DEF Slot0
  <2> QED BY <2>2, <2>3 DEF Place
<1> QED BY <1>1, <1>2, <1>3

\* Slots with messages, and the slots without.
Slots == [Slot0 -> Message \cup {Nothing}]

\* The slots are s before, and t after m has been put into slot i.
Put(s, i, m, t) == t = [s EXCEPT ![i] = m]

\* The length of the ring is that of the stretch.
LEMMA LengthOfStretch ==
  ASSUME NEW s, NEW p, NEW n \in 0..QueueSize, Stretch(s, p, n)
  PROVE  RingLength(s, p) = n
<1> DEFINE full == {k \in 0..QueueSize : \A i \in 0..(k - 1) : s[Place(p, i)] # Nothing}
<1>1. n \in full
  BY QueueAssumption DEF Stretch, Slot0
<1>2. ASSUME NEW k \in full PROVE k =< n
  <2> SUFFICES ASSUME n < k PROVE FALSE
    BY QueueAssumption
  <2>1. n \in 0..(k - 1) /\ n \in Slot0
    BY QueueAssumption DEF Slot0
  <2> QED BY <2>1, QueueAssumption DEF Stretch
<1>3. \A m \in full : (\A k \in full : k =< m) => m = n
  BY <1>1, <1>2, QueueAssumption
<1> QED BY <1>1, <1>2, <1>3 DEF RingLength

\* The messages of a stretch, as a sequence.
LEMMA RingOfStretch ==
  ASSUME NEW s \in Slots, NEW p \in Slot0, NEW n \in 0..QueueSize, Stretch(s, p, n)
  PROVE  /\ Ring(s, p) \in Seq(Message) /\ Len(Ring(s, p)) = n
         /\ \A i \in 1..n : Ring(s, p)[i] = s[Place(p, i - 1)]
<1>1. Ring(s, p) = [i \in 1..n |-> s[Place(p, i - 1)]]
  BY LengthOfStretch DEF Ring
<1>2. ASSUME NEW i \in 1..n PROVE s[Place(p, i - 1)] \in Message
  <2>1. i - 1 \in Slot0 /\ i - 1 < n /\ i - 1 \in 0..QueueSize
    BY QueueAssumption DEF Slot0
  <2>2. Place(p, i - 1) \in Slot0
    BY <2>1, PlaceIs
  <2>3. s[Place(p, i - 1)] # Nothing
    BY <2>1 DEF Stretch
  <2> QED BY <2>2, <2>3 DEF Slots
<1>3. n \in Nat
  BY QueueAssumption
<1> QED BY <1>1, <1>2, <1>3

\* Two places of the ring are the same slot only if they are the same place.
LEMMA PlaceSame ==
  ASSUME NEW p \in Slot0, NEW n \in Slot0
  PROVE  \A i \in Slot0 : Place(p, i) \in Slot0 /\ (Place(p, i) = Place(p, n) <=> i = n)
<1>1. Slot0 \subseteq 0..QueueSize
  BY QueueAssumption DEF Slot0
<1> QED BY <1>1, PlaceIs, PlaceOnce

\* push puts a message behind the stretch, unless the ring is full.
LEMMA PushStep ==
  ASSUME NEW s \in Slots, NEW p \in Slot0, NEW n \in 0..QueueSize, Stretch(s, p, n),
         NEW m \in Message, s[Place(p, n)] = Nothing,
         NEW t, Put(s, Place(p, n), m, t)
  PROVE  /\ n + 1 \in 0..QueueSize /\ Stretch(t, p, n + 1)
         /\ After(Place(p, n)) = Place(p, n + 1)
         /\ Ring(t, p) = Append(Ring(s, p), m)
<1>1. n \in Slot0 /\ n + 1 \in 0..QueueSize
  <2>1. CASE n = QueueSize
    <3>1. Place(p, n) = Place(p, 0) /\ 0 \in Slot0
      BY <2>1, PlaceMoves, QueueAssumption DEF Slot0
    <3> QED BY <2>1, <3>1, QueueAssumption DEF Stretch, Slot0
  <2> QED BY <2>1, QueueAssumption DEF Slot0
<1>2. After(Place(p, n)) = Place(p, n + 1)
  BY <1>1, PlaceMoves
<1>3. t \in Slots /\ \A i \in Slot0 : t[Place(p, i)] = IF i = n THEN m ELSE s[Place(p, i)]
  BY <1>1, PlaceSame DEF Slots, Put
<1>4. Stretch(t, p, n + 1)
  <2>1. ASSUME NEW i \in Slot0 PROVE t[Place(p, i)] # Nothing <=> i < n + 1
    <3>1. CASE i = n
      BY <1>3, <3>1, QueueAssumption DEF Slot0
    <3>2. CASE i # n
      BY <1>1, <1>3, <3>2, QueueAssumption DEF Stretch, Slot0
    <3> QED BY <3>1, <3>2
  <2> QED BY <2>1 DEF Stretch
<1>5. /\ Ring(s, p) \in Seq(Message) /\ Len(Ring(s, p)) = n
      /\ \A i \in 1..n : Ring(s, p)[i] = s[Place(p, i - 1)]
  BY RingOfStretch
<1>6. /\ Ring(t, p) \in Seq(Message) /\ Len(Ring(t, p)) = n + 1
      /\ \A i \in 1..(n + 1) : Ring(t, p)[i] = t[Place(p, i - 1)]
  BY <1>1, <1>3, <1>4, RingOfStretch
<1>7. ASSUME NEW i \in 1..(n + 1) PROVE Ring(t, p)[i] = Append(Ring(s, p), m)[i]
  <2>1. i - 1 \in Slot0
    BY <1>1, QueueAssumption DEF Slot0
  <2>2. CASE i = n + 1
    <3>1. i - 1 = n /\ Append(Ring(s, p), m)[i] = m
      BY <1>1, <1>5, <2>2, QueueAssumption DEF Slot0
    <3> QED BY <1>3, <1>6, <2>1, <3>1
  <2>3. CASE i # n + 1
    <3>1. i - 1 # n /\ i \in 1..n /\ Append(Ring(s, p), m)[i] = Ring(s, p)[i]
      BY <1>1, <1>5, <2>3, QueueAssumption DEF Slot0
    <3> QED BY <1>3, <1>5, <1>6, <2>1, <3>1
  <2> QED BY <2>2, <2>3
<1>8. Append(Ring(s, p), m) \in Seq(Message) /\ Len(Append(Ring(s, p), m)) = n + 1
  BY <1>5
<1>9. Ring(t, p) = Append(Ring(s, p), m)
  BY <1>6, <1>7, <1>8, SeqEqual
<1> QED BY <1>1, <1>2, <1>4, <1>9

\* pull takes the first message of the stretch.
LEMMA PullStep ==
  ASSUME NEW s \in Slots, NEW p \in Slot0, NEW n \in 0..QueueSize, Stretch(s, p, n),
         s[p] # Nothing, NEW t, Put(s, p, Nothing, t)
  PROVE  /\ n - 1 \in 0..QueueSize /\ Stretch(t, After(p), n - 1)
         /\ Place(p, n) = Place(After(p), n - 1)
         /\ Ring(s, p) # <<>> /\ Head(Ring(s, p)) = s[p]
         /\ Ring(t, After(p)) = Tail(Ring(s, p))
<1> DEFINE q == After(p)
<1>1. q \in Slot0 /\ Place(p, 0) = p /\ \A i \in Slot0 : Place(q, i) = Place(p, i + 1)
  BY PlaceMoves
<1>2. 0 \in Slot0 /\ Place(p, QueueSize) = p
  BY PlaceMoves, QueueAssumption DEF Slot0
<1>3. n \in 1..QueueSize /\ n - 1 \in 0..QueueSize /\ n - 1 \in Slot0
  BY <1>1, <1>2, QueueAssumption DEF Stretch, Slot0
<1>4. Place(p, n) = Place(q, n - 1)
  BY <1>1, <1>3
<1>5. t \in Slots /\ \A i \in Slot0 : t[Place(p, i)] = IF i = 0 THEN Nothing ELSE s[Place(p, i)]
  <2>1. t = [s EXCEPT ![Place(p, 0)] = Nothing]
    BY <1>1 DEF Put
  <2> QED BY <1>2, <2>1, PlaceSame DEF Slots
<1>6. Stretch(t, q, n - 1)
  <2>1. ASSUME NEW i \in Slot0 PROVE t[Place(q, i)] # Nothing <=> i < n - 1
    <3>1. CASE i + 1 = QueueSize
      <4>1. Place(q, i) = Place(p, 0)
        BY <1>1, <1>2, <3>1
      <4>2. t[Place(q, i)] = Nothing
        BY <1>2, <1>5, <4>1
      <4> QED BY <1>3, <3>1, <4>2, QueueAssumption DEF Slot0
    <3>2. CASE i + 1 # QueueSize
      <4>1. i + 1 \in Slot0 /\ i + 1 # 0
        BY <3>2, QueueAssumption DEF Slot0
      <4>2. t[Place(q, i)] = s[Place(p, i + 1)]
        BY <1>1, <1>5, <4>1
      <4>3. t[Place(q, i)] # Nothing <=> i + 1 < n
        BY <4>1, <4>2 DEF Stretch
      <4> QED BY <1>3, <4>3, QueueAssumption DEF Slot0
    <3> QED BY <3>1, <3>2
  <2> QED BY <2>1 DEF Stretch
<1>7. /\ Ring(s, p) \in Seq(Message) /\ Len(Ring(s, p)) = n
      /\ \A i \in 1..n : Ring(s, p)[i] = s[Place(p, i - 1)]
  BY RingOfStretch
<1>8. /\ Ring(t, q) \in Seq(Message) /\ Len(Ring(t, q)) = n - 1
      /\ \A i \in 1..(n - 1) : Ring(t, q)[i] = t[Place(q, i - 1)]
  BY <1>1, <1>3, <1>5, <1>6, RingOfStretch
<1>9. Ring(s, p) # <<>> /\ Head(Ring(s, p)) = s[p]
  <2>1. Ring(s, p) # <<>> /\ Head(Ring(s, p)) = Ring(s, p)[1]
    BY <1>3, <1>7
  <2>2. Ring(s, p)[1] = s[Place(p, 1 - 1)]
    BY <1>3, <1>7
  <2> QED BY <1>1, <2>1, <2>2
<1>10. /\ Tail(Ring(s, p)) \in Seq(Message) /\ Len(Tail(Ring(s, p))) = n - 1
       /\ \A i \in 1..(n - 1) : Tail(Ring(s, p))[i] = Ring(s, p)[i + 1]
  BY <1>7, <1>9, HeadTailProperties
<1>11. ASSUME NEW i \in 1..(n - 1) PROVE Ring(t, q)[i] = Tail(Ring(s, p))[i]
  <2>1. i \in Slot0 /\ i # 0 /\ i - 1 \in Slot0 /\ i + 1 \in 1..n /\ (i - 1) + 1 = i /\ (i + 1) - 1 = i
    BY <1>3, QueueAssumption DEF Slot0
  <2>2. Ring(t, q)[i] = t[Place(p, i)]
    BY <1>1, <1>8, <2>1
  <2>3. Tail(Ring(s, p))[i] = s[Place(p, i)]
    BY <1>7, <1>10, <2>1
  <2> QED BY <1>5, <2>1, <2>2, <2>3
<1>12. Ring(t, q) = Tail(Ring(s, p))
  BY <1>8, <1>10, <1>11, SeqEqual
<1> QED BY <1>3, <1>4, <1>6, <1>9, <1>12

\* pop takes the last message of the stretch.
LEMMA PopStep ==
  ASSUME NEW s \in Slots, NEW p \in Slot0, NEW n \in 0..QueueSize, Stretch(s, p, n),
         NEW l, l = (Place(p, n) + QueueSize - 1) % QueueSize, s[l] # Nothing,
         NEW t, Put(s, l, Nothing, t)
  PROVE  /\ n - 1 \in 0..QueueSize /\ Stretch(t, p, n - 1) /\ l = Place(p, n - 1)
         /\ Ring(s, p) # <<>> /\ s[l] = Ring(s, p)[Len(Ring(s, p))]
         /\ Ring(t, p) = SubSeq(Ring(s, p), 1, Len(Ring(s, p)) - 1)
<1>1. n \in 1..QueueSize /\ n - 1 \in Slot0 /\ n - 1 \in 0..QueueSize
  <2>1. CASE n = 0
    <3>1. QueueSize - 1 \in Slot0 /\ (QueueSize - 1) + 1 = QueueSize
      BY QueueAssumption DEF Slot0
    <3>2. Place(p, n) = Place(p, (QueueSize - 1) + 1)
      BY <2>1, <3>1, PlaceMoves
    <3>3. l = Place(p, QueueSize - 1)
      BY <3>1, <3>2, PlaceMoves
    <3> QED BY <2>1, <3>1, <3>3, QueueAssumption DEF Stretch, Slot0
  <2> QED BY <2>1, QueueAssumption DEF Slot0
<1>2. l = Place(p, n - 1)
  <2>1. (n - 1) + 1 = n
    BY <1>1
  <2>2. (Place(p, (n - 1) + 1) + QueueSize - 1) % QueueSize = Place(p, n - 1)
    BY <1>1, PlaceMoves
  <2> QED BY <2>1, <2>2
<1>3. t \in Slots /\ \A i \in Slot0 : t[Place(p, i)] = IF i = n - 1 THEN Nothing ELSE s[Place(p, i)]
  <2> DEFINE k == n - 1
  <2>1. t = [s EXCEPT ![Place(p, k)] = Nothing] /\ k \in Slot0
    BY <1>1, <1>2 DEF Put
  <2> HIDE DEF k
  <2>2. t \in Slots /\ \A i \in Slot0 : t[Place(p, i)] = IF i = k THEN Nothing ELSE s[Place(p, i)]
    BY <2>1, PlaceSame DEF Slots
  <2> QED BY <2>2 DEF k
<1>4. Stretch(t, p, n - 1)
  <2>1. ASSUME NEW i \in Slot0 PROVE t[Place(p, i)] # Nothing <=> i < n - 1
    <3>1. CASE i = n - 1
      BY <1>1, <1>3, <3>1, QueueAssumption DEF Slot0
    <3>2. CASE i # n - 1
      BY <1>1, <1>3, <3>2, QueueAssumption DEF Stretch, Slot0
    <3> QED BY <3>1, <3>2
  <2> QED BY <2>1 DEF Stretch
<1>5. /\ Ring(s, p) \in Seq(Message) /\ Len(Ring(s, p)) = n
      /\ \A i \in 1..n : Ring(s, p)[i] = s[Place(p, i - 1)]
  BY RingOfStretch
<1>6. /\ Ring(t, p) \in Seq(Message) /\ Len(Ring(t, p)) = n - 1
      /\ \A i \in 1..(n - 1) : Ring(t, p)[i] = t[Place(p, i - 1)]
  BY <1>1, <1>3, <1>4, RingOfStretch
<1>7. Ring(s, p) # <<>> /\ s[l] = Ring(s, p)[Len(Ring(s, p))]
  BY <1>1, <1>2, <1>5
<1> DEFINE u == SubSeq(Ring(s, p), 1, n - 1)
<1>8. u \in Seq(Message) /\ Len(u) = n - 1 /\ \A i \in 1..(n - 1) : u[i] = Ring(s, p)[i]
  BY <1>1, <1>5
<1>9. ASSUME NEW i \in 1..(n - 1) PROVE Ring(t, p)[i] = u[i]
  <2>1. i - 1 \in Slot0 /\ i - 1 # n - 1 /\ i \in 1..n
    BY <1>1, QueueAssumption DEF Slot0
  <2> QED BY <1>3, <1>5, <1>6, <1>8, <2>1
<1> HIDE DEF u
<1>10. Ring(t, p) = u
  BY <1>6, <1>8, <1>9, SeqEqual
<1> QED BY <1>1, <1>2, <1>4, <1>5, <1>7, <1>10 DEF u

\* Every call leaves the positions in the ring or right behind it, and messages
\* in the slots.
LEMMA QueueTypes ==
  ASSUME QueueTypeOK, QueueNext
  PROVE  QueueTypeOK'
<1>1. /\ \A i \in Position : After(i) \in Position
      /\ Slot0 \subseteq Position /\ Last \in Slot0
  BY QueueAssumption DEF QueueTypeOK, Slot0, Position, After, Last
<1>2. /\ \A p \in Position : Found(p) \subseteq Message \cup {Nothing}
      /\ \A p \in Position, x \in Message \cup {Nothing} :
            Written(p, x) \in [Slot0 -> Message \cup {Nothing}]
  BY DEF QueueTypeOK, Found, Written
<1>3. ASSUME QueuePush \/ QueuePushKilled \/ QueueSet PROVE QueueTypeOK'
  BY <1>1, <1>2, <1>3 DEF QueuePush, QueuePushKilled, QueueSet, QueueTypeOK, Misuses
<1>4. ASSUME QueuePull \/ QueuePullKilled PROVE QueueTypeOK'
  BY <1>1, <1>2, <1>4 DEF QueuePull, QueuePullKilled, QueueTypeOK, Misuses
<1>5. ASSUME QueuePop \/ QueuePopKilled PROVE QueueTypeOK'
  BY <1>1, <1>5 DEF QueuePop, QueuePopKilled, QueueTypeOK, Misuses
<1> QED
  BY <1>3, <1>4, <1>5 DEF QueueNext

\* A call that misuses the queue, or one after that, is a Break.
LEMMA MisusedStep ==
  ASSUME QueueInv, QueueNext, misused' # {}
  PROVE  QueueInv' /\ Abstract!Next
BY QueueTypes DEF QueueInv, Abstract!Next, Abstract!Break

\* Any other call is the call of Deque with the same name.
LEMMA UsedStep ==
  ASSUME QueueInv, QueueNext, misused' = {}
  PROVE  QueueInv' /\ Abstract!Next
<1>1. misused = {} /\ QueueTypeOK' /\ slots \in Slots
  BY QueueTypes
     DEF QueueInv, QueueNext, QueuePush, QueuePushKilled, QueuePull, QueuePullKilled,
         QueuePop, QueuePopKilled, QueueSet, QueueTypeOK, Slots
<1>2. PICK n \in 0..QueueSize : Stretch(slots, pull_pos, n) /\ pos = Place(pull_pos, n)
  BY <1>1 DEF QueueInv
<1>0. pull_pos \in Slot0 /\ pos \in Slot0
  BY <1>1, <1>2, PlaceIs DEF QueueInv
<1>3. CASE QueuePush
  <2>1. PICK m \in Message : slots' = [slots EXCEPT ![pos] = m]
    BY <1>0, <1>3 DEF QueuePush, Written
  <2>2. slots[pos] = Nothing /\ pos' = After(pos) /\ UNCHANGED <<pull_pos, answer>>
    BY <1>0, <1>1, <1>3 DEF QueuePush, Found
  <2>3. /\ n + 1 \in 0..QueueSize /\ Stretch(slots', pull_pos, n + 1)
        /\ After(Place(pull_pos, n)) = Place(pull_pos, n + 1)
        /\ Ring(slots', pull_pos) = Append(Ring(slots, pull_pos), m)
    <3>1. Put(slots, Place(pull_pos, n), m, slots') /\ slots[Place(pull_pos, n)] = Nothing
      BY <1>2, <2>1, <2>2 DEF Put
    <3> QED BY <1>0, <1>1, <1>2, <3>1, PushStep
  <2>4. QueueInv'
    BY <1>0, <1>1, <1>2, <2>2, <2>3 DEF QueueInv
  <2>5. Abstract!Push
    BY <1>1, <2>2, <2>3 DEF Abstract!Push
  <2> QED BY <2>4, <2>5 DEF Abstract!Next
<1>4. CASE QueuePull
  <2>1. CASE slots[pull_pos] = Nothing
    <3>1. UNCHANGED <<slots, pos, pull_pos>> /\ answer' = Nothing
      BY <1>0, <1>4, <2>1 DEF QueuePull, Found
    <3>2. n = 0
      <4>1. pull_pos = Place(pull_pos, 0) /\ 0 \in Slot0
        BY <1>0, PlaceMoves, QueueAssumption DEF Slot0
      <4> QED BY <1>2, <2>1, <4>1, QueueAssumption DEF Stretch
    <3>3. Ring(slots, pull_pos) = <<>>
      BY <1>0, <1>1, <1>2, <3>2, RingOfStretch, EmptySeq
    <3>4. QueueInv'
      BY <1>0, <1>1, <1>2, <3>1 DEF QueueInv
    <3>5. Abstract!Pull
      BY <1>1, <3>1, <3>3 DEF Abstract!Pull
    <3> QED BY <3>4, <3>5 DEF Abstract!Next
  <2>2. CASE slots[pull_pos] # Nothing
    <3>1. /\ slots' = [slots EXCEPT ![pull_pos] = Nothing] /\ pull_pos' = After(pull_pos)
          /\ pos' = pos /\ answer' = slots[pull_pos]
      BY <1>0, <1>4, <2>2 DEF QueuePull, Found, Written
    <3>2. /\ n - 1 \in 0..QueueSize /\ Stretch(slots', After(pull_pos), n - 1)
          /\ Place(pull_pos, n) = Place(After(pull_pos), n - 1)
          /\ Ring(slots, pull_pos) # <<>> /\ Head(Ring(slots, pull_pos)) = slots[pull_pos]
          /\ Ring(slots', After(pull_pos)) = Tail(Ring(slots, pull_pos))
      <4>1. Put(slots, pull_pos, Nothing, slots')
        BY <3>1 DEF Put
      <4> QED BY <1>0, <1>1, <1>2, <2>2, <4>1, PullStep
    <3>3. QueueInv'
      <4>1. pull_pos' \in Slot0 /\ pos' = Place(pull_pos', n - 1) /\ Stretch(slots', pull_pos', n - 1)
        BY <1>0, <1>2, <3>1, <3>2, PlaceMoves
      <4> QED BY <1>1, <3>2, <4>1 DEF QueueInv
    <3>4. Abstract!Pull
      BY <1>1, <3>1, <3>2 DEF Abstract!Pull
    <3> QED BY <3>3, <3>4 DEF Abstract!Next
  <2> QED BY <2>1, <2>2
<1>5. CASE QueuePop
  <2> DEFINE l == Last
  <2>1. /\ slots' = [slots EXCEPT ![l] = Nothing] /\ pos' = l /\ answer' = slots[l]
        /\ pull_pos' = pull_pos /\ slots[l] # Nothing
    BY <1>1, <1>5 DEF QueuePop
  <2>2. l = (Place(pull_pos, n) + QueueSize - 1) % QueueSize
    BY <1>2 DEF Last
  <2> HIDE DEF l
  <2>3. /\ n - 1 \in 0..QueueSize /\ Stretch(slots', pull_pos, n - 1) /\ l = Place(pull_pos, n - 1)
        /\ Ring(slots, pull_pos) # <<>>
        /\ slots[l] = Ring(slots, pull_pos)[Len(Ring(slots, pull_pos))]
        /\ Ring(slots', pull_pos)
             = SubSeq(Ring(slots, pull_pos), 1, Len(Ring(slots, pull_pos)) - 1)
    <3>1. slots \in Slots /\ pull_pos \in Slot0 /\ Stretch(slots, pull_pos, n)
      BY <1>0, <1>1, <1>2
    <3>2. slots[l] # Nothing /\ Put(slots, l, Nothing, slots')
      BY <2>1 DEF Put
    <3> QED BY <2>2, <3>1, <3>2, PopStep
  <2>4. QueueInv'
    BY <1>0, <1>1, <2>1, <2>3 DEF QueueInv
  <2>5. Abstract!Pop
    BY <1>1, <2>1, <2>3 DEF Abstract!Pop
  <2> QED BY <2>4, <2>5 DEF Abstract!Next
<1> QED
  BY <1>1, <1>3, <1>4, <1>5
     DEF QueueNext, QueuePushKilled, QueuePullKilled, QueuePopKilled, QueueSet

\* The empty ring is an empty stretch.
LEMMA InitQueueInv == QueueInit => QueueInv /\ Abstract!Init
<1> SUFFICES ASSUME QueueInit PROVE QueueInv /\ Abstract!Init
  OBVIOUS
<1>1. QueueTypeOK /\ 0 \in Slot0 /\ 0 \in 0..QueueSize /\ slots \in Slots
  BY QueueAssumption DEF QueueInit, QueueTypeOK, Slot0, Slots, Position
<1>2. Place(pull_pos, 0) = pos
  BY <1>1, PlaceMoves DEF QueueInit
<1>3. Stretch(slots, pull_pos, 0)
  <2>1. \A i \in Slot0 : Place(pull_pos, i) \in Slot0
    BY <1>1, PlaceSame DEF QueueInit
  <2>2. \A i \in Slot0 : ~(i < 0)
    BY QueueAssumption DEF Slot0
  <2> QED BY <2>1, <2>2 DEF QueueInit, Stretch
<1>4. Ring(slots, pull_pos) = <<>>
  BY <1>1, <1>3, RingOfStretch, EmptySeq DEF QueueInit
<1> QED BY <1>1, <1>2, <1>3, <1>4 DEF QueueInv, Abstract!Init, QueueInit

\* A full slot of a stretch is one of the ring.
LEMMA InvNothingHidden == QueueInv => NothingHidden
<1> SUFFICES ASSUME QueueInv, misused = {}, NEW i \in Slot0, slots[i] # Nothing
             PROVE  \E n \in 0..(RingLength(slots, pull_pos) - 1) : i = Place(pull_pos, n)
  BY DEF NothingHidden
<1>1. PICK n \in 0..QueueSize : Stretch(slots, pull_pos, n)
  BY DEF QueueInv
<1>2. PICK k \in Slot0 : i = Place(pull_pos, k)
  BY PlaceOnce DEF QueueInv, QueueTypeOK
<1>3. k < n /\ RingLength(slots, pull_pos) = n
  BY <1>1, <1>2, LengthOfStretch DEF Stretch
<1> QED BY <1>2, <1>3, QueueAssumption DEF Slot0

\* uwsgi_queue_push, pull and pop are the calls of a double-ended queue, and
\* hide no message, for every size of the queue and every message, until the
\* queue has been misused: pushed over, popped empty, set, or left by a worker
\* that was killed.
THEOREM QueueImplementsDeque == QueueInit /\ [][QueueNext]_queueVars => QueueIsDeque
<1>1. QueueInv /\ [QueueNext]_queueVars => QueueInv'
  <2>1. CASE UNCHANGED queueVars
    BY <2>1 DEF queueVars, QueueInv, QueueTypeOK
  <2> QED BY <2>1, MisusedStep, UsedStep
<1>2. QueueInv /\ [QueueNext]_queueVars
        => [Abstract!Next]_<<Ring(slots, pull_pos), answer, misused # {}>>
  <2>1. CASE UNCHANGED queueVars
    BY <2>1 DEF queueVars
  <2> QED BY <2>1, MisusedStep, UsedStep
<1> QED BY <1>1, <1>2, InitQueueInv, InvNothingHidden, PTL DEF QueueIsDeque, Abstract!Spec

------------------------------------------------------------------------------
(* The spooler.                                                             *)

\* The inductive invariant: all of TasksRunProperly but what follows from the
\* rest of it.
SpoolerInv ==
    /\ SpoolerTypeOK
    /\ DoneTwiceOnlyByKill /\ DoneIsRemoved
    /\ \A s \in Spooler : spooler[s].leaked =>
          \E t \in Task : writer[t] = "killed" /\ file[t].content = "header"
    /\ \A t \in Task : FileLocal(writer[t], file[t])
    /\ \A s \in Spooler :
          SpoolerLocal(s, spooler[s], writer[spooler[s].task], file[spooler[s].task])

\* What follows: a task belongs to the owner of its lock, and is complete unless
\* a kill cut it short.
LEMMA SpoolerInvImplies == SpoolerInv => TasksRunProperly
<1> SUFFICES ASSUME SpoolerInv PROVE TasksRunProperly
  OBVIOUS
<1>0. \A s \in Spooler :
         SpoolerLocal(s, spooler[s], writer[spooler[s].task], file[spooler[s].task])
  BY DEF SpoolerInv
<1>1. OneSpoolerPerTask
  BY <1>0 DEF OneSpoolerPerTask, SpoolerLocal
<1>2. TruncatedOnlyByKill
  <2> SUFFICES ASSUME NEW s \in Spooler, spooler[s].at = "running"
               PROVE file[spooler[s].task].content = "whole" \/ writer[spooler[s].task] = "killed"
    BY DEF TruncatedOnlyByKill
  <2>1. PICK t \in Task : t = spooler[s].task
    BY <1>0 DEF SpoolerLocal
  <2>2. writer[t] \in {"closed", "killed"}
    BY <1>0, <2>1 DEF SpoolerLocal
  <2>3. FileLocal(writer[t], file[t])
    BY DEF SpoolerInv
  <2> QED BY <2>1, <2>2, <2>3 DEF FileLocal
<1>3. EarlyOnlyByDirtyStat
  BY <1>0 DEF EarlyOnlyByDirtyStat, SpoolerLocal
<1>4. GoneOnlyIfBroken
  <2>1. ASSUME NEW s \in Spooler, spooler[s].at = "done" PROVE spooler[s].task \in Linked
    BY <1>0, <2>1 DEF SpoolerLocal, Linked
  <2> QED BY <2>1 DEF GoneOnlyIfBroken, SpoolerInv
<1> QED BY <1>1, <1>2, <1>3, <1>4 DEF SpoolerInv, TasksRunProperly

\* The files start absent, or whole when an earlier instance left them.
LEMMA SpoolerStarts == SpoolerInit => SpoolerInv
<1> SUFFICES ASSUME SpoolerInit PROVE SpoolerInv
  OBVIOUS
<1> USE SpoolerAssumption
<1>1. PICK timed \in SUBSET (Task \ Left) :
         file = [t \in Task |-> [linked |-> t \in Left, owner |-> Nobody, future |-> FALSE,
                                 content |-> IF t \in Left THEN "whole" ELSE "empty",
                                 at |-> t \in timed]]
  BY DEF SpoolerInit
<1>2. /\ Scanning \in SpoolProcess /\ Scanning.at = "scan" /\ ~Scanning.leaked
  BY DEF Scanning, SpoolProcess, Places
<1>3. ASSUME NEW t \in Task
      PROVE /\ file[t] \in SpoolFile /\ FileLocal(writer[t], file[t]) /\ writer[t] \in Stages
  <2>1. PICK c : c = IF t \in Left THEN "whole" ELSE "empty"
    OBVIOUS
  <2>2. file[t] = [linked |-> t \in Left, owner |-> Nobody, future |-> FALSE, content |-> c,
                   at |-> t \in timed]
    BY <1>1, <2>1
  <2>3. c \in Content /\ (t \in Left) \in BOOLEAN /\ (t \in timed) \in BOOLEAN
    BY <2>1 DEF Content
  <2>4. file[t] \in SpoolFile
    BY <2>2, <2>3 DEF SpoolFile
  <2>5. writer[t] = IF t \in Left THEN "closed" ELSE "new"
    BY DEF SpoolerInit
  <2>6. writer[t] \in Stages
    BY <2>5 DEF Stages
  <2>7. /\ file[t].owner = Nobody /\ file[t].content = c /\ file[t].linked = (t \in Left)
    BY <2>2
  <2>8. FileLocal(writer[t], file[t])
    BY <2>1, <2>5, <2>7 DEF FileLocal
  <2> QED BY <2>4, <2>6, <2>8
<1>4. SpoolerTypeOK
  BY <1>1, <1>2, <1>3 DEF SpoolerInit, SpoolerTypeOK
<1>5. \A s \in Spooler : spooler[s] = Scanning
  BY DEF SpoolerInit
<1>6. \A s \in Spooler : SpoolerLocal(s, spooler[s], writer[spooler[s].task], file[spooler[s].task])
  BY <1>2, <1>5 DEF SpoolerLocal
<1>7. DoneTwiceOnlyByKill /\ DoneIsRemoved
  BY DEF SpoolerInit, DoneTwiceOnlyByKill, DoneIsRemoved
<1> QED BY <1>2, <1>3, <1>4, <1>5, <1>6, <1>7 DEF SpoolerInv

\* The process that writes task t goes on to w and leaves the file at f: no
\* spooler has the lock of a file that is being written.
LEMMA WriterMoves ==
    ASSUME SpoolerInv, OnlyFiles, NEW t \in Task, writer[t] \notin {"closed", "killed"},
           NEW w \in Stages, writer' = [writer EXCEPT ![t] = w],
           NEW f \in SpoolFile, file' = [file EXCEPT ![t] = f],
           FileLocal(w, f)
    PROVE SpoolerInv'
<1>0. /\ SpoolerTypeOK /\ DoneTwiceOnlyByKill /\ DoneIsRemoved
      /\ \A u \in Task : FileLocal(writer[u], file[u])
      /\ \A s \in Spooler :
            SpoolerLocal(s, spooler[s], writer[spooler[s].task], file[spooler[s].task])
      /\ spooler' = spooler /\ finished' = finished /\ cut' = cut /\ trouble' = trouble
  BY DEF SpoolerInv, OnlyFiles
<1>1. writer \in [Task -> Stages] /\ file \in [Task -> SpoolFile]
  BY <1>0 DEF SpoolerTypeOK
<1>2. SpoolerTypeOK'
  BY <1>0, <1>1 DEF SpoolerTypeOK
<1>3. /\ writer'[t] = w /\ file'[t] = f
      /\ \A u \in Task : u # t => writer'[u] = writer[u] /\ file'[u] = file[u]
  BY <1>1
<1>4. \A u \in Task : FileLocal(writer'[u], file'[u])
  BY <1>0, <1>3
<1>5. ASSUME NEW s \in Spooler, NEW l, l = spooler[s]
      PROVE SpoolerLocal(s, l, writer'[l.task], file'[l.task])
  <2>0. SpoolerLocal(s, l, writer[l.task], file[l.task])
    BY <1>0, <1>5
  <2>1. CASE l.at \in {"scan", "dead"}
    BY <2>1 DEF SpoolerLocal
  <2>2. CASE l.at \notin {"scan", "dead"} /\ l.task # t
    <3>1. l.task \in Task
      BY <2>0, <2>2 DEF SpoolerLocal
    <3> QED BY <1>3, <2>0, <2>2, <3>1
  <2>3. CASE l.at \notin {"scan", "dead"} /\ l.task = t
    BY <2>0, <2>3 DEF SpoolerLocal
  <2> QED BY <2>1, <2>2, <2>3
<1>6. DoneTwiceOnlyByKill'
  BY <1>0 DEF DoneTwiceOnlyByKill
<1>7. DoneIsRemoved'
  BY <1>0, <1>3 DEF DoneIsRemoved
<1>8. \A s \in Spooler : spooler'[s].leaked =>
          \E u \in Task : writer'[u] = "killed" /\ file'[u].content = "header"
  BY <1>0, <1>3 DEF SpoolerInv
<1> QED BY <1>0, <1>2, <1>4, <1>5, <1>6, <1>7, <1>8 DEF SpoolerInv

\* The steps of uwsgi_spool_request, and a kill.
LEMMA WriterSteps ==
    ASSUME SpoolerInv, NEW t \in Task, WriterStep(t) \/ WriterKilled(t)
    PROVE SpoolerInv'
<1> USE SpoolerAssumption
<1>0. /\ writer \in [Task -> Stages] /\ file \in [Task -> SpoolFile]
      /\ FileLocal(writer[t], file[t])
  BY DEF SpoolerInv, SpoolerTypeOK
<1>1. PICK g : g = file[t]
  OBVIOUS
<1>2. g \in SpoolFile /\ FileLocal(writer[t], g)
  BY <1>0, <1>1
<1>3. \A c \in Content : [g EXCEPT !.content = c] \in SpoolFile
  BY <1>2 DEF SpoolFile
<1>4. "empty" \in Content /\ "header" \in Content /\ "args" \in Content /\ "whole" \in Content
  BY DEF Content
<1>5. OnlyFiles
  BY DEF WriterStep, CreateFile, LockFile, WriteHeader, WriteArgs, WriteBody, SetTime, CloseFile,
         WriteFails, WriterKilled
<1>6. SUFFICES ASSUME NEW f \in SpoolFile, NEW w \in Stages, FileLocal(w, f),
                      writer[t] \notin {"closed", "killed"},
                      writer' = [writer EXCEPT ![t] = w], file' = [file EXCEPT ![t] = f]
               PROVE SpoolerInv'
  <2>1. CASE CreateFile(t)
    <3> DEFINE f == [g EXCEPT !.linked = TRUE]
    <3>1. f \in SpoolFile /\ FileLocal("created", f)
      BY <1>2, <2>1 DEF CreateFile, WriterGoes, FileLocal, SpoolFile
    <3>2. "created" \in Stages /\ file' = [file EXCEPT ![t] = f]
      BY <1>1, <2>1 DEF Stages, CreateFile
    <3> HIDE DEF f
    <3> QED BY <1>6, <2>1, <3>1, <3>2 DEF CreateFile, WriterGoes
  <2>2. CASE LockFile(t)
    <3> DEFINE f == [g EXCEPT !.owner = Writer]
    <3>1. f \in SpoolFile /\ FileLocal("locked", f)
      BY <1>2, <2>2 DEF LockFile, WriterGoes, FileLocal, SpoolFile
    <3>2. "locked" \in Stages /\ file' = [file EXCEPT ![t] = f]
      BY <1>1, <2>2 DEF Stages, LockFile
    <3> HIDE DEF f
    <3> QED BY <1>6, <2>2, <3>1, <3>2 DEF LockFile, WriterGoes
  <2>3. CASE WriteHeader(t)
    <3> DEFINE f == [g EXCEPT !.content = "header"]
    <3>1. f \in SpoolFile /\ FileLocal("header", f)
      BY <1>2, <1>3, <1>4, <2>3 DEF WriteHeader, WriterGoes, FileLocal, SpoolFile
    <3>2. "header" \in Stages /\ file' = [file EXCEPT ![t] = f]
      BY <1>1, <2>3 DEF Stages, WriteHeader
    <3> HIDE DEF f
    <3> QED BY <1>6, <2>3, <3>1, <3>2 DEF WriteHeader, WriterGoes
  <2>4. CASE WriteArgs(t)
    <3> DEFINE f == [g EXCEPT !.content = "args"]
    <3>1. f \in SpoolFile /\ FileLocal("args", f)
      BY <1>2, <1>3, <1>4, <2>4 DEF WriteArgs, WriterGoes, FileLocal, SpoolFile
    <3>2. "args" \in Stages /\ file' = [file EXCEPT ![t] = f]
      BY <1>1, <2>4 DEF Stages, WriteArgs
    <3> HIDE DEF f
    <3> QED BY <1>6, <2>4, <3>1, <3>2 DEF WriteArgs, WriterGoes
  <2>5. CASE WriteBody(t)
    <3> DEFINE f == [g EXCEPT !.content = "whole"]
    <3>1. f \in SpoolFile /\ FileLocal("body", f)
      BY <1>2, <1>3, <1>4, <2>5 DEF WriteBody, WriterGoes, FileLocal, SpoolFile
    <3>2. "body" \in Stages /\ file' = [file EXCEPT ![t] = f]
      BY <1>1, <2>5 DEF Stages, WriteBody
    <3> HIDE DEF f
    <3> QED BY <1>6, <2>5, <3>1, <3>2 DEF WriteBody, WriterGoes
  <2>6. CASE SetTime(t)
    <3> DEFINE f == [g EXCEPT !.future = g.at]
    <3>1. f \in SpoolFile /\ FileLocal("timed", f)
      BY <1>2, <2>6 DEF SetTime, WriterGoes, FileLocal, SpoolFile
    <3>2. "timed" \in Stages /\ file' = [file EXCEPT ![t] = f]
      BY <1>1, <2>6 DEF Stages, SetTime
    <3> HIDE DEF f
    <3> QED BY <1>6, <2>6, <3>1, <3>2 DEF SetTime, WriterGoes
  <2>7. CASE CloseFile(t)
    <3> DEFINE f == [g EXCEPT !.owner = Nobody]
    <3>1. f \in SpoolFile /\ FileLocal("closed", f)
      BY <1>2, <2>7 DEF CloseFile, WriterGoes, FileLocal, SpoolFile
    <3>2. "closed" \in Stages /\ file' = [file EXCEPT ![t] = f]
      BY <1>1, <2>7 DEF Stages, CloseFile
    <3> HIDE DEF f
    <3> QED BY <1>6, <2>7, <3>1, <3>2 DEF CloseFile, WriterGoes
  <2>8. CASE WriteFails(t)
    <3> DEFINE f == [g EXCEPT !.linked = FALSE, !.owner = Nobody]
    <3>1. f \in SpoolFile /\ FileLocal("failed", f)
      BY <1>2, <2>8 DEF WriteFails, WriterGoes, FileLocal, SpoolFile
    <3>2. "failed" \in Stages /\ file' = [file EXCEPT ![t] = f]
      BY <1>0, <1>1, <2>8 DEF Stages, WriteFails
    <3> HIDE DEF f
    <3> QED BY <1>6, <2>8, <3>1, <3>2 DEF WriteFails, WriterGoes
  <2>9. CASE WriterKilled(t)
    <3>0. PICK o : o = IF g.owner = Writer THEN Nobody ELSE g.owner
      OBVIOUS
    <3> DEFINE f == [g EXCEPT !.owner = o]
    <3>1. f \in SpoolFile /\ FileLocal("killed", f)
      BY <1>2, <2>9, <3>0 DEF WriterKilled, FileLocal, SpoolFile
    <3>2. "killed" \in Stages /\ file' = [file EXCEPT ![t] = f]
      BY <1>1, <2>9, <3>0 DEF Stages, WriterKilled
    <3> HIDE DEF f
    <3> QED BY <1>6, <2>9, <3>1, <3>2 DEF WriterKilled
  <2> QED BY <2>1, <2>2, <2>3, <2>4, <2>5, <2>6, <2>7, <2>8, <2>9 DEF WriterStep
<1> QED BY <1>5, <1>6, WriterMoves

\* The time of a task comes.
LEMMA DueStep ==
    ASSUME SpoolerInv, NEW t \in Task, Due(t)
    PROVE SpoolerInv'
<1>0. /\ SpoolerTypeOK /\ DoneTwiceOnlyByKill /\ DoneIsRemoved
      /\ \A u \in Task : FileLocal(writer[u], file[u])
      /\ \A s \in Spooler :
            SpoolerLocal(s, spooler[s], writer[spooler[s].task], file[spooler[s].task])
      /\ UNCHANGED <<writer, spooler, finished, cut, trouble>>
  BY DEF SpoolerInv, Due, OnlyFiles
<1>1. file \in [Task -> SpoolFile] /\ file' = [file EXCEPT ![t].future = FALSE]
  BY <1>0 DEF SpoolerTypeOK, Due
<1>2. /\ file' \in [Task -> SpoolFile]
      /\ \A u \in Task : /\ file'[u].linked = file[u].linked /\ file'[u].content = file[u].content
                         /\ file'[u].owner = file[u].owner
                         /\ file'[u].future => file[u].future
  BY <1>1 DEF SpoolFile
<1>3. \A s \in Spooler :
         SpoolerLocal(s, spooler'[s], writer'[spooler'[s].task], file'[spooler'[s].task])
  BY <1>0, <1>2 DEF SpoolerLocal
<1>4. \A u \in Task : FileLocal(writer'[u], file'[u])
  BY <1>0, <1>2 DEF FileLocal
<1>5. DoneTwiceOnlyByKill' /\ DoneIsRemoved'
  BY <1>0, <1>2 DEF DoneTwiceOnlyByKill, DoneIsRemoved
<1>6. SpoolerTypeOK'
  BY <1>0, <1>2 DEF SpoolerTypeOK
<1>7. \A s \in Spooler : spooler'[s].leaked =>
          \E u \in Task : writer'[u] = "killed" /\ file'[u].content = "header"
  BY <1>0, <1>2 DEF SpoolerInv
<1> QED BY <1>3, <1>4, <1>5, <1>6, <1>7 DEF SpoolerInv

\* What spooler s does to the files: it takes and drops its own locks, and
\* removes a file that it has locked, or that is broken.
Handles(s) ==
    /\ file' \in [Task -> SpoolFile]
    /\ \A t \in Task :
          /\ file'[t].content = file[t].content /\ file'[t].future = file[t].future
          /\ \/ file'[t].owner = file[t].owner
             \/ file[t].owner \in {s, Nobody} /\ file'[t].owner \in {s, Nobody}
          /\ \/ file'[t].linked = file[t].linked
             \/ /\ ~file'[t].linked
                /\ \/ file[t].owner = s
                   \/ file[t].content = "header" /\ writer[t] = "killed"

\* A step of spooler s, from l to m.
LEMMA SpoolerMoves ==
    ASSUME SpoolerInv, writer' = writer, NEW s \in Spooler, Handles(s),
           NEW l, l = spooler[s], NEW m \in SpoolProcess, spooler' = [spooler EXCEPT ![s] = m],
           SpoolerLocal(s, m, writer[m.task], file'[m.task]),
           m.leaked => l.leaked \/ \E t \in Task : writer[t] = "killed" /\ file[t].content = "header",
           finished' \in [Task -> 0..2], cut' \subseteq Task, cut \subseteq cut',
           trouble' \in 0..MaxTrouble,
           \A t \in Task : \/ finished'[t] = finished[t]
                           \/ l.at = "running" /\ m.at = "done" /\ m.task = t,
           \A t \in Task : finished'[t] > 1 => t \in cut',
           l.at = "done" => l.task \in cut' \/ ~file'[l.task].linked
    PROVE SpoolerInv'
<1> USE SpoolerAssumption
<1>0. /\ SpoolerTypeOK /\ DoneTwiceOnlyByKill /\ DoneIsRemoved
      /\ \A t \in Task : FileLocal(writer[t], file[t])
      /\ \A r \in Spooler :
            SpoolerLocal(r, spooler[r], writer[spooler[r].task], file[spooler[r].task])
  BY DEF SpoolerInv
<1>1. /\ spooler \in [Spooler -> SpoolProcess] /\ file \in [Task -> SpoolFile]
      /\ finished \in [Task -> 0..2]
  BY <1>0 DEF SpoolerTypeOK
<1>2. spooler'[s] = m /\ \A r \in Spooler : r # s => spooler'[r] = spooler[r]
  BY <1>1
<1>3. SpoolerTypeOK'
  BY <1>0, <1>1 DEF SpoolerTypeOK, Handles
<1>4. \A t \in Task : file[t].linked \in BOOLEAN /\ file'[t].linked \in BOOLEAN
  BY <1>1 DEF Handles, SpoolFile
<1>5. \A t \in Task : FileLocal(writer'[t], file'[t])
  <2> SUFFICES ASSUME NEW t \in Task PROVE FileLocal(writer[t], file'[t])
    OBVIOUS
  <2>1. FileLocal(writer[t], file[t])
    BY <1>0
  <2>2. s # Writer /\ Nobody # Writer
    OBVIOUS
  <2> QED BY <1>4, <2>1, <2>2 DEF FileLocal, Handles
<1>6. ASSUME NEW r \in Spooler, r # s, NEW k, k = spooler[r]
      PROVE SpoolerLocal(r, k, writer[k.task], file'[k.task])
  <2>0. SpoolerLocal(r, k, writer[k.task], file[k.task])
    BY <1>0, <1>6
  <2>1. CASE k.at \in {"scan", "dead"}
    BY <2>1 DEF SpoolerLocal
  <2>2. CASE k.at \notin {"scan", "dead"}
    <3>1. PICK t \in Task : t = k.task
      BY <2>0, <2>2 DEF SpoolerLocal
    <3>2. /\ file'[t].content = file[t].content /\ file'[t].future = file[t].future
          /\ file[t].owner = r => file'[t].owner = r
          /\ \/ file'[t].linked = file[t].linked
             \/ file[t].owner = s
             \/ file[t].content = "header" /\ writer[t] = "killed"
      BY <1>6 DEF Handles
    <3> QED BY <1>6, <2>0, <2>2, <3>1, <3>2 DEF SpoolerLocal
  <2> QED BY <2>1, <2>2
<1>7. \A r \in Spooler :
         SpoolerLocal(r, spooler'[r], writer'[spooler'[r].task], file'[spooler'[r].task])
  BY <1>2, <1>6
<1>8. DoneTwiceOnlyByKill'
  BY DEF DoneTwiceOnlyByKill
<1>9. DoneIsRemoved'
  <2> SUFFICES ASSUME NEW t \in Task, finished'[t] > 0
               PROVE /\ writer[t] \in {"closed", "killed"}
                     /\ \/ t \in cut' \/ ~file'[t].linked
                        \/ \E r \in Spooler : spooler'[r].at = "done" /\ spooler'[r].task = t
    BY DEF DoneIsRemoved
  <2>1. CASE l.at = "running" /\ m.at = "done" /\ m.task = t
    <3>1. writer[t] \in {"closed", "killed"}
      BY <2>1 DEF SpoolerLocal
    <3> QED BY <1>2, <2>1, <3>1
  <2>2. CASE finished'[t] = finished[t]
    <3>1. /\ writer[t] \in {"closed", "killed"}
          /\ \/ t \in cut \/ ~file[t].linked
             \/ \E r \in Spooler : spooler[r].at = "done" /\ spooler[r].task = t
      BY <1>0, <2>2 DEF DoneIsRemoved
    <3>2. ~file[t].linked => ~file'[t].linked
      BY <1>4 DEF Handles
    <3>3. ASSUME NEW r \in Spooler, spooler[r].at = "done", spooler[r].task = t
          PROVE \/ t \in cut' \/ ~file'[t].linked
                \/ \E q \in Spooler : spooler'[q].at = "done" /\ spooler'[q].task = t
      BY <1>2, <3>3
    <3> QED BY <3>1, <3>2, <3>3
  <2> QED BY <2>1, <2>2
<1>10. \A r \in Spooler : spooler'[r].leaked =>
          \E t \in Task : writer'[t] = "killed" /\ file'[t].content = "header"
  BY <1>2 DEF SpoolerInv, Handles
<1> QED BY <1>3, <1>5, <1>7, <1>8, <1>9, <1>10 DEF SpoolerInv

\* A step that changes no file.
LEMMA Unhandled ==
    ASSUME SpoolerInv, NEW s \in Spooler, file' = file
    PROVE Handles(s)
  BY DEF Handles, SpoolerInv, SpoolerTypeOK

\* A spooler that closes the file of task t drops its lock.
LEMMA ClosingHandles ==
    ASSUME SpoolerInv, NEW s \in Spooler, NEW t \in Task, file' = ClosedBy(s, t)
    PROVE /\ Handles(s)
          /\ file'[t].linked = file[t].linked
<1>1. file \in [Task -> SpoolFile]
  BY DEF SpoolerInv, SpoolerTypeOK
<1>2. PICK g : g = file[t]
  OBVIOUS
<1>3. PICK o : o = IF g.owner = s THEN Nobody ELSE g.owner
  OBVIOUS
<1> DEFINE f == [g EXCEPT !.owner = o]
<1>4. file' = [file EXCEPT ![t] = f]
  BY <1>2, <1>3 DEF ClosedBy
<1>5. /\ f \in SpoolFile /\ f.content = g.content /\ f.future = g.future /\ f.linked = g.linked
      /\ f.owner = g.owner \/ (g.owner \in {s, Nobody} /\ f.owner \in {s, Nobody})
  BY <1>1, <1>2, <1>3 DEF SpoolFile
<1> HIDE DEF f
<1> QED BY <1>1, <1>2, <1>4, <1>5 DEF Handles

\* The steps of a spooler that change only where it is.
LEMMA SpoolerGoes ==
    ASSUME SpoolerInv, NEW s \in Spooler, OnlySpooler,
           NEW l, l = spooler[s], l.at # "done",
           NEW m \in SpoolProcess, spooler' = [spooler EXCEPT ![s] = m],
           m.leaked => l.leaked,
           SpoolerLocal(s, m, writer[m.task], file[m.task])
    PROVE SpoolerInv'
<1>1. /\ finished \in [Task -> 0..2] /\ cut \subseteq Task /\ trouble \in 0..MaxTrouble
      /\ \A t \in Task : finished[t] > 1 => t \in cut
  BY DEF SpoolerInv, SpoolerTypeOK, DoneTwiceOnlyByKill
<1>2. Handles(s)
  BY Unhandled DEF OnlySpooler
<1> QED BY <1>1, <1>2, SpoolerMoves DEF OnlySpooler

\* A pass over the directory, and a file that is looked at and opened.
LEMMA ScanSteps ==
    ASSUME SpoolerInv, NEW s \in Spooler,
           Scan(s) \/ Stat(s) \/ OpenTask(s) \/ RespawnSpooler(s)
    PROVE SpoolerInv'
<1> USE SpoolerAssumption
<1>1. PICK l : l = spooler[s]
  OBVIOUS
<1>2. /\ l \in SpoolProcess /\ SpoolerLocal(s, l, writer[l.task], file[l.task])
      /\ spooler \in [Spooler -> SpoolProcess] /\ file \in [Task -> SpoolFile]
  BY <1>1 DEF SpoolerInv, SpoolerTypeOK
<1>3. l.at # "done" /\ OnlySpooler
  BY <1>1 DEF Scan, Stat, OpenTask, RespawnSpooler
<1>4. SUFFICES ASSUME NEW m \in SpoolProcess, m.leaked => l.leaked,
                      spooler' = [spooler EXCEPT ![s] = m],
                      SpoolerLocal(s, m, writer[m.task], file[m.task])
               PROVE SpoolerInv'
  <2>1. CASE Scan(s)
    <3> DEFINE m == [l EXCEPT !.todo = Linked]
    <3>1. m \in SpoolProcess
      BY <1>2 DEF SpoolProcess, Linked
    <3>2. m.at = "scan" /\ m.leaked = l.leaked
      BY <1>1, <1>2, <2>1 DEF SpoolProcess, Scan
    <3>3. spooler' = [spooler EXCEPT ![s] = m]
      BY <1>1, <2>1 DEF Scan
    <3> HIDE DEF m
    <3>4. SpoolerLocal(s, m, writer[m.task], file[m.task])
      BY <3>2 DEF SpoolerLocal
    <3> QED BY <1>4, <3>1, <3>2, <3>3, <3>4
  <2>2. CASE Stat(s)
    <3>1. PICK t \in l.todo :
             LET wanted == t \in Linked /\ ~file[t].future IN
             spooler' = [spooler EXCEPT ![s] =
                [spooler[s] EXCEPT !.todo = @ \ {t},
                          !.at = IF wanted THEN "stat" ELSE "scan",
                          !.task = IF wanted THEN t ELSE NoTask,
                          !.dirty = wanted /\ writer[t] # "closed"]]
      BY <1>1, <2>2 DEF Stat
    <3>2. t \in Task
      BY <1>2 DEF SpoolProcess
    <3>3. PICK w : w = (t \in Linked /\ ~file[t].future)
      OBVIOUS
    <3>4. PICK a : a = IF t \in Linked /\ ~file[t].future THEN "stat" ELSE "scan"
      OBVIOUS
    <3>5. PICK k : k = IF t \in Linked /\ ~file[t].future THEN t ELSE NoTask
      OBVIOUS
    <3>6. PICK d : d = ((t \in Linked /\ ~file[t].future) /\ writer[t] # "closed")
      OBVIOUS
    <3> DEFINE m == [l EXCEPT !.todo = @ \ {t}, !.at = a, !.task = k, !.dirty = d]
    <3>7. spooler' = [spooler EXCEPT ![s] = m]
      BY <1>1, <3>1, <3>4, <3>5, <3>6, Zenon
    <3>8. a \in Places /\ k \in Task \cup {NoTask} /\ d \in BOOLEAN
      BY <3>2, <3>4, <3>5, <3>6 DEF Places
    <3>9. /\ m \in SpoolProcess /\ m.at = a /\ m.task = k /\ m.dirty = d /\ m.leaked = l.leaked
      BY <1>2, <3>8 DEF SpoolProcess
    <3> HIDE DEF m
    <3>10. SpoolerLocal(s, m, writer[m.task], file[m.task])
      BY <3>2, <3>3, <3>4, <3>5, <3>6, <3>9 DEF SpoolerLocal
    <3> QED BY <1>4, <3>7, <3>9, <3>10
  <2>3. CASE OpenTask(s) /\ l.task \in Linked
    <3> DEFINE m == [l EXCEPT !.at = "opened"]
    <3>1. "opened" \in Places
      BY DEF Places
    <3>2. /\ m \in SpoolProcess /\ m.at = "opened" /\ m.task = l.task /\ m.dirty = l.dirty
          /\ m.leaked = l.leaked
      BY <1>2, <3>1 DEF SpoolProcess
    <3>3. spooler' = [spooler EXCEPT ![s] = m] /\ l.at = "stat"
      BY <1>1, <2>3 DEF OpenTask, SpoolerAt
    <3> HIDE DEF m
    <3>4. SpoolerLocal(s, m, writer[m.task], file[m.task])
      BY <1>2, <3>2, <3>3 DEF SpoolerLocal
    <3> QED BY <1>4, <3>2, <3>3, <3>4
  <2>4. CASE OpenTask(s) /\ l.task \notin Linked
    <3> DEFINE m == NextFile(s)
    <3>1. "scan" \in Places
      BY DEF Places
    <3>2. m \in SpoolProcess /\ m.at = "scan" /\ m.leaked = l.leaked
      BY <1>1, <1>2, <3>1 DEF SpoolProcess, NextFile
    <3>3. spooler' = [spooler EXCEPT ![s] = m]
      BY <1>1, <2>4 DEF OpenTask, Skip
    <3> HIDE DEF m
    <3>4. SpoolerLocal(s, m, writer[m.task], file[m.task])
      BY <3>2 DEF SpoolerLocal
    <3> QED BY <1>4, <3>2, <3>3, <3>4
  <2>5. CASE RespawnSpooler(s)
    <3>1. Scanning \in SpoolProcess /\ Scanning.at = "scan" /\ ~Scanning.leaked
      BY DEF Scanning, SpoolProcess, Places
    <3>2. spooler' = [spooler EXCEPT ![s] = Scanning]
      BY <2>5 DEF RespawnSpooler
    <3>3. SpoolerLocal(s, Scanning, writer[Scanning.task], file[Scanning.task])
      BY <3>1 DEF SpoolerLocal
    <3> QED BY <1>4, <3>1, <3>2, <3>3
  <2> QED BY <2>1, <2>2, <2>3, <2>4, <2>5
<1> QED BY <1>1, <1>3, <1>4, SpoolerGoes

\* A spooler that locks, reads and closes files, and ends no task.
LEMMA SpoolerWorks ==
    ASSUME SpoolerInv, NEW s \in Spooler, UNCHANGED <<writer, finished, cut, trouble>>, Handles(s),
           NEW l, l = spooler[s], l.at = "done" => ~file'[l.task].linked,
           NEW m \in SpoolProcess, spooler' = [spooler EXCEPT ![s] = m],
           m.leaked => l.leaked \/ \E t \in Task : writer[t] = "killed" /\ file[t].content = "header",
           SpoolerLocal(s, m, writer[m.task], file'[m.task])
    PROVE SpoolerInv'
<1>1. /\ finished \in [Task -> 0..2] /\ cut \subseteq Task /\ trouble \in 0..MaxTrouble
      /\ \A t \in Task : finished[t] > 1 => t \in cut
  BY DEF SpoolerInv, SpoolerTypeOK, DoneTwiceOnlyByKill
<1> QED BY <1>1, SpoolerMoves

\* Where a spooler can go: on with the same task, or to the next file.
LEMMA SpoolerPlaces ==
    ASSUME SpoolerInv, NEW s \in Spooler, NEW l, l = spooler[s]
    PROVE /\ l \in SpoolProcess /\ SpoolerLocal(s, l, writer[l.task], file[l.task])
          /\ \A p \in Places : LET m == [l EXCEPT !.at = p] IN
                /\ m \in SpoolProcess /\ m.at = p /\ m.task = l.task /\ m.dirty = l.dirty
                /\ m.leaked = l.leaked
          /\ \A p : SpoolerAt(s, p) => spooler' = [spooler EXCEPT ![s] = [l EXCEPT !.at = p]]
          /\ NextFile(s) \in SpoolProcess /\ NextFile(s).at = "scan" /\ NextFile(s).leaked = l.leaked
<1>1. l \in SpoolProcess /\ SpoolerLocal(s, l, writer[l.task], file[l.task])
  BY DEF SpoolerInv, SpoolerTypeOK
<1>2. ASSUME NEW p \in Places
      PROVE LET m == [l EXCEPT !.at = p] IN
            /\ m \in SpoolProcess /\ m.at = p /\ m.task = l.task /\ m.dirty = l.dirty
            /\ m.leaked = l.leaked
  BY <1>1 DEF SpoolProcess
<1>3. \A p : SpoolerAt(s, p) => spooler' = [spooler EXCEPT ![s] = [l EXCEPT !.at = p]]
  BY DEF SpoolerAt
<1>4. "scan" \in Places
  BY DEF Places
<1>5. NextFile(s) \in SpoolProcess /\ NextFile(s).at = "scan" /\ NextFile(s).leaked = l.leaked
  BY <1>1, <1>4 DEF NextFile, SpoolProcess
<1> QED BY <1>1, <1>2, <1>3, <1>5

\* The lock is taken on a file whose writer is through with it.
LEMMA ReadHeaderStep ==
    ASSUME SpoolerInv, NEW s \in Spooler, ReadHeader(s)
    PROVE SpoolerInv'
<1> USE SpoolerAssumption
<1>1. PICK l : l = spooler[s]
  OBVIOUS
<1>2. /\ l \in SpoolProcess /\ SpoolerLocal(s, l, writer[l.task], file[l.task])
      /\ l.at = "opened" /\ UNCHANGED <<writer, finished, cut, trouble>>
  BY <1>1, SpoolerPlaces DEF ReadHeader
<1>3. PICK t \in Task : t = l.task
  BY <1>2 DEF SpoolerLocal
<1>4. PICK g : g = file[t]
  OBVIOUS
<1>5. /\ file \in [Task -> SpoolFile] /\ g \in SpoolFile /\ FileLocal(writer[t], g)
  BY <1>4 DEF SpoolerInv, SpoolerTypeOK
<1>6. CASE g.owner \in {Nobody, s} /\ t \in Linked /\ g.content # "empty"
  <2> DEFINE f == [g EXCEPT !.owner = s]
             m == [l EXCEPT !.at = "locked"]
  <2>1. /\ f \in SpoolFile /\ f.content = g.content /\ f.future = g.future
        /\ f.linked = g.linked /\ f.owner = s
    BY <1>5 DEF SpoolFile
  <2>2. file' = [file EXCEPT ![t] = f]
    BY <1>1, <1>3, <1>4, <1>6 DEF ReadHeader
  <2>3. spooler' = [spooler EXCEPT ![s] = m]
    BY <1>1, <1>3, <1>4, <1>6, SpoolerPlaces DEF ReadHeader
  <2>4. "locked" \in Places
    BY DEF Places
  <2>5. /\ m \in SpoolProcess /\ m.at = "locked" /\ m.task = l.task /\ m.dirty = l.dirty
        /\ m.leaked = l.leaked
    BY <1>1, <2>4, SpoolerPlaces
  <2> HIDE DEF f, m
  <2>6. Handles(s)
    BY <1>4, <1>5, <1>6, <2>1, <2>2 DEF Handles
  <2>7. file'[t] = f /\ g.linked
    BY <1>4, <1>5, <1>6, <2>2 DEF Linked
  <2>8. writer[t] \in {"closed", "killed"}
    <3>1. writer[t] \in Stages
      BY DEF SpoolerInv, SpoolerTypeOK
    <3> QED BY <1>5, <1>6, <2>7, <3>1 DEF Stages, FileLocal
  <2>9. SpoolerLocal(s, m, writer[m.task], file'[m.task])
    BY <1>2, <1>3, <1>4, <1>6, <2>1, <2>5, <2>7, <2>8 DEF SpoolerLocal
  <2> QED BY <1>1, <1>2, <2>3, <2>5, <2>6, <2>9, SpoolerWorks
<1>7. CASE ~(g.owner \in {Nobody, s} /\ t \in Linked /\ g.content # "empty")
  <2>1. file' = file /\ spooler' = [spooler EXCEPT ![s] = NextFile(s)]
    BY <1>1, <1>3, <1>4, <1>7 DEF ReadHeader, Skip
  <2>2. PICK m : m = NextFile(s)
    OBVIOUS
  <2>3. m \in SpoolProcess /\ m.at = "scan" /\ m.leaked = l.leaked
    BY <1>1, <2>2, SpoolerPlaces
  <2>4. SpoolerLocal(s, m, writer[m.task], file'[m.task])
    BY <2>3 DEF SpoolerLocal
  <2>5. Handles(s)
    BY <2>1, Unhandled
  <2> QED BY <1>1, <1>2, <2>1, <2>2, <2>3, <2>4, <2>5, SpoolerWorks
<1> QED BY <1>6, <1>7

\* A file without its arguments, which only a killed writer leaves, is closed;
\* one that has gone was such a file.
LEMMA ReadContentStep ==
    ASSUME SpoolerInv, NEW s \in Spooler, ReadContent(s)
    PROVE SpoolerInv'
<1> USE SpoolerAssumption
<1>1. PICK l : l = spooler[s]
  OBVIOUS
<1>2. /\ l \in SpoolProcess /\ SpoolerLocal(s, l, writer[l.task], file[l.task])
      /\ l.at = "locked" /\ UNCHANGED <<writer, finished, cut, trouble>>
  BY <1>1, SpoolerPlaces DEF ReadContent
<1>3. PICK t \in Task : t = l.task
  BY <1>2 DEF SpoolerLocal
<1>4. FileLocal(writer[t], file[t]) /\ writer[t] \in Stages /\ file \in [Task -> SpoolFile]
  BY DEF SpoolerInv, SpoolerTypeOK
<1>5. CASE t \notin Linked
  <2>0. PICK n \in SpoolProcess : n = NextFile(s) /\ n.at = "scan"
    BY <1>1, SpoolerPlaces
  <2> DEFINE m == [n EXCEPT !.leaked = TRUE]
  <2>1. file' = file /\ spooler' = [spooler EXCEPT ![s] = m]
    BY <1>1, <1>3, <1>5, <2>0 DEF ReadContent
  <2>2. m \in SpoolProcess /\ m.at = "scan"
    BY <2>0 DEF SpoolProcess
  <2> HIDE DEF m
  <2>3. writer[t] = "killed" /\ file[t].content = "header"
    BY <1>2, <1>3, <1>5 DEF SpoolerLocal, Linked
  <2>4. SpoolerLocal(s, m, writer[m.task], file'[m.task])
    BY <2>2 DEF SpoolerLocal
  <2>5. Handles(s)
    BY <2>1, Unhandled
  <2> QED BY <1>1, <1>2, <2>1, <2>2, <2>3, <2>4, <2>5, SpoolerWorks
<1>6. CASE t \in Linked /\ file[t].content = "header"
  <2> DEFINE m == [l EXCEPT !.at = "broken"]
  <2>1. file' = ClosedBy(s, t) /\ spooler' = [spooler EXCEPT ![s] = m]
    BY <1>1, <1>3, <1>6, SpoolerPlaces DEF ReadContent
  <2>2. Handles(s)
    BY <2>1, ClosingHandles
  <2>3. "broken" \in Places
    BY DEF Places
  <2>4. /\ m \in SpoolProcess /\ m.at = "broken" /\ m.task = l.task /\ m.dirty = l.dirty
        /\ m.leaked = l.leaked
    BY <1>1, <2>3, SpoolerPlaces
  <2> HIDE DEF m
  <2>5. writer[t] = "killed"
    BY <1>2, <1>3, <1>4, <1>6 DEF SpoolerLocal, FileLocal
  <2>6. /\ file'[t].content = file[t].content /\ file'[t].future = file[t].future
    BY <2>2 DEF Handles
  <2>7. SpoolerLocal(s, m, writer[m.task], file'[m.task])
    BY <1>2, <1>3, <1>6, <2>4, <2>5, <2>6 DEF SpoolerLocal
  <2> QED BY <1>1, <1>2, <2>1, <2>2, <2>4, <2>7, SpoolerWorks
<1>7. CASE t \in Linked /\ file[t].content # "header"
  <2> DEFINE m == [l EXCEPT !.at = "running"]
  <2>1. file' = file /\ spooler' = [spooler EXCEPT ![s] = m]
    BY <1>1, <1>3, <1>7, SpoolerPlaces DEF ReadContent
  <2>2. Handles(s)
    BY <2>1, Unhandled
  <2>3. "running" \in Places
    BY DEF Places
  <2>4. /\ m \in SpoolProcess /\ m.at = "running" /\ m.task = l.task /\ m.dirty = l.dirty
        /\ m.leaked = l.leaked
    BY <1>1, <2>3, SpoolerPlaces
  <2> HIDE DEF m
  <2>5. SpoolerLocal(s, m, writer[m.task], file'[m.task])
    BY <1>2, <1>3, <1>7, <2>1, <2>4 DEF SpoolerLocal, Linked
  <2> QED BY <1>1, <1>2, <2>1, <2>2, <2>4, <2>5, SpoolerWorks
<1> QED BY <1>5, <1>6, <1>7

\* A broken file is removed, or was already.
LEMMA DestroyBrokenStep ==
    ASSUME SpoolerInv, NEW s \in Spooler, DestroyBroken(s)
    PROVE SpoolerInv'
<1> USE SpoolerAssumption
<1>1. PICK l : l = spooler[s]
  OBVIOUS
<1>2. /\ l \in SpoolProcess /\ SpoolerLocal(s, l, writer[l.task], file[l.task])
      /\ l.at = "broken" /\ UNCHANGED <<writer, finished, cut, trouble>>
  BY <1>1, SpoolerPlaces DEF DestroyBroken
<1>3. PICK t \in Task : t = l.task
  BY <1>2 DEF SpoolerLocal
<1>4. PICK g : g = file[t]
  OBVIOUS
<1>5. file \in [Task -> SpoolFile] /\ g \in SpoolFile
  BY <1>4 DEF SpoolerInv, SpoolerTypeOK
<1>6. writer[t] = "killed" /\ g.content = "header"
  BY <1>2, <1>3, <1>4 DEF SpoolerLocal
<1> DEFINE f == [g EXCEPT !.linked = FALSE]
<1>7. file' = [file EXCEPT ![t] = f]
  BY <1>1, <1>3, <1>4 DEF DestroyBroken
<1>8. /\ f \in SpoolFile /\ f.content = g.content /\ f.future = g.future /\ f.owner = g.owner
      /\ ~f.linked
  BY <1>5 DEF SpoolFile
<1> HIDE DEF f
<1>9. Handles(s)
  BY <1>4, <1>5, <1>6, <1>7, <1>8 DEF Handles
<1>10. "dead" \in Places
  BY DEF Places
<1>11. PICK m : m = IF t \in Linked THEN NextFile(s) ELSE [l EXCEPT !.at = "dead"]
  OBVIOUS
<1>12. spooler' = [spooler EXCEPT ![s] = m]
  BY <1>1, <1>3, <1>11, SpoolerPlaces DEF DestroyBroken, Skip
<1>13. m \in SpoolProcess /\ m.at \in {"scan", "dead"} /\ m.leaked = l.leaked
  BY <1>1, <1>10, <1>11, SpoolerPlaces
<1>14. SpoolerLocal(s, m, writer[m.task], file'[m.task])
  BY <1>13 DEF SpoolerLocal
<1> QED BY <1>1, <1>2, <1>9, <1>12, <1>13, <1>14, SpoolerWorks

\* A task is done.  It was done before only if a kill came between: its file
\* is there, and no other spooler can be about to remove it.
LEMMA RunTaskStep ==
    ASSUME SpoolerInv, NEW s \in Spooler, RunTask(s)
    PROVE SpoolerInv'
<1> USE SpoolerAssumption
<1>1. PICK l : l = spooler[s]
  OBVIOUS
<1>2. /\ l \in SpoolProcess /\ SpoolerLocal(s, l, writer[l.task], file[l.task])
      /\ l.at = "running" /\ UNCHANGED <<writer, file, cut, trouble>>
  BY <1>1, SpoolerPlaces DEF RunTask
<1>3. PICK t \in Task : t = l.task
  BY <1>2 DEF SpoolerLocal
<1>4. /\ finished \in [Task -> 0..2] /\ cut \subseteq Task /\ trouble \in 0..MaxTrouble
      /\ \A u \in Task : finished[u] > 1 => u \in cut
      /\ DoneIsRemoved
      /\ \A r \in Spooler :
            SpoolerLocal(r, spooler[r], writer[spooler[r].task], file[spooler[r].task])
  BY DEF SpoolerInv, SpoolerTypeOK, DoneTwiceOnlyByKill
<1>5. finished' = [finished EXCEPT ![t] = IF @ < 2 THEN @ + 1 ELSE @]
  BY <1>1, <1>3 DEF RunTask
<1>6. finished' \in [Task -> 0..2] /\ \A u \in Task : u # t => finished'[u] = finished[u]
  BY <1>4, <1>5
<1>7. finished[t] > 0 => t \in cut
  <2>1. file[t].linked /\ file[t].owner = s
    BY <1>2, <1>3 DEF SpoolerLocal
  <2>2. ASSUME NEW r \in Spooler, spooler[r].at = "done", spooler[r].task = t PROVE FALSE
    <3>1. file[t].owner = r
      BY <1>4, <2>2 DEF SpoolerLocal
    <3> QED BY <1>1, <1>2, <2>1, <2>2, <3>1
  <2> QED BY <1>4, <2>1, <2>2 DEF DoneIsRemoved
<1>8. \A u \in Task : finished'[u] > 1 => u \in cut
  BY <1>4, <1>5, <1>6, <1>7
<1> DEFINE m == [l EXCEPT !.at = "done"]
<1>9. "done" \in Places
  BY DEF Places
<1>10. /\ m \in SpoolProcess /\ m.at = "done" /\ m.task = l.task /\ m.dirty = l.dirty
       /\ m.leaked = l.leaked
  BY <1>1, <1>9, SpoolerPlaces
<1>11. spooler' = [spooler EXCEPT ![s] = m]
  BY <1>1, SpoolerPlaces DEF RunTask
<1> HIDE DEF m
<1>12. Handles(s)
  BY <1>2, Unhandled
<1>13. SpoolerLocal(s, m, writer[m.task], file'[m.task])
  BY <1>2, <1>3, <1>10 DEF SpoolerLocal
<1>14. \A u \in Task : \/ finished'[u] = finished[u]
                       \/ l.at = "running" /\ m.at = "done" /\ m.task = u
  BY <1>2, <1>3, <1>6, <1>10
<1>15. /\ writer' = writer /\ l.at # "done" /\ cut' \subseteq Task /\ cut \subseteq cut'
       /\ trouble' \in 0..MaxTrouble /\ \A u \in Task : finished'[u] > 1 => u \in cut'
       /\ m \in SpoolProcess /\ m.leaked = l.leaked /\ finished' \in [Task -> 0..2]
  BY <1>2, <1>4, <1>6, <1>8, <1>10
<1> QED BY <1>1, <1>11, <1>12, <1>13, <1>14, <1>15, SpoolerMoves

\* A task is to run again.
LEMMA RetryTaskStep ==
    ASSUME SpoolerInv, NEW s \in Spooler, RetryTask(s)
    PROVE SpoolerInv'
<1> USE SpoolerAssumption
<1>1. PICK l : l = spooler[s]
  OBVIOUS
<1>2. /\ l \in SpoolProcess /\ SpoolerLocal(s, l, writer[l.task], file[l.task])
      /\ l.at = "running" /\ UNCHANGED <<writer, file, finished, cut>>
  BY <1>1, SpoolerPlaces DEF RetryTask
<1>3. /\ finished \in [Task -> 0..2] /\ cut \subseteq Task
      /\ \A u \in Task : finished[u] > 1 => u \in cut
      /\ trouble' \in 0..MaxTrouble
  BY DEF SpoolerInv, SpoolerTypeOK, DoneTwiceOnlyByKill, RetryTask
<1> DEFINE m == [l EXCEPT !.at = "close"]
<1>4. "close" \in Places
  BY DEF Places
<1>5. /\ m \in SpoolProcess /\ m.at = "close" /\ m.task = l.task /\ m.dirty = l.dirty
      /\ m.leaked = l.leaked
  BY <1>1, <1>4, SpoolerPlaces
<1>6. spooler' = [spooler EXCEPT ![s] = m]
  BY <1>1, SpoolerPlaces DEF RetryTask
<1> HIDE DEF m
<1>7. Handles(s)
  BY <1>2, Unhandled
<1>8. SpoolerLocal(s, m, writer[m.task], file'[m.task])
  BY <1>2, <1>5 DEF SpoolerLocal
<1> QED BY <1>1, <1>2, <1>3, <1>5, <1>6, <1>7, <1>8, SpoolerMoves

\* The file of a task that is done is removed: it is there.
LEMMA DestroyStep ==
    ASSUME SpoolerInv, NEW s \in Spooler, Destroy(s)
    PROVE SpoolerInv'
<1> USE SpoolerAssumption
<1>1. PICK l : l = spooler[s]
  OBVIOUS
<1>2. /\ l \in SpoolProcess /\ SpoolerLocal(s, l, writer[l.task], file[l.task])
      /\ l.at = "done" /\ UNCHANGED <<writer, finished, cut, trouble>>
  BY <1>1, SpoolerPlaces DEF Destroy
<1>3. PICK t \in Task : t = l.task
  BY <1>2 DEF SpoolerLocal
<1>4. PICK g : g = file[t]
  OBVIOUS
<1>5. file \in [Task -> SpoolFile] /\ g \in SpoolFile
  BY <1>4 DEF SpoolerInv, SpoolerTypeOK
<1>6. t \in Linked /\ g.owner = s
  BY <1>2, <1>3, <1>4 DEF SpoolerLocal, Linked
<1> DEFINE f == [g EXCEPT !.linked = FALSE]
           m == [l EXCEPT !.at = "close"]
<1>7. /\ f \in SpoolFile /\ f.content = g.content /\ f.future = g.future /\ f.owner = g.owner
      /\ ~f.linked /\ f = [g EXCEPT !.linked = FALSE, !.owner = g.owner]
  BY <1>5 DEF SpoolFile
<1>8. file' = [file EXCEPT ![t] = f]
  BY <1>1, <1>3, <1>4, <1>5, <1>6, <1>7 DEF Destroy
<1>9. spooler' = [spooler EXCEPT ![s] = m]
  BY <1>1, <1>3, <1>6, SpoolerPlaces DEF Destroy
<1>10. "close" \in Places
  BY DEF Places
<1>11. /\ m \in SpoolProcess /\ m.at = "close" /\ m.task = l.task /\ m.dirty = l.dirty
       /\ m.leaked = l.leaked
  BY <1>1, <1>10, SpoolerPlaces
<1> HIDE DEF f, m
<1>12. Handles(s)
  BY <1>4, <1>5, <1>6, <1>7, <1>8 DEF Handles
<1>13. file'[t] = f
  BY <1>5, <1>8
<1>14. SpoolerLocal(s, m, writer[m.task], file'[m.task])
  BY <1>2, <1>3, <1>4, <1>6, <1>7, <1>11, <1>13 DEF SpoolerLocal
<1>15. ~file'[l.task].linked
  BY <1>3, <1>7, <1>13
<1> QED BY <1>1, <1>2, <1>9, <1>11, <1>12, <1>14, <1>15, SpoolerWorks

\* The file is closed.
LEMMA CloseTaskStep ==
    ASSUME SpoolerInv, NEW s \in Spooler, CloseTask(s)
    PROVE SpoolerInv'
<1> USE SpoolerAssumption
<1>1. PICK l : l = spooler[s]
  OBVIOUS
<1>2. /\ l \in SpoolProcess /\ SpoolerLocal(s, l, writer[l.task], file[l.task])
      /\ l.at = "close" /\ UNCHANGED <<writer, finished, cut, trouble>>
  BY <1>1, SpoolerPlaces DEF CloseTask
<1>3. PICK t \in Task : t = l.task
  BY <1>2 DEF SpoolerLocal
<1>4. file' = ClosedBy(s, t)
  BY <1>1, <1>3 DEF CloseTask
<1>5. Handles(s)
  BY <1>4, ClosingHandles
<1>6. "dead" \in Places
  BY DEF Places
<1>7. PICK m \in {NextFile(s), [l EXCEPT !.at = "dead"]} : spooler' = [spooler EXCEPT ![s] = m]
  BY <1>1, SpoolerPlaces DEF CloseTask, Skip
<1>8. m \in SpoolProcess /\ m.at \in {"scan", "dead"} /\ m.leaked = l.leaked
  <2>1. CASE m = NextFile(s)
    BY <1>1, <2>1, SpoolerPlaces
  <2>2. CASE m = [l EXCEPT !.at = "dead"]
    BY <1>1, <1>6, <2>2, SpoolerPlaces
  <2> QED BY <1>7, <2>1, <2>2
<1>9. SpoolerLocal(s, m, writer[m.task], file'[m.task])
  BY <1>8 DEF SpoolerLocal
<1> QED BY <1>1, <1>2, <1>5, <1>7, <1>8, <1>9, SpoolerWorks

\* A spooler is killed, and its locks are gone.
LEMMA SpoolerKilledStep ==
    ASSUME SpoolerInv, NEW s \in Spooler, SpoolerKilled(s)
    PROVE SpoolerInv'
<1> USE SpoolerAssumption
<1>1. PICK l : l = spooler[s]
  OBVIOUS
<1>2. /\ l \in SpoolProcess /\ SpoolerLocal(s, l, writer[l.task], file[l.task])
      /\ UNCHANGED <<writer, finished>>
  BY <1>1, SpoolerPlaces DEF SpoolerKilled
<1>3. /\ finished \in [Task -> 0..2] /\ cut \subseteq Task
      /\ \A u \in Task : finished[u] > 1 => u \in cut
      /\ trouble' \in 0..MaxTrouble
      /\ file \in [Task -> SpoolFile]
  BY DEF SpoolerInv, SpoolerTypeOK, DoneTwiceOnlyByKill, SpoolerKilled
<1>4. /\ cut' \subseteq Task /\ cut \subseteq cut' /\ (l.at = "done" => l.task \in cut')
  BY <1>1, <1>2, <1>3 DEF SpoolerKilled, SpoolerLocal
<1>5. ASSUME NEW t \in Task
      PROVE /\ file'[t] \in SpoolFile
            /\ file'[t].content = file[t].content /\ file'[t].future = file[t].future
            /\ file'[t].linked = file[t].linked
            /\ \/ file'[t].owner = file[t].owner
               \/ file[t].owner \in {s, Nobody} /\ file'[t].owner \in {s, Nobody}
  <2>1. PICK g \in SpoolFile : g = file[t]
    BY <1>3
  <2>2. PICK o : o = IF g.owner = s THEN Nobody ELSE g.owner
    OBVIOUS
  <2>3. file'[t] = [g EXCEPT !.owner = o]
    BY <1>3, <2>1, <2>2 DEF SpoolerKilled, ClosedBy
  <2> QED BY <2>1, <2>2, <2>3 DEF SpoolFile
<1>6. Handles(s)
  <2>1. file' = [t \in Task |-> file'[t]]
    BY DEF SpoolerKilled
  <2> QED BY <1>5, <2>1 DEF Handles
<1> DEFINE m == [l EXCEPT !.at = "dead"]
<1>7. "dead" \in Places
  BY DEF Places
<1>8. m \in SpoolProcess /\ m.at = "dead" /\ m.leaked = l.leaked
  BY <1>1, <1>7, SpoolerPlaces
<1>9. spooler' = [spooler EXCEPT ![s] = m]
  BY <1>1, SpoolerPlaces DEF SpoolerKilled
<1> HIDE DEF m
<1>10. SpoolerLocal(s, m, writer[m.task], file'[m.task])
  BY <1>8 DEF SpoolerLocal
<1> QED BY <1>1, <1>2, <1>3, <1>4, <1>6, <1>8, <1>9, <1>10, SpoolerMoves

\* Every step of the spooler keeps its invariant.
LEMMA SpoolerSteps == SpoolerInv /\ [SpoolerNext]_spoolerVars => SpoolerInv'
<1> SUFFICES ASSUME SpoolerInv, [SpoolerNext]_spoolerVars PROVE SpoolerInv'
  OBVIOUS
<1>1. CASE UNCHANGED spoolerVars
  BY <1>1 DEF spoolerVars, SpoolerInv, SpoolerTypeOK, DoneTwiceOnlyByKill, DoneIsRemoved
<1>2. ASSUME NEW t \in Task, WriterStep(t) \/ WriterKilled(t) \/ Due(t) PROVE SpoolerInv'
  BY <1>2, WriterSteps, DueStep
<1>3. ASSUME NEW s \in Spooler, SpoolerStep(s) \/ SpoolerKilled(s) PROVE SpoolerInv'
  BY <1>3, ScanSteps, ReadHeaderStep, ReadContentStep, DestroyBrokenStep, RunTaskStep,
     RetryTaskStep, DestroyStep, CloseTaskStep, SpoolerKilledStep DEF SpoolerStep
<1> QED BY <1>1, <1>2, <1>3 DEF SpoolerNext

------------------------------------------------------------------------------
(* The Legion.                                                              *)

\* A finite set of numbers has a greatest one: otherwise one of its smallest
\* subsets without a greatest one would lose a member and have one.
LEMMA GreatestExists ==
    ASSUME NEW S \in SUBSET Nat, IsFiniteSet(S), S # {}
    PROVE \E x \in S : \A y \in S : y =< x
<1> DEFINE R == StrictSubsetOrdering(S)
           B == {T \in SUBSET S : T # {} /\ ~ \E x \in T : \A y \in T : y =< x}
<1>1. IsWellFoundedOn(R, SUBSET S)
  BY FS_StrictSubsetOrderingWellFounded, FS_FiniteSubsetsOfFinite
<1>2. \A T, U \in SUBSET S : T \subseteq U /\ T # U => <<T, U>> \in R
  BY DEF StrictSubsetOrdering
<1>3. SUFFICES ASSUME B # {} PROVE FALSE
  OBVIOUS
<1>4. B \subseteq SUBSET S
  OBVIOUS
<1>5. PICK T \in B : \A U \in B : ~ (<<U, T>> \in R)
  <2> HIDE DEF B, R
  <2> QED BY <1>1, <1>3, <1>4, WFMin
<1>6. PICK e \in T : TRUE
  OBVIOUS
<1>7. T \ {e} \notin B /\ T \in SUBSET S
  <2>1. T \ {e} \subseteq T /\ T \ {e} # T /\ T \ {e} \in SUBSET S /\ T \in SUBSET S
    BY <1>6
  <2>2. <<T \ {e}, T>> \in R
    BY <1>2, <2>1
  <2> QED BY <1>5, <2>1, <2>2
<1>8. CASE T \ {e} = {}
  <2>1. T = {e} /\ e \in Nat
    BY <1>6, <1>7, <1>8
  <2> QED BY <1>5, <2>1
<1>9. CASE T \ {e} # {}
  <2>1. PICK x \in T \ {e} : \A y \in T \ {e} : y =< x
    BY <1>7, <1>9
  <2>2. x \in Nat /\ e \in Nat /\ \A y \in T : y \in Nat
    BY <1>6, <1>7, <2>1
  <2>3. CASE e =< x
    BY <1>5, <2>1, <2>3
  <2>4. CASE ~(e =< x)
    <3>1. \A y \in T : y =< e
      BY <2>1, <2>2, <2>4
    <3> QED BY <1>5, <1>6, <3>1
  <2> QED BY <2>3, <2>4
<1> QED BY <1>8, <1>9

\* Best is the greatest of the nodes in sight that are no arbiters.
LEMMA BestIs ==
    ASSUME NEW m \in Member, NEW n, DOMAIN n.known \subseteq Member
    PROVE /\ Best(m, n) \in {m} \cup DOMAIN n.known
          /\ \A x \in ({m} \cup DOMAIN n.known) \ Arbiter : x =< Best(m, n)
<1> DEFINE able == ({m} \cup DOMAIN n.known) \ Arbiter
<1>1. able \in SUBSET Nat /\ IsFiniteSet(able)
  <2>1. able \subseteq Member /\ Member \subseteq Nat /\ IsFiniteSet(Member)
    BY LegionAssumption
  <2> HIDE DEF able
  <2> QED BY <2>1, FS_Subset
<1>2. CASE able = {}
  <2>1. Best(m, n) = m
    BY <1>2 DEF Best
  <2> QED BY <1>2, <2>1
<1>3. CASE able # {}
  <2>1. \E x \in able : \A y \in able : y =< x
    <3> HIDE DEF able
    <3> QED BY <1>1, <1>3, GreatestExists
  <2>2. Best(m, n) = CHOOSE x \in able : \A y \in able : y =< x
    BY <1>3 DEF Best
  <2>3. Best(m, n) \in able /\ \A y \in able : y =< Best(m, n)
    BY <2>1, <2>2
  <2> QED BY <2>3
<1> QED BY <1>2, <1>3

\* What an announcement says, and what a node is told by the others.
Knowledge == UNION {[K -> Announced] : K \in SUBSET Member}

LEMMA KnowledgeIs ==
    ASSUME NEW f
    PROVE f \in Knowledge <=>
            /\ f = [k \in DOMAIN f |-> f[k]] /\ DOMAIN f \subseteq Member
            /\ \A k \in DOMAIN f : f[k] \in Announced
<1>1. ASSUME f \in Knowledge
      PROVE /\ f = [k \in DOMAIN f |-> f[k]] /\ DOMAIN f \subseteq Member
            /\ \A k \in DOMAIN f : f[k] \in Announced
  <2>1. PICK K \in SUBSET Member : f \in [K -> Announced]
    BY <1>1 DEF Knowledge
  <2> QED BY <2>1
<1>2. ASSUME f = [k \in DOMAIN f |-> f[k]], DOMAIN f \subseteq Member,
             \A k \in DOMAIN f : f[k] \in Announced
      PROVE f \in Knowledge
  <2>1. f \in [DOMAIN f -> Announced]
    BY <1>2
  <2> QED BY <1>2, <2>1 DEF Knowledge
<1> QED BY <1>1, <1>2

\* The record of a node.
LEMMA LegionRecord ==
    LegionNode = [up: BOOLEAN, is_lord: BOOLEAN, dead: BOOLEAN, suspended: BOOLEAN,
                  chk: SUBSET Member, lord: Member \cup {None}, known: Knowledge]
BY DEF LegionNode, Knowledge

\* A node that is told K.
LEMMA ToldFields ==
    ASSUME NEW n \in LegionNode, NEW K \in Knowledge
    PROVE LET t == [n EXCEPT !.known = K] IN
          /\ t \in LegionNode /\ t.known = K /\ t.up = n.up /\ t.is_lord = n.is_lord
          /\ t.dead = n.dead /\ t.suspended = n.suspended /\ t.chk = n.chk /\ t.lord = n.lord
BY LegionRecord

\* What step 2 of a turn makes of a node n.
LEMMA Step2Fields ==
    ASSUME NEW m \in Member, NEW n \in LegionNode, NEW w, NEW t, t = Step2(m, n, w)
    PROVE /\ t \in LegionNode /\ t.known = n.known /\ t.up = n.up /\ t.dead = n.dead
          /\ t.suspended = n.suspended /\ t.chk = {m} \cup DOMAIN n.known /\ t.lord = Best(m, n)
          /\ HasQuorum(m, n) => (t.is_lord <=> Candidate(m, n))
          /\ ~HasQuorum(m, n) => (t.is_lord => n.is_lord)
<1>1. n.known \in Knowledge /\ n.is_lord \in BOOLEAN
  BY LegionRecord
<1>2. DOMAIN n.known \subseteq Member
  BY <1>1, KnowledgeIs
<1>3. PICK b \in Member : b = Best(m, n)
  BY <1>2, BestIs
<1>4. PICK v \in SUBSET Member : v = {m} \cup DOMAIN n.known
  BY <1>2
<1>5. PICK l \in BOOLEAN : l = IF HasQuorum(m, n) THEN Candidate(m, n)
                               ELSE n.is_lord /\ (Counted(m, n) = 0 \/ ~w)
  BY <1>1 DEF Candidate
<1>6. Step2(m, n, w) = [n EXCEPT !.chk = v, !.lord = b, !.is_lord = l]
  BY <1>3, <1>4, <1>5 DEF Step2
<1>7. t = [n EXCEPT !.chk = v, !.lord = b, !.is_lord = l]
  BY <1>6
<1>8. /\ t \in LegionNode /\ t.known = n.known /\ t.up = n.up /\ t.dead = n.dead
      /\ t.suspended = n.suspended /\ t.chk = v /\ t.lord = b /\ t.is_lord = l
  BY <1>7, LegionRecord
<1>9. /\ HasQuorum(m, n) => (t.is_lord <=> Candidate(m, n))
      /\ ~HasQuorum(m, n) => (t.is_lord => n.is_lord)
  BY <1>1, <1>5, <1>8
<1> QED BY <1>3, <1>4, <1>8, <1>9

\* Two sets of which one has the other.
Nested(S, T) == S \subseteq T \/ T \subseteq S

\* Without faults a node only learns of others.  Its checksum is part of what
\* it knows, its vote is as good as any node in it, and of two announcements
\* of a node one contains the other and the node's present one contains both.
Learns ==
    /\ \A m \in Member :
        /\ node[m].up /\ ~node[m].dead /\ ~node[m].suspended
        /\ node[m].chk \subseteq {m} \cup DOMAIN node[m].known
        /\ \A x \in node[m].chk \ Arbiter : node[m].lord \in Member /\ x =< node[m].lord
        /\ \A k \in DOMAIN node[m].known : node[m].known[k].chk \subseteq node[k].chk
    /\ \A m, q \in Member : \A k \in DOMAIN node[m].known \cap DOMAIN node[q].known :
        Nested(node[m].known[k].chk, node[q].known[k].chk)

\* The view V[a] that made a the Lord: a quorum of nodes, none of them better
\* than a, that all have got to that view.
Elected(V) ==
    \A a \in Member : node[a].is_lord =>
        /\ Cardinality(V[a]) >= Quorum /\ a \in V[a] /\ a \notin Arbiter
        /\ \A x \in V[a] \ Arbiter : x =< a
        /\ \A k \in V[a] :
            /\ V[a] \subseteq node[k].chk
            /\ \A m \in Member : k \in DOMAIN node[m].known => Nested(node[m].known[k].chk, V[a])
            /\ \A b \in Member : node[b].is_lord /\ k \in V[b] => Nested(V[a], V[b])

LegionInv ==
    /\ LegionTypeOK
    /\ faults = 0 => Learns /\ \E V \in [Member -> SUBSET Member] : Elected(V)

\* The Legion starts with nodes that know nobody.
LEMMA LegionStarts == LegionInit => LegionInv
<1> SUFFICES ASSUME LegionInit PROVE LegionInv
  OBVIOUS
<1>1. PICK e : e = [m \in {} |-> None]
  OBVIOUS
<1>2. DOMAIN e = {} /\ e \in Knowledge
  BY <1>1, KnowledgeIs
<1>3. \A n \in Member :
        node[n] = [up |-> TRUE, known |-> e, chk |-> {}, lord |-> None,
                   is_lord |-> FALSE, dead |-> FALSE, suspended |-> FALSE]
  BY <1>1 DEF LegionInit
<1>4. \A n \in Member : node[n] \in LegionNode
  <2>1. PICK r : r = [up |-> TRUE, known |-> e, chk |-> {}, lord |-> None,
                      is_lord |-> FALSE, dead |-> FALSE, suspended |-> FALSE]
    OBVIOUS
  <2>2. PICK c \in SUBSET Member : c = {}
    OBVIOUS
  <2>3. PICK l \in Member \cup {None} : l = None
    OBVIOUS
  <2>4. r = [up |-> TRUE, known |-> e, chk |-> c, lord |-> l,
             is_lord |-> FALSE, dead |-> FALSE, suspended |-> FALSE]
    BY <2>1, <2>2, <2>3
  <2>5. r \in LegionNode
    BY <1>2, <2>4, LegionRecord
  <2> QED BY <1>3, <2>1, <2>5
<1>5. \A n \in Member : /\ node[n].known = e /\ node[n].chk = {} /\ node[n].up
                        /\ ~node[n].is_lord /\ ~node[n].dead /\ ~node[n].suspended
  BY <1>3
<1>6. LegionTypeOK
  <2>1. node \in [Member -> LegionNode]
    BY <1>4 DEF LegionInit
  <2>2. faults \in 0..MaxFaults
    BY LegionAssumption DEF LegionInit
  <2> QED BY <1>2, <1>5, <2>1, <2>2 DEF LegionTypeOK
<1>7. Learns
  BY <1>2, <1>5 DEF Learns
<1>8. Elected([m \in Member |-> {}])
  BY <1>5 DEF Elected
<1> QED BY <1>6, <1>7, <1>8 DEF LegionInv

\* A turn of m without faults: m has learned K, and step 2 follows.
LEMMA LearningTurn ==
    ASSUME LegionTypeOK, Learns, NEW V \in [Member -> SUBSET Member], Elected(V),
           NEW m \in Member, NEW n \in LegionNode, NEW w,
           n.up = TRUE, n.dead = FALSE, n.suspended = FALSE, n.is_lord = node[m].is_lord, m \notin DOMAIN n.known,
           DOMAIN node[m].known \subseteq DOMAIN n.known,
           \A k \in DOMAIN n.known :
              \/ k \in DOMAIN node[m].known /\ n.known[k] = node[m].known[k]
              \/ n.known[k].chk = node[k].chk,
           node' = [node EXCEPT ![m] = Step2(m, n, w)]
    PROVE Learns' /\ \E U \in [Member -> SUBSET Member] : Elected(U)'
<1>0. n.known \in Knowledge /\ DOMAIN n.known \subseteq Member
  BY LegionRecord, KnowledgeIs
<1>1. PICK t : t = Step2(m, n, w)
  OBVIOUS
<1>2. /\ t \in LegionNode /\ t.known = n.known /\ t.up = n.up /\ t.dead = n.dead
      /\ t.suspended = n.suspended /\ t.chk = {m} \cup DOMAIN n.known /\ t.lord = Best(m, n)
      /\ HasQuorum(m, n) => (t.is_lord <=> Candidate(m, n))
      /\ ~HasQuorum(m, n) => (t.is_lord => n.is_lord)
  <2>1. t \in LegionNode /\ t.known = n.known /\ t.up = n.up /\ t.dead = n.dead
    BY <1>1, Step2Fields
  <2>2. t.suspended = n.suspended /\ t.chk = {m} \cup DOMAIN n.known /\ t.lord = Best(m, n)
    BY <1>1, Step2Fields
  <2>3. HasQuorum(m, n) => (t.is_lord <=> Candidate(m, n))
    BY <1>1, Step2Fields
  <2>4. ~HasQuorum(m, n) => (t.is_lord => n.is_lord)
    BY <1>1, Step2Fields
  <2> QED BY <2>1, <2>2, <2>3, <2>4
<1>3. PICK view \in SUBSET Member : view = {m} \cup DOMAIN n.known
  BY <1>0
<1>4. node'[m] = t /\ \A q \in Member : q # m => node'[q] = node[q]
  BY <1>1 DEF LegionTypeOK
<1>5. t.lord \in Member /\ \A x \in view \ Arbiter : x =< t.lord
  BY <1>0, <1>2, <1>3, BestIs
<1>6. node[m].chk \subseteq view
  BY <1>3 DEF Learns
<1>7. \A k \in Member : node[k].chk \subseteq node'[k].chk
  BY <1>2, <1>3, <1>4, <1>6
<1>8. \A k \in DOMAIN n.known : k \in Member /\ k # m /\ n.known[k].chk \subseteq node[k].chk
  BY <1>0 DEF Learns
<1>9. \A q \in Member : \A k \in DOMAIN n.known \cap DOMAIN node[q].known :
         Nested(n.known[k].chk, node[q].known[k].chk)
  BY <1>8 DEF Learns, Nested
<1>10. Learns'
  <2>1. ASSUME NEW q \in Member
        PROVE /\ node'[q].up /\ ~node'[q].dead /\ ~node'[q].suspended
              /\ node'[q].chk \subseteq {q} \cup DOMAIN node'[q].known
              /\ \A x \in node'[q].chk \ Arbiter : node'[q].lord \in Member /\ x =< node'[q].lord
              /\ \A k \in DOMAIN node'[q].known : node'[q].known[k].chk \subseteq node'[k].chk
    <3>1. CASE q = m
      <4>1. node'[q] = t
        BY <1>4, <3>1
      <4>2. t.up /\ ~t.dead /\ ~t.suspended
        BY <1>2
      <4>3. t.chk \subseteq {q} \cup DOMAIN t.known
        BY <1>2, <3>1
      <4>4. \A x \in t.chk \ Arbiter : t.lord \in Member /\ x =< t.lord
        BY <1>2, <1>3, <1>5
      <4>5. \A k \in DOMAIN t.known : t.known[k].chk \subseteq node'[k].chk
        BY <1>2, <1>7, <1>8
      <4> QED BY <4>1, <4>2, <4>3, <4>4, <4>5
    <3>2. CASE q # m
      <4>1. DOMAIN node[q].known \subseteq Member
        <5>1. node[q] \in LegionNode
          BY DEF LegionTypeOK
        <5>2. node[q].known \in Knowledge
          BY <5>1, LegionRecord
        <5> QED BY <5>2, KnowledgeIs
      <4> QED BY <1>4, <1>7, <3>2, <4>1 DEF Learns
    <3> QED BY <3>1, <3>2
  <2>2. ASSUME NEW p \in Member, NEW q \in Member,
               NEW k \in DOMAIN node'[p].known \cap DOMAIN node'[q].known
        PROVE Nested(node'[p].known[k].chk, node'[q].known[k].chk)
    <3>1. CASE p = m /\ q = m
      BY <3>1 DEF Nested
    <3>2. CASE p = m /\ q # m
      BY <1>2, <1>4, <1>9, <2>2, <3>2
    <3>3. CASE p # m /\ q = m
      BY <1>2, <1>4, <1>9, <2>2, <3>3 DEF Nested
    <3>4. CASE p # m /\ q # m
      BY <1>4, <2>2, <3>4 DEF Learns
    <3> QED BY <3>1, <3>2, <3>3, <3>4
  <2> QED BY <2>1, <2>2 DEF Learns
\* The views of the Lords there were stand to the new state as they did.
<1>11. ASSUME NEW a \in Member, node[a].is_lord
       PROVE /\ Cardinality(V[a]) >= Quorum /\ a \in V[a] /\ a \notin Arbiter
             /\ \A x \in V[a] \ Arbiter : x =< a
             /\ V[a] \subseteq Member
             /\ \A k \in V[a] :
                 /\ V[a] \subseteq node[k].chk /\ V[a] \subseteq node'[k].chk
                 /\ k \in DOMAIN n.known => Nested(n.known[k].chk, V[a])
                 /\ \A q \in Member :
                      k \in DOMAIN node'[q].known => Nested(node'[q].known[k].chk, V[a])
                 /\ \A b \in Member : node[b].is_lord /\ k \in V[b] => Nested(V[a], V[b])
  <2>1. V[a] \subseteq Member
    OBVIOUS
  <2>2. /\ Cardinality(V[a]) >= Quorum /\ a \in V[a] /\ a \notin Arbiter
        /\ \A x \in V[a] \ Arbiter : x =< a
    BY <1>11 DEF Elected
  <2>3. ASSUME NEW k \in V[a]
        PROVE /\ V[a] \subseteq node[k].chk /\ V[a] \subseteq node'[k].chk
              /\ k \in DOMAIN n.known => Nested(n.known[k].chk, V[a])
              /\ \A q \in Member :
                   k \in DOMAIN node'[q].known => Nested(node'[q].known[k].chk, V[a])
              /\ \A b \in Member : node[b].is_lord /\ k \in V[b] => Nested(V[a], V[b])
    <3>1. /\ V[a] \subseteq node[k].chk
          /\ \A q \in Member : k \in DOMAIN node[q].known => Nested(node[q].known[k].chk, V[a])
          /\ \A b \in Member : node[b].is_lord /\ k \in V[b] => Nested(V[a], V[b])
      BY <1>11, <2>3 DEF Elected
    <3>2. V[a] \subseteq node'[k].chk
      BY <1>7, <2>1, <3>1
    <3>3. k \in DOMAIN n.known => Nested(n.known[k].chk, V[a])
      BY <3>1 DEF Nested
    <3>4. \A q \in Member : k \in DOMAIN node'[q].known => Nested(node'[q].known[k].chk, V[a])
      BY <1>2, <1>4, <3>1, <3>3
    <3> QED BY <3>1, <3>2, <3>3, <3>4
  <2> QED BY <2>1, <2>2, <2>3
<1>12. CASE ~(HasQuorum(m, n) /\ Candidate(m, n))
  <2>1. \A a \in Member : node'[a].is_lord => node[a].is_lord
    BY <1>2, <1>4, <1>12
  <2>2. Elected(V)'
    BY <1>11, <2>1 DEF Elected
  <2> QED BY <1>10, <2>2
<1>13. CASE HasQuorum(m, n) /\ Candidate(m, n)
  <2> DEFINE U == [V EXCEPT ![m] = view]
  <2>1. U \in [Member -> SUBSET Member] /\ U[m] = view /\ \A a \in Member : a # m => U[a] = V[a]
    OBVIOUS
  <2> HIDE DEF U
  <2>2. \A a \in Member : a # m /\ node'[a].is_lord => node[a].is_lord
    BY <1>4
  <2>3. Best(m, n) = m /\ m \notin Arbiter
    BY <1>13 DEF Candidate
  <2>4. Cardinality(view) >= Quorum /\ \A k \in DOMAIN n.known : n.known[k].chk = view
    <3>1. PICK v : v = IF Best(m, n) # m \/ (m \notin Arbiter /\ ~n.suspended) THEN Best(m, n) ELSE None
      OBVIOUS
    <3>2. Counted(m, n) = IF \A k \in DOMAIN n.known : n.known[k] = [chk |-> view, lord |-> v]
                          THEN Cardinality(view) ELSE 0
      BY <1>3, <3>1 DEF Counted
    <3>3. Counted(m, n) > 0 /\ Counted(m, n) >= Quorum
      BY <1>13 DEF HasQuorum
    <3>4. \A k \in DOMAIN n.known : n.known[k] = [chk |-> view, lord |-> v]
      BY <3>2, <3>3
    <3> QED BY <3>2, <3>3, <3>4
  <2>5. \A x \in view \ Arbiter : x =< m
    BY <1>2, <1>5, <2>3
  <2>6. ASSUME NEW k \in view
        PROVE /\ view \subseteq node'[k].chk
              /\ \A q \in Member :
                   k \in DOMAIN node'[q].known => Nested(node'[q].known[k].chk, view)
    <3>1. CASE k = m
      <4>1. ASSUME NEW q \in Member, k \in DOMAIN node'[q].known
            PROVE Nested(node'[q].known[k].chk, view)
        <5>1. q # m
          BY <1>2, <1>4, <3>1, <4>1
        <5>2. node[q].known[k].chk \subseteq node[m].chk
          BY <1>4, <3>1, <4>1, <5>1 DEF Learns
        <5> QED BY <1>4, <1>6, <5>1, <5>2 DEF Nested
      <4> QED BY <1>2, <1>3, <1>4, <3>1, <4>1
    <3>2. CASE k # m
      <4>1. k \in DOMAIN n.known
        BY <1>3, <2>6, <3>2
      <4>2. view \subseteq node'[k].chk
        BY <1>7, <1>8, <2>4, <4>1
      <4>3. ASSUME NEW q \in Member, k \in DOMAIN node'[q].known
            PROVE Nested(node'[q].known[k].chk, view)
        BY <1>2, <1>4, <1>9, <2>4, <4>1, <4>3 DEF Nested
      <4> QED BY <4>2, <4>3
    <3> QED BY <3>1, <3>2
  <2>7. ASSUME NEW a \in Member, node[a].is_lord, NEW k \in V[a] \cap view
        PROVE Nested(V[a], view)
    <3>1. CASE k = m
      BY <1>6, <1>11, <2>7, <3>1 DEF Nested
    <3>2. CASE k # m
      <4>1. k \in DOMAIN n.known
        BY <1>3, <2>7, <3>2
      <4> QED BY <1>11, <2>4, <2>7, <4>1 DEF Nested
    <3> QED BY <3>1, <3>2
  <2>8. ASSUME NEW a \in Member, node'[a].is_lord
        PROVE /\ Cardinality(U[a]) >= Quorum /\ a \in U[a] /\ a \notin Arbiter
              /\ \A x \in U[a] \ Arbiter : x =< a
              /\ \A k \in U[a] :
                  /\ U[a] \subseteq node'[k].chk
                  /\ \A q \in Member :
                       k \in DOMAIN node'[q].known => Nested(node'[q].known[k].chk, U[a])
                  /\ \A b \in Member : node'[b].is_lord /\ k \in U[b] => Nested(U[a], U[b])
    <3>1. CASE a = m
      <4>1. ASSUME NEW k \in view, NEW b \in Member, node'[b].is_lord, k \in U[b]
            PROVE Nested(view, U[b])
        <5>1. CASE b = m
          BY <2>1, <5>1 DEF Nested
        <5>2. CASE b # m
          BY <2>1, <2>2, <2>7, <4>1, <5>2 DEF Nested
        <5> QED BY <5>1, <5>2
      <4>2. m \in view
        BY <1>3
      <4> QED BY <2>1, <2>3, <2>4, <2>5, <2>6, <3>1, <4>1, <4>2
    <3>2. CASE a # m
      <4>1. node[a].is_lord /\ U[a] = V[a]
        BY <2>1, <2>2, <2>8, <3>2
      <4>2. ASSUME NEW k \in V[a], NEW b \in Member, node'[b].is_lord, k \in U[b]
            PROVE Nested(V[a], U[b])
        <5>1. CASE b = m
          BY <2>1, <2>7, <4>1, <4>2, <5>1
        <5>2. CASE b # m
          BY <1>11, <2>1, <2>2, <4>1, <4>2, <5>2
        <5> QED BY <5>1, <5>2
      <4> QED BY <1>11, <4>1, <4>2
    <3> QED BY <3>1, <3>2
  <2>9. Elected(U)'
    BY <2>8 DEF Elected
  <2> QED BY <1>10, <2>1, <2>9
<1> QED BY <1>12, <1>13

\* What is known without node x.
LEMMA ForgetIs ==
    ASSUME NEW f \in Knowledge, NEW x
    PROVE Forget(f, x) \in Knowledge /\ DOMAIN Forget(f, x) = DOMAIN f \ {x}
<1>1. PICK g : g = Forget(f, x)
  OBVIOUS
<1>2. g = [k \in DOMAIN f \ {x} |-> f[k]]
  BY <1>1 DEF Forget
<1>3. DOMAIN f \subseteq Member /\ \A k \in DOMAIN f : f[k] \in Announced
  BY KnowledgeIs
<1>4. DOMAIN g = DOMAIN f \ {x} /\ g = [k \in DOMAIN g |-> g[k]]
  BY <1>2
<1>5. DOMAIN g \subseteq Member /\ \A k \in DOMAIN g : g[k] \in Announced
  BY <1>2, <1>3
<1>6. g \in Knowledge
  BY <1>4, <1>5, KnowledgeIs
<1> QED BY <1>1, <1>4, <1>6

\* The death of m leaves nodes of the same kind.
LEMMA HeardTypes ==
    ASSUME node \in [Member -> LegionNode], \A q \in Member : q \notin DOMAIN node[q].known,
           NEW m \in Member, NEW heard, NEW self \in LegionNode, m \notin DOMAIN self.known,
           node' = DeathHeard(m, heard, self)
    PROVE node' \in [Member -> LegionNode] /\ \A q \in Member : q \notin DOMAIN node'[q].known
<1>1. ASSUME NEW q \in Member
      PROVE node'[q] \in LegionNode /\ q \notin DOMAIN node'[q].known
  <2>1. CASE q = m
    <3>1. node'[q] = self
      BY <2>1 DEF DeathHeard
    <3> QED BY <2>1, <3>1
  <2>2. CASE q # m /\ q \in heard
    <3>1. PICK n \in LegionNode : n = node[q]
      OBVIOUS
    <3>2. n.known \in Knowledge
      BY LegionRecord
    <3>3. PICK K \in Knowledge : K = Forget(n.known, m) /\ DOMAIN K = DOMAIN n.known \ {m}
      BY <3>2, ForgetIs
    <3>4. node'[q] = [n EXCEPT !.known = K]
      BY <2>2, <3>1, <3>3 DEF DeathHeard
    <3> QED BY <3>1, <3>3, <3>4, ToldFields
  <2>3. CASE q # m /\ q \notin heard
    BY <2>3 DEF DeathHeard
  <2> QED BY <2>1, <2>2, <2>3
<1> QED BY <1>1 DEF DeathHeard

\* The end of a turn does, too.
LEMMA SettleTypes ==
    ASSUME LegionTypeOK, NEW m \in Member, NEW n \in LegionNode, m \notin DOMAIN n.known,
           NEW w, NEW fault \in {0, 1}, Settle(m, n, w, fault), LegionBound
    PROVE LegionTypeOK'
<1>0. /\ node \in [Member -> LegionNode] /\ faults \in 0..MaxFaults
      /\ \A q \in Member : q \notin DOMAIN node[q].known
  BY DEF LegionTypeOK
<1>1. PICK t : t = Step2(m, n, w)
  OBVIOUS
<1>2. t \in LegionNode /\ t.known = n.known
  BY <1>1, Step2Fields
<1>3. faults' \in 0..MaxFaults
  <2>1. faults' = faults + fault \/ faults' = faults + fault + 1
    BY DEF Settle
  <2> QED BY <1>0, <2>1, LegionAssumption DEF LegionBound
<1>4. CASE node' = [node EXCEPT ![m] = t]
  BY <1>0, <1>2, <1>3, <1>4 DEF LegionTypeOK
<1>5. ASSUME NEW heard \in SUBSET Member,
             node' = DeathHeard(m, heard, [t EXCEPT !.is_lord = FALSE, !.dead = TRUE,
                                                    !.suspended = TRUE])
      PROVE LegionTypeOK'
  <2>1. PICK self : self = [t EXCEPT !.is_lord = FALSE, !.dead = TRUE, !.suspended = TRUE]
    OBVIOUS
  <2>2. self \in LegionNode /\ self.known = t.known
    BY <1>2, <2>1, LegionRecord
  <2>3. node' \in [Member -> LegionNode] /\ \A q \in Member : q \notin DOMAIN node'[q].known
    BY <1>0, <1>2, <1>5, <2>1, <2>2, HeardTypes
  <2> QED BY <1>3, <2>3 DEF LegionTypeOK
<1> QED BY <1>1, <1>4, <1>5 DEF Settle

\* What m knows after the announcement of k.
LEMMA ToldBy ==
    ASSUME LegionTypeOK, NEW m \in Member, NEW k \in Member, k # m, NEW n,
           n = [node[m] EXCEPT !.known =
                  [x \in DOMAIN @ \cup {k} |->
                      IF x = k THEN [chk |-> node[k].chk, lord |-> node[k].lord] ELSE @[x]]]
    PROVE /\ n \in LegionNode /\ m \notin DOMAIN n.known /\ n.up = node[m].up
          /\ n.dead = node[m].dead /\ n.suspended = node[m].suspended
          /\ n.is_lord = node[m].is_lord /\ DOMAIN node[m].known \subseteq DOMAIN n.known
          /\ \A x \in DOMAIN n.known :
              \/ x \in DOMAIN node[m].known /\ n.known[x] = node[m].known[x]
              \/ n.known[x].chk = node[x].chk
<1>0. PICK f : f = node[m].known
  OBVIOUS
<1>1. PICK a : a = [chk |-> node[k].chk, lord |-> node[k].lord]
  OBVIOUS
<1>2. PICK K : K = [x \in DOMAIN f \cup {k} |-> IF x = k THEN a ELSE f[x]]
  OBVIOUS
<1>3. node[m] \in LegionNode /\ node[k] \in LegionNode /\ m \notin DOMAIN f
  BY <1>0 DEF LegionTypeOK
<1>4. f \in Knowledge /\ a \in Announced /\ a.chk = node[k].chk
  BY <1>0, <1>1, <1>3, LegionRecord DEF Announced
<1>5. K \in Knowledge
  <2>1. DOMAIN f \subseteq Member /\ \A x \in DOMAIN f : f[x] \in Announced
    BY <1>4, KnowledgeIs
  <2>2. K = [x \in DOMAIN K |-> K[x]] /\ DOMAIN K \subseteq Member
    BY <1>2, <2>1
  <2>3. \A x \in DOMAIN K : K[x] \in Announced
    BY <1>2, <1>4, <2>1
  <2> QED BY <2>2, <2>3, KnowledgeIs
<1>6. n = [node[m] EXCEPT !.known = K]
  BY <1>0, <1>1, <1>2
<1>7. PICK p \in LegionNode : p = node[m]
  BY <1>3
<1>8. /\ n \in LegionNode /\ n.known = K /\ n.up = p.up /\ n.is_lord = p.is_lord
      /\ n.dead = p.dead /\ n.suspended = p.suspended
  <2>1. PICK t : t = [p EXCEPT !.known = K]
    OBVIOUS
  <2>2. /\ t \in LegionNode /\ t.known = K /\ t.up = p.up /\ t.is_lord = p.is_lord
        /\ t.dead = p.dead /\ t.suspended = p.suspended
    BY <1>5, <2>1, ToldFields
  <2>3. n = t
    BY <1>6, <1>7, <2>1
  <2> QED BY <2>2, <2>3
<1>9. /\ DOMAIN K = DOMAIN f \cup {k} /\ K[k] = a
      /\ \A x \in DOMAIN f : x = k \/ K[x] = f[x]
  BY <1>2
<1> QED BY <1>0, <1>3, <1>4, <1>7, <1>8, <1>9

\* Every step of the Legion keeps its invariant.
LEMMA LegionSteps == LegionInv /\ [LegionNext]_legionVars => LegionInv'
<1> SUFFICES ASSUME LegionInv, [LegionNext]_legionVars PROVE LegionInv'
  OBVIOUS
<1>0. /\ LegionTypeOK /\ node \in [Member -> LegionNode] /\ faults \in 0..MaxFaults
      /\ \A q \in Member : q \notin DOMAIN node[q].known
  BY DEF LegionInv, LegionTypeOK
<1>1. CASE UNCHANGED legionVars
  BY <1>1 DEF legionVars, LegionInv, LegionTypeOK, Learns, Elected
<1>2. ASSUME NEW m \in Member, NEW n \in LegionNode, NEW w, NEW fault \in {0, 1},
             Settle(m, n, w, fault), LegionBound, m \notin DOMAIN n.known,
             faults = 0 =>
               \/ fault = 1
               \/ /\ n.up = node[m].up /\ n.dead = node[m].dead
                  /\ n.suspended = node[m].suspended /\ n.is_lord = node[m].is_lord
                  /\ DOMAIN node[m].known \subseteq DOMAIN n.known
                  /\ \A x \in DOMAIN n.known :
                      \/ x \in DOMAIN node[m].known /\ n.known[x] = node[m].known[x]
                      \/ n.known[x].chk = node[x].chk
      PROVE LegionInv'
  <2>1. LegionTypeOK'
    BY <1>0, <1>2, SettleTypes
  <2>2. SUFFICES ASSUME faults' = 0
                 PROVE Learns' /\ \E V \in [Member -> SUBSET Member] : Elected(V)'
    BY <2>1 DEF LegionInv
  <2>3. /\ faults = 0 /\ fault = 0 /\ node' = [node EXCEPT ![m] = Step2(m, n, w)]
    BY <1>0, <1>2, <2>2 DEF Settle
  <2>4. Learns /\ \E V \in [Member -> SUBSET Member] : Elected(V)
    BY <2>3 DEF LegionInv
  <2>5. PICK V \in [Member -> SUBSET Member] : Elected(V)
    BY <2>4
  <2>6. /\ n.is_lord = node[m].is_lord
        /\ DOMAIN node[m].known \subseteq DOMAIN n.known
        /\ \A x \in DOMAIN n.known :
            \/ x \in DOMAIN node[m].known /\ n.known[x] = node[m].known[x]
            \/ n.known[x].chk = node[x].chk
    BY <1>2, <2>3
  <2>7. n.up = TRUE /\ n.dead = FALSE /\ n.suspended = FALSE
    <3>1. PICK p \in LegionNode : p = node[m]
      BY <1>0
    <3>2. p.up /\ ~p.dead /\ ~p.suspended
      BY <2>4, <3>1 DEF Learns
    <3>3. p.up = TRUE /\ p.dead = FALSE /\ p.suspended = FALSE
      BY <3>2, LegionRecord
    <3>4. n.up = p.up /\ n.dead = p.dead /\ n.suspended = p.suspended
      BY <1>2, <2>3, <3>1
    <3> QED BY <3>3, <3>4
  <2> QED BY <1>0, <1>2, <2>3, <2>4, <2>5, <2>6, <2>7, LearningTurn
<1>3. ASSUME LegionTypeOK', faults' # 0 \/ (node' = node /\ faults' = faults) PROVE LegionInv'
  BY <1>3 DEF LegionInv, Learns, Elected
<1>4. ASSUME NEW m \in Member, Turn(m), LegionBound PROVE LegionInv'
  <2>1. PICK w \in BOOLEAN : Settle(m, node[m], w, 0)
    BY <1>4 DEF Turn
  <2>2. PICK n \in LegionNode : n = node[m]
    BY <1>0
  <2>3. m \notin DOMAIN n.known
    BY <1>0, <2>2
  <2> QED BY <1>2, <1>4, <2>1, <2>2, <2>3
<1>5. ASSUME NEW m \in Member, NEW k \in Member, Expire(m, k), LegionBound PROVE LegionInv'
  <2>1. PICK p \in LegionNode : p = node[m]
    BY <1>0
  <2>2. p.known \in Knowledge
    BY LegionRecord
  <2>3. PICK K \in Knowledge : K = Forget(p.known, k) /\ DOMAIN K = DOMAIN p.known \ {k}
    BY <2>2, ForgetIs
  <2>4. PICK n : n = [p EXCEPT !.known = K]
    OBVIOUS
  <2>5. n \in LegionNode /\ n.known = K
    BY <2>4, ToldFields
  <2>6. PICK fault \in {0, 1} : fault = IF node[k].up /\ ~node[k].dead THEN 1 ELSE 0
    OBVIOUS
  <2>7. Settle(m, n, FALSE, fault)
    BY <1>5, <2>1, <2>3, <2>4, <2>6 DEF Expire
  <2>8. faults = 0 => fault = 1
    BY <2>6 DEF LegionInv, Learns
  <2>9. m \notin DOMAIN n.known
    BY <1>0, <2>1, <2>3, <2>5
  <2> QED BY <1>2, <1>5, <2>5, <2>7, <2>8, <2>9
<1>6. ASSUME NEW m \in Member, NEW k \in Member, Receive(m, k), LegionBound PROVE LegionInv'
  <2>1. CASE node[k].dead
    <3>1. PICK p \in LegionNode : p = node[m]
      BY <1>0
    <3>2. p.known \in Knowledge
      BY LegionRecord
    <3>3. PICK K \in Knowledge : K = Forget(p.known, k) /\ DOMAIN K = DOMAIN p.known \ {k}
      BY <3>2, ForgetIs
    <3>4. PICK n : n = [p EXCEPT !.known = K]
      OBVIOUS
    <3>5. n \in LegionNode /\ n.known = K
      BY <3>4, ToldFields
    <3>6. node' = [node EXCEPT ![m] = n] /\ faults' = faults
      BY <1>6, <2>1, <3>1, <3>3, <3>4 DEF Receive
    <3>7. m \notin DOMAIN n.known
      BY <1>0, <3>1, <3>3, <3>5
    <3>8. LegionTypeOK'
      BY <1>0, <3>5, <3>6, <3>7 DEF LegionTypeOK
    <3>9. faults # 0
      BY <2>1 DEF LegionInv, Learns
    <3> QED BY <1>3, <3>6, <3>8, <3>9
  <2>2. CASE ~node[k].dead
    <3>1. PICK n : n = [node[m] EXCEPT !.known =
                          [x \in DOMAIN @ \cup {k} |->
                              IF x = k THEN [chk |-> node[k].chk, lord |-> node[k].lord] ELSE @[x]]]
      OBVIOUS
    <3>2. Settle(m, n, FALSE, 0) /\ k # m
      BY <1>6, <2>2, <3>1 DEF Receive
    <3>3. /\ n \in LegionNode /\ m \notin DOMAIN n.known /\ n.up = node[m].up
          /\ n.dead = node[m].dead /\ n.suspended = node[m].suspended
          /\ n.is_lord = node[m].is_lord /\ DOMAIN node[m].known \subseteq DOMAIN n.known
          /\ \A x \in DOMAIN n.known :
              \/ x \in DOMAIN node[m].known /\ n.known[x] = node[m].known[x]
              \/ n.known[x].chk = node[x].chk
      <4>0. LegionTypeOK /\ k # m
        BY <1>0, <3>2
      <4>1. n \in LegionNode
        BY <3>1, <4>0, ToldBy
      <4>5. m \notin DOMAIN n.known
        BY <3>1, <4>0, ToldBy
      <4>2. n.up = node[m].up /\ n.dead = node[m].dead
        BY <1>0, <3>1, <3>2, ToldBy
      <4>3. n.suspended = node[m].suspended /\ n.is_lord = node[m].is_lord
        BY <1>0, <3>1, <3>2, ToldBy
      <4>4. /\ DOMAIN node[m].known \subseteq DOMAIN n.known
            /\ \A x \in DOMAIN n.known :
                \/ x \in DOMAIN node[m].known /\ n.known[x] = node[m].known[x]
                \/ n.known[x].chk = node[x].chk
        BY <1>0, <3>1, <3>2, ToldBy
      <4> QED BY <4>1, <4>2, <4>3, <4>4, <4>5
    <3> QED BY <1>2, <1>6, <3>2, <3>3
  <2> QED BY <2>1, <2>2
<1>7. ASSUME NEW m \in Member, SuspensionEnds(m), LegionBound PROVE LegionInv'
  <2>1. PICK p \in LegionNode : p = node[m]
    BY <1>0
  <2>2. PICK n : n = [p EXCEPT !.suspended = FALSE]
    OBVIOUS
  <2>3. n \in LegionNode /\ n.known = p.known
    BY <2>2, LegionRecord
  <2>4. node' = [node EXCEPT ![m] = n] /\ faults' = faults
    BY <1>7, <2>1, <2>2 DEF SuspensionEnds
  <2>5. LegionTypeOK'
    BY <1>0, <2>1, <2>3, <2>4 DEF LegionTypeOK
  <2>6. faults # 0
    BY <1>7 DEF LegionInv, Learns, SuspensionEnds
  <2> QED BY <1>3, <2>4, <2>5, <2>6
<1>8. ASSUME NEW m \in Member, LegionStop(m), LegionBound PROVE LegionInv'
  <2>1. PICK p \in LegionNode : p = node[m]
    BY <1>0
  <2>2. PICK n : n = [p EXCEPT !.up = FALSE, !.is_lord = FALSE]
    OBVIOUS
  <2>3. n \in LegionNode /\ n.known = p.known
    BY <2>2, LegionRecord
  <2>4. PICK heard \in SUBSET Member : node' = DeathHeard(m, heard, n)
    BY <1>8, <2>1, <2>2 DEF LegionStop
  <2>5. node' \in [Member -> LegionNode] /\ \A q \in Member : q \notin DOMAIN node'[q].known
    BY <1>0, <2>1, <2>3, <2>4, HeardTypes
  <2>6. faults' \in 0..MaxFaults /\ faults' # 0
    BY <1>0, <1>8, LegionAssumption DEF LegionStop, LegionBound
  <2> QED BY <1>3, <2>5, <2>6 DEF LegionTypeOK
<1> QED BY <1>1, <1>4, <1>5, <1>6, <1>7, <1>8 DEF LegionNext

\* Two Lords have views with a node in common, so that one view contains the
\* other: the better Lord's view has the other Lord, who votes as high as that.
LEMMA LordsHandOver ==
    ASSUME 2 * Quorum > Cardinality(Member), LegionInv
    PROVE TwoLordsOnlyInHandover
<1> SUFFICES ASSUME faults = 0, NEW a \in Lords, NEW b \in Lords, a < b
             PROVE b =< node[a].lord
  BY DEF TwoLordsOnlyInHandover
<1>0. a \in Member /\ b \in Member /\ node[a].is_lord /\ node[b].is_lord
  BY DEF Lords
<1>1. a \in Nat /\ b \in Nat /\ IsFiniteSet(Member) /\ Quorum \in Nat
  BY <1>0, LegionAssumption
<1>2. Learns /\ \E V \in [Member -> SUBSET Member] : Elected(V)
  BY DEF LegionInv
<1>3. PICK V \in [Member -> SUBSET Member] : Elected(V)
  BY <1>2
<1>4. PICK S \in SUBSET Member, T \in SUBSET Member : S = V[a] /\ T = V[b]
  BY <1>0
<1>5. /\ Cardinality(S) >= Quorum /\ Cardinality(T) >= Quorum /\ a \in S /\ b \in T
      /\ b \notin Arbiter /\ \A x \in S \ Arbiter : x =< a
      /\ \A k \in S \cap T : Nested(S, T)
      /\ \A k \in T : T \subseteq node[k].chk
  BY <1>0, <1>3, <1>4 DEF Elected
<1>6. S \cap T # {}
  <2>1. Cardinality(S) \in Nat /\ Cardinality(T) \in Nat /\ Cardinality(Member) \in Nat
    BY <1>1, FS_Subset, FS_CardinalityType
  <2>2. Cardinality(S) + Cardinality(T) > Cardinality(Member)
    BY <1>1, <1>5, <2>1
  <2> QED BY <1>1, <2>2, FS_MajoritiesIntersect
<1>7. b \notin S
  BY <1>1, <1>5
<1>8. a \in T
  BY <1>5, <1>6, <1>7 DEF Nested
<1>9. b \in node[a].chk \ Arbiter
  BY <1>5, <1>8
<1> QED BY <1>0, <1>2, <1>9 DEF Learns

\* A Legion at rest: everybody alive has the same view and votes for the best,
\* who is the only candidate.
LEMMA RestHasOneLord == LegionTypeOK => AtRestOneLord
<1> DEFINE able == Alive \ Arbiter
           best == CHOOSE x \in able : \A y \in able : y =< x
<1> SUFFICES ASSUME LegionTypeOK, AtRest, Cardinality(Alive) >= Quorum, able # {}
             PROVE Lords \cap Alive = {best}
  BY DEF AtRestOneLord
<1>1. Alive \subseteq Member /\ IsFiniteSet(Alive) /\ Quorum \in Nat
  BY LegionAssumption, FS_Subset DEF Alive
<1>2. best \in able
  <2>1. able \in SUBSET Nat /\ IsFiniteSet(able)
    BY <1>1, LegionAssumption, FS_Subset
  <2>2. \E x \in able : \A y \in able : y =< x
    <3> HIDE DEF able
    <3> QED BY <2>1, GreatestExists
  <2> HIDE DEF able
  <2> QED BY <2>2
<1>3. Cardinality(Alive) \in Nat /\ Cardinality(Alive) > 0
  BY <1>1, <1>2, FS_CardinalityType, FS_EmptySet
<1>4. ASSUME NEW m \in Alive
      PROVE /\ node[m].known = [k \in Alive \ {m} |-> [chk |-> node[k].chk, lord |-> node[k].lord]]
            /\ {m} \cup DOMAIN node[m].known = Alive
            /\ Best(m, node[m]) = best
            /\ node[m].chk = Alive /\ node[m].lord = best /\ ~node[m].suspended
            /\ HasQuorum(m, node[m]) => (node[m].is_lord <=> Candidate(m, node[m]))
  <2>1. PICK n \in LegionNode : n = node[m]
    BY <1>1 DEF LegionTypeOK
  <2>2. n.known = [k \in Alive \ {m} |-> [chk |-> node[k].chk, lord |-> node[k].lord]]
    BY <2>1 DEF AtRest
  <2>3. {m} \cup DOMAIN n.known = Alive
    BY <2>2
  <2>4. Best(m, n) = best
    BY <1>2, <2>3 DEF Best
  <2>5. n = Step2(m, n, TRUE)
    BY <2>1 DEF AtRest
  <2>6. /\ n.chk = {m} \cup DOMAIN n.known /\ n.lord = Best(m, n)
        /\ HasQuorum(m, n) => (n.is_lord <=> Candidate(m, n))
    <3>1. m \in Member
      BY <1>1
    <3>0. PICK w : w = TRUE
      OBVIOUS
    <3>2. PICK t : t = Step2(m, n, w)
      OBVIOUS
    <3>3. t.chk = {m} \cup DOMAIN n.known
      BY <3>1, <3>2, Step2Fields
    <3>4. t.lord = Best(m, n)
      BY <3>1, <3>2, Step2Fields
    <3>5. HasQuorum(m, n) => (t.is_lord <=> Candidate(m, n))
      BY <3>1, <3>2, Step2Fields
    <3> QED BY <2>5, <3>0, <3>2, <3>3, <3>4, <3>5
  <2>7. ~n.suspended
    BY <1>1, <2>1 DEF AtRest
  <2> HIDE DEF best
  <2> QED BY <2>1, <2>2, <2>3, <2>4, <2>6, <2>7
<1>5. ASSUME NEW m \in Alive PROVE HasQuorum(m, node[m])
  <2> HIDE DEF best
  <2>1. PICK n : n = node[m]
    OBVIOUS
  <2>2. PICK v : v = IF Best(m, n) # m \/ (m \notin Arbiter /\ ~n.suspended) THEN Best(m, n) ELSE None
    OBVIOUS
  <2>3. v = best
    <3>1. Best(m, n) = best /\ ~n.suspended
      BY <1>4, <2>1
    <3>2. best \notin Arbiter
      BY <1>2
    <3> QED BY <2>2, <3>1, <3>2
  <2>4. \A k \in DOMAIN n.known : n.known[k] = [chk |-> Alive, lord |-> v]
    <3>1. n.known = [k \in Alive \ {m} |-> [chk |-> node[k].chk, lord |-> node[k].lord]]
      BY <1>4, <2>1
    <3>2. \A k \in Alive : node[k].chk = Alive /\ node[k].lord = best
      BY <1>4
    <3> QED BY <2>3, <3>1, <3>2
  <2>5. {m} \cup DOMAIN n.known = Alive
    BY <1>4, <2>1
  <2>6. Counted(m, n) = Cardinality(Alive)
    BY <2>2, <2>4, <2>5 DEF Counted
  <2> QED BY <1>3, <2>1, <2>6 DEF HasQuorum
<1>6. \A m \in Alive : node[m].is_lord <=> m = best
  <2> HIDE DEF best
  <2> QED BY <1>2, <1>4, <1>5 DEF Candidate
<1> HIDE DEF best
<1> QED BY <1>1, <1>2, <1>6 DEF Lords, Alive

------------------------------------------------------------------------------
(* The router.                                                              *)

\* Every non-empty set of numbers has a least one.
LEMMA LeastExists ==
    ASSUME NEW S \in SUBSET Nat, S # {}
    PROVE \E x \in S : \A y \in S : x =< y
<1>1. PICK x \in S : \A y \in S : ~(<<y, x>> \in OpToRel(<, Nat))
  BY NatLessThanWellFounded, WFMin
<1>2. ASSUME NEW y \in S PROVE x =< y
  <2>1. x \in Nat /\ y \in Nat
    OBVIOUS
  <2>2. ~(y < x)
    BY <1>1, <2>1 DEF OpToRel
  <2> QED BY <2>1, <2>2
<1> QED BY <1>2

\* Ranks number the members of a set from 1 on.
LEMMA RanksNumber ==
    ASSUME NEW m \in Nat, NEW S \in SUBSET (1..m)
    PROVE /\ IsFiniteSet(S) /\ Cardinality(S) \in Nat
          /\ \A i \in S : Rank(S, i) \in 1..Cardinality(S)
          /\ \A i, j \in S : Rank(S, i) = Rank(S, j) => i = j
          /\ \A k \in 1..Cardinality(S) : \E i \in S : Rank(S, i) = k
<1>1. IsFiniteSet(S) /\ Cardinality(S) \in Nat
  <2>1. IsFiniteSet(1..m)
    BY FS_Interval
  <2>2. IsFiniteSet(S)
    BY <2>1, FS_Subset
  <2> QED BY <2>2, FS_CardinalityType
<1>2. ASSUME NEW i \in S
      PROVE /\ IsFiniteSet({x \in S : x =< i}) /\ Rank(S, i) \in Nat
            /\ Rank(S, i) >= 1 /\ Rank(S, i) =< Cardinality(S)
  <2>1. {x \in S : x =< i} \in SUBSET S /\ {x \in S : x =< i} # {}
    OBVIOUS
  <2>2. IsFiniteSet({x \in S : x =< i}) /\ Rank(S, i) =< Cardinality(S)
    BY <1>1, <2>1, FS_Subset DEF Rank
  <2>3. Rank(S, i) \in Nat /\ Rank(S, i) # 0
    BY <2>1, <2>2, FS_CardinalityType, FS_EmptySet DEF Rank
  <2> QED BY <2>2, <2>3
<1>3. ASSUME NEW i \in S, NEW j \in S, i < j PROVE Rank(S, i) # Rank(S, j)
  <2>1. \A x \in S : x \in Int /\ (x =< i => x =< j)
    BY <1>3
  <2>0. {x \in S : x =< i} \in SUBSET {x \in S : x =< j}
    BY <2>1
  <2>2. j \in {x \in S : x =< j} /\ j \notin {x \in S : x =< i}
    BY <1>3
  <2> QED BY <1>2, <2>0, <2>2, FS_Subset DEF Rank
<1>4. \A i, j \in S : Rank(S, i) = Rank(S, j) => i = j
  <2> SUFFICES ASSUME NEW i \in S, NEW j \in S, Rank(S, i) = Rank(S, j) PROVE i = j
    OBVIOUS
  <2>1. i \in Int /\ j \in Int /\ ~(i < j) /\ ~(j < i)
    BY <1>3
  <2> QED BY <2>1
<1>9. \A i \in S : Rank(S, i) \in 1..Cardinality(S)
  <2> SUFFICES ASSUME NEW i \in S PROVE Rank(S, i) \in 1..Cardinality(S)
    OBVIOUS
  <2>1. Rank(S, i) \in Nat /\ Rank(S, i) >= 1 /\ Rank(S, i) =< Cardinality(S)
    BY <1>2
  <2> HIDE <1>2
  <2> QED BY <1>1, <2>1
<1> DEFINE c == Cardinality(S)
           f == [i \in S |-> Rank(S, i)]
<1>5. f \in Injection(S, 1..c)
  <2>1. \A i \in S : Rank(S, i) \in 1..c
    BY <1>9
  <2>2. f \in [S -> 1..c] /\ \A i \in S : f[i] = Rank(S, i)
    BY <2>1
  <2> HIDE DEF f, c
  <2> QED BY <1>4, <2>2 DEF Injection, IsInjective
<1>6. IsFiniteSet(1..c) /\ Cardinality(1..c) = c
  <2>1. Cardinality(1..c) = IF 1 > c THEN 0 ELSE c - 1 + 1
    BY <1>1, FS_Interval
  <2> QED BY <1>1, <2>1, FS_Interval
<1>7. f \in Surjection(S, 1..c)
  <2> HIDE DEF f
  <2> QED BY <1>5, <1>6, FS_Injection
<1>8. \A k \in 1..c : \E i \in S : Rank(S, i) = k
  BY <1>7 DEF Surjection
<1> QED BY <1>1, <1>4, <1>8, <1>9

\* A function on 1..n is a list of n elements.
LEMMA FunctionIsList ==
    ASSUME NEW S, NEW n \in Nat, NEW f \in [1..n -> S]
    PROVE f \in Seq(S) /\ Len(f) = n
OBVIOUS

\* A node of the list, with any number of references.
NodeSet == [name: Backend, weight: {1, 2}, wrr: 0..2, ref: Nat, life: {"live", "silent", "dead"}]

\* What marking does to a node.
LEMMA MarkedFields ==
    ASSUME NEW n \in NodeSet
    PROVE /\ Marked(n) \in NodeSet
          /\ Marked(n).name = n.name /\ Marked(n).weight = n.weight
          /\ Marked(n).wrr = n.wrr /\ Marked(n).ref = n.ref
          /\ Marked(n).life = IF n.life = "silent" THEN "dead" ELSE n.life
BY DEF Marked, NodeSet

\* new has the nodes of Kept, node i of the list at its rank, and its node k is
\* node g[k] of the list.
Sweeps(new, list, n, g) ==
    /\ g \in [1..Len(new) -> Kept(list, n)]
    /\ \A k, l \in 1..Len(new) : g[k] = g[l] => k = l
    /\ \A i \in Kept(list, n) : /\ Rank(Kept(list, n), i) \in 1..Len(new)
                                /\ g[Rank(Kept(list, n), i)] = i
    /\ \A k \in 1..Len(new) : new[k] = IF g[k] > n THEN list[g[k]] ELSE Marked(list[g[k]])

\* The swept list does.
LEMMA SweptIs ==
    ASSUME NEW list \in Seq(NodeSet), NEW n \in 0..Len(list)
    PROVE /\ Swept(list, n) \in Seq(NodeSet)
          /\ \E g : Sweeps(Swept(list, n), list, n, g)
<1>1. PICK m \in Nat : m = Len(list)
  OBVIOUS
<1>2. PICK S \in SUBSET (1..m) : S = Kept(list, n)
  BY <1>1 DEF Kept
<1>3. PICK c \in Nat : c = Cardinality(S)
  BY RanksNumber
<1>4. /\ \A i \in S : Rank(S, i) \in 1..c
      /\ \A i, j \in S : Rank(S, i) = Rank(S, j) => i = j
      /\ \A k \in 1..c : \E i \in S : Rank(S, i) = k
  BY <1>3, RanksNumber
<1>5. PICK g : g = [k \in 1..c |-> CHOOSE i \in S : Rank(S, i) = k]
  OBVIOUS
<1>6. \A k \in 1..c : g[k] \in S /\ Rank(S, g[k]) = k
  BY <1>4, <1>5
<1>7. g \in [1..c -> S]
  BY <1>5, <1>6
<1>8. \A i \in S : Rank(S, i) \in 1..c /\ g[Rank(S, i)] = i
  BY <1>4, <1>6
<1>9. PICK t : t = [k \in 1..c |-> IF g[k] > n THEN list[g[k]] ELSE Marked(list[g[k]])]
  OBVIOUS
<1>10. Swept(list, n) = t
  BY <1>2, <1>3, <1>5, <1>9 DEF Swept
<1>11. \A k \in 1..c : g[k] \in 1..Len(list) /\ list[g[k]] \in NodeSet
  BY <1>1, <1>6, ElementOfSeq
<1>12. t \in [1..c -> NodeSet]
  BY <1>9, <1>11, MarkedFields
<1>13. t \in Seq(NodeSet) /\ Len(t) = c
  BY <1>12, FunctionIsList
<1>14. \A k, l \in 1..c : g[k] = g[l] => k = l
  BY <1>6
<1>15. PICK w : w = Swept(list, n)
  OBVIOUS
<1>16. /\ w \in Seq(NodeSet) /\ Len(w) = c
       /\ \A k \in 1..c : w[k] = IF g[k] > n THEN list[g[k]] ELSE Marked(list[g[k]])
  BY <1>9, <1>10, <1>13, <1>15
<1>17. Sweeps(w, list, n, g)
  BY <1>2, <1>7, <1>8, <1>14, <1>16 DEF Sweeps
<1> QED BY <1>15, <1>16, <1>17

\* The weight of a backend is fixed.
WeightOf(b) == IF b \in Heavy THEN 2 ELSE 1

\* The list fits to the backends U[s] that the sessions use.
Users(U, b) == {s \in Session : U[s] = b}

Fits(list, U) ==
    /\ list \in Seq(NodeSet)
    /\ \A i \in 1..Len(list) : /\ list[i].weight = WeightOf(list[i].name)
                               /\ list[i].wrr =< list[i].weight
                               /\ list[i].ref = Cardinality(Users(U, list[i].name))
    /\ \A i, j \in 1..Len(list) : list[i].name = list[j].name => i = j
    /\ \A s \in Session : U[s] \in Names(list) \cup {NoBackend}

\* The users of a backend are counted.
LEMMA UsersCount ==
    ASSUME NEW U, NEW b
    PROVE /\ IsFiniteSet(Users(U, b))
          /\ Cardinality(Users(U, b)) \in 0..Cardinality(Session)
          /\ Cardinality(Users(U, b)) = 0 <=> Users(U, b) = {}
<1>1. IsFiniteSet(Session) /\ Users(U, b) \in SUBSET Session
  BY RouterAssumption DEF Users
<1>2. IsFiniteSet(Users(U, b)) /\ Cardinality(Users(U, b)) =< Cardinality(Session)
  BY <1>1, FS_Subset
<1>3. Cardinality(Users(U, b)) \in Nat /\ Cardinality(Session) \in Nat
  BY <1>1, <1>2, FS_CardinalityType
<1>4. Cardinality(Users(U, b)) = 0 <=> Users(U, b) = {}
  BY <1>2, FS_EmptySet
<1> QED BY <1>2, <1>3, <1>4

\* A list that fits still does with other turns and marks, and without nodes
\* that nobody uses.
LEMMA FitsKept ==
    ASSUME NEW list, NEW U, Fits(list, U), NEW new \in Seq(NodeSet),
           NEW g \in [1..Len(new) -> 1..Len(list)],
           \A k, l \in 1..Len(new) : g[k] = g[l] => k = l,
           \A k \in 1..Len(new) : /\ new[k].name = list[g[k]].name
                                  /\ new[k].weight = list[g[k]].weight
                                  /\ new[k].ref = list[g[k]].ref
                                  /\ new[k].wrr =< new[k].weight,
           \A i \in 1..Len(list) : list[i].ref # 0 => \E k \in 1..Len(new) : g[k] = i
    PROVE Fits(new, U)
<1>1. ASSUME NEW s \in Session PROVE U[s] \in Names(new) \cup {NoBackend}
  <2>1. CASE U[s] = NoBackend
    BY <2>1
  <2>2. CASE U[s] # NoBackend
    <3>1. PICK i \in 1..Len(list) : list[i].name = U[s]
      BY <2>2 DEF Fits, Names
    <3>2. s \in Users(U, list[i].name)
      BY <3>1 DEF Users
    <3>3. list[i].ref # 0
      BY <3>2, UsersCount DEF Fits
    <3>4. PICK k \in 1..Len(new) : g[k] = i
      BY <3>3
    <3> QED BY <3>1, <3>4 DEF Names
  <2> QED BY <2>1, <2>2
<1>2. \A k \in 1..Len(new) : g[k] \in 1..Len(list)
  OBVIOUS
<1>3. \A k \in 1..Len(new) :
        /\ new[k].weight = WeightOf(new[k].name) /\ new[k].wrr =< new[k].weight
        /\ new[k].ref = Cardinality(Users(U, new[k].name))
  <2> SUFFICES ASSUME NEW k \in 1..Len(new)
               PROVE /\ new[k].weight = WeightOf(new[k].name) /\ new[k].wrr =< new[k].weight
                     /\ new[k].ref = Cardinality(Users(U, new[k].name))
    OBVIOUS
  <2>1. PICK i \in 1..Len(list) : i = g[k]
    BY <1>2
  <2>2. list[i].weight = WeightOf(list[i].name) /\ list[i].ref = Cardinality(Users(U, list[i].name))
    BY DEF Fits
  <2>3. /\ new[k].name = list[i].name /\ new[k].weight = list[i].weight
        /\ new[k].ref = list[i].ref /\ new[k].wrr =< new[k].weight
    BY <2>1
  <2> QED BY <2>2, <2>3
<1>4. ASSUME NEW k \in 1..Len(new), NEW l \in 1..Len(new), new[k].name = new[l].name
      PROVE k = l
  <2>1. PICK i \in 1..Len(list) : i = g[k]
    BY <1>2
  <2>2. PICK j \in 1..Len(list) : j = g[l]
    BY <1>2
  <2>3. list[i].name = list[j].name
    BY <1>4, <2>1, <2>2
  <2>4. i = j
    BY <2>3 DEF Fits
  <2> QED BY <2>1, <2>2, <2>4
<1> QED BY <1>1, <1>3, <1>4 DEF Fits

\* Where the node of a name is.
LEMMA IndexIs ==
    ASSUME NEW list, NEW b \in Names(list)
    PROVE IndexOf(list, b) \in 1..Len(list) /\ list[IndexOf(list, b)].name = b
BY DEF Names, IndexOf

\* A list whose nodes are nodes of another with the same turns, or others
\* without turns; Watched is marked dead if it was, and not one of the others.
Older(new, list) ==
    \A k \in 1..Len(new) :
        \/ new[k].name # Watched /\ new[k].wrr = 0
        \/ \E i \in 1..Len(list) :
            /\ new[k].name = list[i].name /\ new[k].wrr = list[i].wrr
            /\ new[k].name = Watched /\ list[i].life = "dead" => new[k].life = "dead"

\* The same with a function from the one to the other, that misses no node in
\* use and does not touch references.
Traced(new, list, g) ==
    /\ new \in Seq(NodeSet) /\ g \in [1..Len(new) -> 1..Len(list)]
    /\ \A k, l \in 1..Len(new) : g[k] = g[l] => k = l
    /\ \A k \in 1..Len(new) : /\ new[k].name = list[g[k]].name
                              /\ new[k].weight = list[g[k]].weight
                              /\ new[k].ref = list[g[k]].ref
                              /\ new[k].wrr = list[g[k]].wrr
    /\ \A i \in 1..Len(list) : list[i].ref # 0 => \E k \in 1..Len(new) : g[k] = i

LEMMA FitsOlder ==
    ASSUME NEW list, NEW U, Fits(list, U), NEW new, NEW g, Traced(new, list, g)
    PROVE /\ Fits(new, U)
          /\ \/ \E k \in 1..Len(new) : /\ new[k].name = Watched
                                       /\ list[g[k]].life = "dead" /\ new[k].life # "dead"
             \/ Older(new, list)
<1>1. \A k \in 1..Len(new) : g[k] \in 1..Len(list)
  BY DEF Traced
<1>2. \/ \E k \in 1..Len(new) : /\ new[k].name = Watched
                                /\ list[g[k]].life = "dead" /\ new[k].life # "dead"
      \/ Older(new, list)
  BY <1>1 DEF Older, Traced
<1>3. ASSUME NEW k \in 1..Len(new) PROVE new[k].wrr =< new[k].weight
  <2>1. PICK i \in 1..Len(list) : i = g[k]
    BY <1>1
  <2>2. list[i].wrr =< list[i].weight
    BY DEF Fits
  <2> QED BY <2>1, <2>2 DEF Traced
<1>4. Fits(new, U)
  BY <1>3, FitsKept DEF Traced
<1> QED BY <1>2, <1>4

\* Sweeping.
LEMMA SweptFits ==
    ASSUME NEW list, NEW U, Fits(list, U), NEW n \in 0..Len(list)
    PROVE Fits(Swept(list, n), U) /\ Older(Swept(list, n), list)
<1>1. list \in Seq(NodeSet)
  BY DEF Fits
<1>2. PICK new \in Seq(NodeSet) : new = Swept(list, n)
  BY <1>1, SweptIs
<1>3. PICK g : Sweeps(new, list, n, g)
  BY <1>1, <1>2, SweptIs
<1>4. Kept(list, n) \subseteq 1..Len(list)
  BY DEF Kept
<1>5. g \in [1..Len(new) -> 1..Len(list)]
  BY <1>3, <1>4 DEF Sweeps
<1>6. ASSUME NEW k \in 1..Len(new)
      PROVE /\ new[k].name = list[g[k]].name /\ new[k].weight = list[g[k]].weight
            /\ new[k].ref = list[g[k]].ref /\ new[k].wrr = list[g[k]].wrr
            /\ list[g[k]].life = "dead" => new[k].life = "dead"
  <2>1. list[g[k]] \in NodeSet
    BY <1>1, <1>5, ElementOfSeq
  <2> QED BY <1>3, <2>1, MarkedFields DEF Sweeps
<1>7. ASSUME NEW i \in 1..Len(list), list[i].ref # 0
      PROVE \E k \in 1..Len(new) : g[k] = i
  <2>1. list[i] \in NodeSet
    BY <1>1, ElementOfSeq
  <2>2. list[i].ref > 0
    BY <1>7, <2>1 DEF NodeSet
  <2>3. i \in Kept(list, n)
    BY <2>2 DEF Kept
  <2> QED BY <1>3, <2>3 DEF Sweeps
<1>8. Fits(new, U) /\ Older(new, list)
  <2>1. Traced(new, list, g)
    BY <1>2, <1>3, <1>5, <1>6, <1>7 DEF Traced, Sweeps
  <2> QED BY <1>6, <2>1, FitsOlder
<1> QED BY <1>2, <1>8

\* A node that fails.
LEMMA FailedFits ==
    ASSUME NEW list, NEW U, Fits(list, U), NEW b \in Names(list)
    PROVE Fits(Failed(list, b), U) /\ Older(Failed(list, b), list)
<1>1. list \in Seq(NodeSet) /\ Len(list) \in Nat
  BY DEF Fits
<1>2. PICK i \in 1..Len(list) : i = IndexOf(list, b) /\ list[i].name = b
  BY IndexIs
<1>3. list[i] \in NodeSet
  BY <1>1, ElementOfSeq
<1>4. CASE list[i].ref = 0
  <2>1. PICK g : g = [k \in 1..(Len(list) - 1) |-> IF k < i THEN k ELSE k + 1]
    OBVIOUS
  <2>2. g \in [1..(Len(list) - 1) -> 1..Len(list)]
    BY <1>1, <1>2, <2>1
  <2>3. PICK new : new = [k \in 1..(Len(list) - 1) |-> list[g[k]]]
    OBVIOUS
  <2>4. new = Failed(list, b)
    BY <1>2, <1>4, <2>1, <2>3 DEF Failed, Without
  <2>5. \A k \in 1..(Len(list) - 1) : list[g[k]] \in NodeSet
    BY <1>1, <2>2, ElementOfSeq
  <2>6. new \in [1..(Len(list) - 1) -> NodeSet]
    BY <2>3, <2>5
  <2>7. Len(list) - 1 \in Nat
    BY <1>1, <1>2
  <2>8. new \in Seq(NodeSet) /\ Len(new) = Len(list) - 1
    BY <2>6, <2>7, FunctionIsList
  <2>9. \A k, l \in 1..Len(new) : g[k] = g[l] => k = l
    BY <1>1, <1>2, <2>1, <2>7, <2>8
  <2>10. \A k \in 1..Len(new) : new[k] = list[g[k]]
    BY <2>3, <2>8
  <2>11. ASSUME NEW j \in 1..Len(list), list[j].ref # 0 PROVE \E k \in 1..Len(new) : g[k] = j
    <3>1. j # i
      BY <1>4, <2>11
    <3>2. CASE j < i
      <4>1. j \in 1..Len(new) /\ g[j] = j
        BY <1>1, <1>2, <2>1, <2>8, <3>2
      <4> QED BY <4>1
    <3>3. CASE j > i
      <4>1. j - 1 \in 1..Len(new) /\ g[j - 1] = j
        BY <1>1, <1>2, <2>1, <2>8, <3>3
      <4> QED BY <4>1
    <3> QED BY <1>1, <1>2, <3>1, <3>2, <3>3
  <2>12. g \in [1..Len(new) -> 1..Len(list)]
    BY <2>2, <2>8
  <2>13. Fits(new, U) /\ Older(new, list)
    <3>1. Traced(new, list, g)
      BY <2>8, <2>9, <2>10, <2>11, <2>12 DEF Traced
    <3> QED BY <2>10, <3>1, FitsOlder
  <2> QED BY <2>4, <2>13
<1>5. CASE list[i].ref # 0
  <2>1. PICK e : e = [list[i] EXCEPT !.life = "dead"]
    OBVIOUS
  <2>2. e \in NodeSet /\ e.name = list[i].name /\ e.weight = list[i].weight
        /\ e.ref = list[i].ref /\ e.wrr = list[i].wrr /\ e.life = "dead"
    BY <1>3, <2>1 DEF NodeSet
  <2>3. PICK new : new = [list EXCEPT ![i] = e]
    OBVIOUS
  <2>4. new = Failed(list, b)
    BY <1>2, <1>5, <2>1, <2>3 DEF Failed
  <2>5. /\ new \in Seq(NodeSet) /\ Len(new) = Len(list)
        /\ \A j \in 1..Len(list) : new[j] = IF j = i THEN e ELSE list[j]
    BY <1>1, <2>2, <2>3, ExceptSeq
  <2>6. PICK g : g = [k \in 1..Len(list) |-> k]
    OBVIOUS
  <2>7. /\ g \in [1..Len(new) -> 1..Len(list)]
        /\ \A k, l \in 1..Len(new) : g[k] = g[l] => k = l
        /\ \A j \in 1..Len(list) : list[j].ref # 0 => \E k \in 1..Len(new) : g[k] = j
    BY <2>5, <2>6
  <2>8. \A k \in 1..Len(new) : /\ new[k].name = list[g[k]].name
                               /\ new[k].weight = list[g[k]].weight
                               /\ new[k].ref = list[g[k]].ref
                               /\ new[k].wrr = list[g[k]].wrr
                               /\ list[g[k]].life = "dead" => new[k].life = "dead"
    BY <2>2, <2>5, <2>6
  <2>9. Fits(new, U) /\ Older(new, list)
    <3>1. Traced(new, list, g)
      BY <2>5, <2>7, <2>8 DEF Traced
    <3> QED BY <2>8, <3>1, FitsOlder
  <2> QED BY <2>4, <2>9
<1> QED BY <1>4, <1>5

\* A node with another mark.
LEMMA RemarkedFits ==
    ASSUME NEW list, NEW U, Fits(list, U), NEW i \in 1..Len(list), NEW e \in NodeSet,
           e.name = list[i].name, e.weight = list[i].weight, e.ref = list[i].ref,
           e.wrr = list[i].wrr
    PROVE LET new == [list EXCEPT ![i] = e] IN
          /\ Fits(new, U) /\ Len(new) = Len(list)
          /\ e.name # Watched \/ e.life = "dead" \/ list[i].life # "dead" => Older(new, list)
<1>1. PICK new : new = [list EXCEPT ![i] = e]
  OBVIOUS
<1>2. list \in Seq(NodeSet)
  BY DEF Fits
<1>3. /\ new \in Seq(NodeSet) /\ Len(new) = Len(list)
      /\ \A j \in 1..Len(list) : new[j] = IF j = i THEN e ELSE list[j]
  BY <1>1, <1>2, ExceptSeq
<1>4. PICK g : g = [k \in 1..Len(list) |-> k]
  OBVIOUS
<1>5. /\ g \in [1..Len(new) -> 1..Len(list)]
      /\ \A k, l \in 1..Len(new) : g[k] = g[l] => k = l
      /\ \A j \in 1..Len(list) : list[j].ref # 0 => \E k \in 1..Len(new) : g[k] = j
  BY <1>3, <1>4
<1>6. \A k \in 1..Len(new) : /\ new[k].name = list[g[k]].name
                             /\ new[k].weight = list[g[k]].weight
                             /\ new[k].ref = list[g[k]].ref
                             /\ new[k].wrr = list[g[k]].wrr
  BY <1>3, <1>4
<1>7. Traced(new, list, g)
  BY <1>3, <1>5, <1>6 DEF Traced
<1>8. ASSUME e.name # Watched \/ e.life = "dead" \/ list[i].life # "dead"
      PROVE \A k \in 1..Len(new) :
              ~(new[k].name = Watched /\ list[g[k]].life = "dead" /\ new[k].life # "dead")
  BY <1>3, <1>4, <1>8
<1>9. Fits(new, U)
  BY <1>7, FitsOlder
<1>10. e.name # Watched \/ e.life = "dead" \/ list[i].life # "dead" => Older(new, list)
  BY <1>7, <1>8, FitsOlder
<1> QED BY <1>1, <1>3, <1>9, <1>10

\* A list with other references, for other users.
LEMMA FitsOthers ==
    ASSUME NEW list, NEW U, Fits(list, U), NEW i \in 1..Len(list), NEW e \in NodeSet,
           e.name = list[i].name, e.weight = list[i].weight, e.wrr =< e.weight,
           NEW V, e.ref = Cardinality(Users(V, e.name)),
           \A b : b # e.name /\ b # NoBackend => Users(V, b) = Users(U, b),
           \A s \in Session : V[s] = U[s] \/ V[s] \in {e.name, NoBackend}
    PROVE Fits([list EXCEPT ![i] = e], V)
<1>1. PICK new : new = [list EXCEPT ![i] = e]
  OBVIOUS
<1>2. list \in Seq(NodeSet)
  BY DEF Fits
<1>3. /\ new \in Seq(NodeSet) /\ Len(new) = Len(list)
      /\ \A j \in 1..Len(list) : new[j] = IF j = i THEN e ELSE list[j]
  BY <1>1, <1>2, ExceptSeq
<1>4. \A j \in 1..Len(list) : new[j].name = list[j].name /\ new[j].weight = list[j].weight
  BY <1>3
<1>5. ASSUME NEW j \in 1..Len(new)
      PROVE /\ new[j].weight = WeightOf(new[j].name) /\ new[j].wrr =< new[j].weight
            /\ new[j].ref = Cardinality(Users(V, new[j].name))
  <2>1. /\ list[j].weight = WeightOf(list[j].name) /\ list[j].wrr =< list[j].weight
        /\ list[j].ref = Cardinality(Users(U, list[j].name))
    BY <1>3 DEF Fits
  <2>2. CASE j = i
    BY <1>3, <2>1, <2>2
  <2>3. CASE j # i
    <3>1. list[j].name # e.name
      BY <1>3, <2>3 DEF Fits
    <3>2. list[j].name # NoBackend
      <4>1. list[j] \in NodeSet
        BY <1>2, <1>3, ElementOfSeq
      <4> QED BY <4>1, RouterAssumption DEF NodeSet
    <3> QED BY <1>3, <2>1, <2>3, <3>1, <3>2
  <2> QED BY <2>2, <2>3
<1>6. \A j, k \in 1..Len(new) : new[j].name = new[k].name => j = k
  BY <1>3, <1>4 DEF Fits
<1>7. Names(new) = Names(list)
  BY <1>3, <1>4 DEF Names
<1>8. e.name \in Names(list)
  BY DEF Names
<1>9. \A s \in Session : V[s] \in Names(new) \cup {NoBackend}
  BY <1>7, <1>8 DEF Fits
<1> QED BY <1>1, <1>3, <1>5, <1>6, <1>9 DEF Fits

\* The backends that sessions use.
Uses == [Session -> Backend \cup {NoBackend}]

\* A session lets its backend go.
LEMMA ReleasedFits ==
    ASSUME NEW list, NEW U \in Uses, Fits(list, U), NEW s \in Session, U[s] # NoBackend
    PROVE LET b == U[s]
              new == [list EXCEPT ![IndexOf(list, b)].ref = @ - 1] IN
          /\ b \in Names(list) /\ b \in Names(new) /\ Len(new) = Len(list)
          /\ Fits(new, [U EXCEPT ![s] = NoBackend]) /\ Older(new, list)
<1>1. PICK b \in Backend : b = U[s]
  BY DEF Uses
<1>2. b \in Names(list) /\ list \in Seq(NodeSet)
  BY <1>1 DEF Fits
<1>3. PICK i \in 1..Len(list) : i = IndexOf(list, b) /\ list[i].name = b
  BY <1>2, IndexIs
<1>4. list[i] \in NodeSet
  BY <1>2, ElementOfSeq
<1>5. /\ list[i].weight = WeightOf(list[i].name) /\ list[i].wrr =< list[i].weight
      /\ list[i].ref = Cardinality(Users(U, b))
  BY <1>3 DEF Fits
<1>6. s \in Users(U, b)
  BY <1>1 DEF Users
<1>7. list[i].ref \in Nat /\ list[i].ref # 0
  BY <1>4, <1>5, <1>6, UsersCount DEF NodeSet
<1>8. PICK e : e = [list[i] EXCEPT !.ref = @ - 1]
  OBVIOUS
<1>9. /\ e \in NodeSet /\ e.name = list[i].name /\ e.weight = list[i].weight
      /\ e.ref = list[i].ref - 1 /\ e.wrr = list[i].wrr /\ e.life = list[i].life
  BY <1>4, <1>7, <1>8 DEF NodeSet
<1>10. PICK V : V = [U EXCEPT ![s] = NoBackend]
  OBVIOUS
<1>11. \A t \in Session : V[t] = IF t = s THEN NoBackend ELSE U[t]
  BY <1>10 DEF Uses
<1>12. Users(V, b) = Users(U, b) \ {s} /\ \A c : c # b /\ c # NoBackend => Users(V, c) = Users(U, c)
  <2>1. b # NoBackend
    BY RouterAssumption
  <2> QED BY <1>1, <1>11, <2>1 DEF Users
<1>13. Cardinality(Users(V, b)) = Cardinality(Users(U, b)) - 1
  BY <1>6, <1>12, UsersCount, FS_RemoveElement
<1>14. PICK new : new = [list EXCEPT ![i] = e]
  OBVIOUS
<1>15. Fits(new, V)
  <2>1. \A t \in Session : V[t] = U[t] \/ V[t] \in {e.name, NoBackend}
    BY <1>11
  <2>2. e.ref = Cardinality(Users(V, e.name)) /\ e.wrr =< e.weight
    BY <1>3, <1>5, <1>9, <1>13
  <2>3. \A c : c # e.name /\ c # NoBackend => Users(V, c) = Users(U, c)
    BY <1>3, <1>9, <1>12
  <2>4. e.name = list[i].name /\ e.weight = list[i].weight
    BY <1>9
  <2>5. e \in NodeSet /\ e.ref = Cardinality(Users(V, e.name)) /\ e.wrr =< e.weight
    BY <1>9, <2>2
  <2> HIDE <1>9
  <2> QED BY <1>14, <2>1, <2>3, <2>4, <2>5, FitsOthers
<1>16. /\ Len(new) = Len(list)
       /\ \A j \in 1..Len(list) : new[j] = IF j = i THEN e ELSE list[j]
  BY <1>2, <1>9, <1>14, ExceptSeq
<1>17. \A j \in 1..Len(list) : /\ new[j].name = list[j].name /\ new[j].wrr = list[j].wrr
                               /\ new[j].life = list[j].life
  BY <1>9, <1>16
<1>18. Older(new, list)
  BY <1>16, <1>17 DEF Older
<1>19. b \in Names(new)
  BY <1>3, <1>16, <1>17 DEF Names
<1>20. new = [list EXCEPT ![IndexOf(list, b)].ref = @ - 1]
  BY <1>3, <1>8, <1>14
<1>21. /\ b \in Names(list) /\ b \in Names(new) /\ Len(new) = Len(list)
       /\ Fits(new, V) /\ Older(new, list)
  BY <1>2, <1>15, <1>16, <1>18, <1>19
<1> QED BY <1>1, <1>10, <1>20, <1>21

\* A session gets a backend.
LEMMA TakenFits ==
    ASSUME algo \in {"wrr", "lrc", "wlrc"}, NEW list, NEW U \in Uses, Fits(list, U),
           NEW s \in Session, U[s] = NoBackend, NEW i \in 1..Len(list),
           algo = "wrr" => list[i].wrr > 0
    PROVE /\ Fits([list EXCEPT ![i] = Taken(list[i])], [U EXCEPT ![s] = list[i].name])
          /\ Taken(list[i]) \in NodeSet
          /\ Taken(list[i]).name = list[i].name /\ Taken(list[i]).life = list[i].life
          /\ Taken(list[i]).wrr = IF algo = "wrr" THEN list[i].wrr - 1 ELSE list[i].wrr
<1>1. list \in Seq(NodeSet)
  BY DEF Fits
<1>2. PICK n \in NodeSet : n = list[i]
  BY <1>1, ElementOfSeq
<1>3. /\ n.weight = WeightOf(n.name) /\ n.wrr =< n.weight /\ n.ref = Cardinality(Users(U, n.name))
  BY <1>2 DEF Fits
<1>4. n.wrr \in 0..2 /\ n.ref \in Nat /\ n.weight \in {1, 2}
  BY DEF NodeSet
<1>5. PICK w \in 0..2 : w = IF algo = "wrr" THEN n.wrr - 1 ELSE n.wrr
  BY <1>2, <1>4
<1>6. PICK e : e = [n EXCEPT !.ref = n.ref + 1, !.wrr = w]
  OBVIOUS
<1>7. e = Taken(n)
  BY <1>5, <1>6 DEF Taken
<1>8. /\ e \in NodeSet /\ e.name = n.name /\ e.weight = n.weight
      /\ e.ref = n.ref + 1 /\ e.wrr = w /\ e.life = n.life
  <2>1. PICK r \in Nat : r = n.ref + 1
    BY <1>4
  <2>2. e = [n EXCEPT !.ref = r, !.wrr = w]
    BY <1>6, <2>1
  <2>3. /\ e \in NodeSet /\ e.name = n.name /\ e.weight = n.weight
        /\ e.ref = r /\ e.wrr = w /\ e.life = n.life
    BY <2>2 DEF NodeSet
  <2> QED BY <2>1, <2>3
<1>9. PICK V : V = [U EXCEPT ![s] = n.name]
  OBVIOUS
<1>10. \A t \in Session : V[t] = IF t = s THEN n.name ELSE U[t]
  BY <1>9 DEF Uses
<1>11. n.name # NoBackend
  BY RouterAssumption DEF NodeSet
<1>12. /\ Users(V, n.name) = Users(U, n.name) \cup {s} /\ s \notin Users(U, n.name)
       /\ \A c : c # n.name /\ c # NoBackend => Users(V, c) = Users(U, c)
  BY <1>10, <1>11 DEF Users
<1>13. Cardinality(Users(V, n.name)) = Cardinality(Users(U, n.name)) + 1
  BY <1>12, UsersCount, FS_AddElement
<1>14. Fits([list EXCEPT ![i] = e], V)
  <2>1. \A t \in Session : V[t] = U[t] \/ V[t] \in {e.name, NoBackend}
    BY <1>8, <1>10
  <2>2. e.ref = Cardinality(Users(V, e.name))
    BY <1>3, <1>8, <1>13
  <2>3. \A c : c # e.name /\ c # NoBackend => Users(V, c) = Users(U, c)
    BY <1>8, <1>12
  <2>4. e.wrr =< e.weight
    BY <1>3, <1>4, <1>5, <1>8
  <2>5. e.name = list[i].name /\ e.weight = list[i].weight
    BY <1>2, <1>8
  <2> QED BY <1>8, <2>1, <2>2, <2>3, <2>4, <2>5, FitsOthers
<1> QED BY <1>2, <1>5, <1>7, <1>8, <1>9, <1>14

\* The turns that the backends beside Watched can have, and have in a list.
Shares == {t \in (Backend \ {Watched}) \X {1, 2} : t[2] = 1 \/ t[1] \in Heavy}
Share == Cardinality(Backend \ {Watched}) + Cardinality(Heavy \ {Watched})
Turns(list) == {t \in Shares : \E i \in 1..Len(list) : list[i].name = t[1] /\ t[2] =< list[i].wrr}

\* Watched, when it has been passed over p times, will be picked before the
\* bound: the others have turns left, and get new ones once, if it has none.
Patient(list, p) ==
    /\ p \in 0..(2 * Share)
    /\ \A i \in 1..Len(list) : list[i].name = Watched /\ list[i].life # "dead" =>
        p + Cardinality(Turns(list)) + (IF list[i].wrr = 0 THEN Share ELSE 0) =< 2 * Share

\* The shares are counted.
LEMMA SharesCount ==
    /\ Share \in Nat
    /\ \A list : /\ IsFiniteSet(Turns(list)) /\ Cardinality(Turns(list)) \in 0..Share
<1> DEFINE A == Backend \ {Watched}
           H == Heavy \ {Watched}
<1>1. IsFiniteSet(A) /\ IsFiniteSet(H)
  <2>1. IsFiniteSet(Backend) /\ A \in SUBSET Backend /\ H \in SUBSET Backend
    BY RouterAssumption
  <2> QED BY <2>1, FS_Subset
<1>2. Cardinality(A) \in Nat /\ Cardinality(H) \in Nat
  BY <1>1, FS_CardinalityType
<1>3. IsFiniteSet({1}) /\ IsFiniteSet({2}) /\ Cardinality({1}) = 1 /\ Cardinality({2}) = 1
  BY FS_Singleton
<1>4. /\ IsFiniteSet(A \X {1}) /\ Cardinality(A \X {1}) = Cardinality(A) * 1
      /\ IsFiniteSet(H \X {2}) /\ Cardinality(H \X {2}) = Cardinality(H) * 1
  BY <1>1, <1>3, FS_Product
<1>5. (A \X {1}) \cap (H \X {2}) = {}
  OBVIOUS
<1>6. Shares = (A \X {1}) \cup (H \X {2})
  BY RouterAssumption DEF Shares
<1>7. IsFiniteSet(Shares) /\ Cardinality(Shares) = Cardinality(A) * 1 + Cardinality(H) * 1 - 0
  <2> HIDE DEF A, H
  <2>1. Cardinality((A \X {1}) \cap (H \X {2})) = 0
    BY <1>5, FS_EmptySet
  <2>2. PICK X : X = A \X {1}
    OBVIOUS
  <2>3. PICK Y : Y = H \X {2}
    OBVIOUS
  <2>4. IsFiniteSet(X \cup Y) /\ Cardinality(X \cup Y) = Cardinality(X) + Cardinality(Y) - Cardinality(X \cap Y)
    BY <1>4, <2>2, <2>3, FS_Union
  <2> QED BY <1>4, <1>6, <2>1, <2>2, <2>3, <2>4
<1>8. Cardinality(Shares) = Share /\ Share \in Nat
  BY <1>2, <1>7 DEF Share
<1>9. ASSUME NEW list PROVE IsFiniteSet(Turns(list)) /\ Cardinality(Turns(list)) \in 0..Share
  <2>1. Turns(list) \in SUBSET Shares
    BY DEF Turns
  <2>2. IsFiniteSet(Turns(list)) /\ Cardinality(Turns(list)) =< Share
    BY <1>7, <1>8, <2>1, FS_Subset
  <2>3. Cardinality(Turns(list)) \in Nat
    BY <2>2, FS_CardinalityType
  <2> QED BY <1>8, <2>2, <2>3
<1> QED BY <1>8, <1>9

\* A backend that has just been picked, or is not in turn, is not passed over.
LEMMA PatientAfresh ==
    ASSUME NEW list
    PROVE Patient(list, 0)
<1>1. Share \in Nat /\ Cardinality(Turns(list)) \in 0..Share
  BY SharesCount
<1> QED BY <1>1 DEF Patient

\* Fewer turns of the others are no harm.
LEMMA PatientOlder ==
    ASSUME NEW list, NEW new, Older(new, list), NEW p, Patient(list, p)
    PROVE Patient(new, p)
<1>1. Turns(new) \in SUBSET Turns(list)
  <2> SUFFICES ASSUME NEW t \in Turns(new) PROVE t \in Turns(list)
    OBVIOUS
  <2>1. t \in Shares /\ t[2] \in {1, 2}
    BY DEF Turns, Shares
  <2>2. PICK k \in 1..Len(new) : new[k].name = t[1] /\ t[2] =< new[k].wrr
    BY DEF Turns
  <2>3. new[k].wrr # 0
    BY <2>1, <2>2
  <2>4. PICK i \in 1..Len(list) : new[k].name = list[i].name /\ new[k].wrr = list[i].wrr
    BY <2>3 DEF Older
  <2> QED BY <2>1, <2>2, <2>4 DEF Turns
<1>2. Cardinality(Turns(new)) =< Cardinality(Turns(list))
  BY <1>1, SharesCount, FS_Subset
<1>3. /\ Share \in Nat /\ Cardinality(Turns(new)) \in Nat /\ Cardinality(Turns(list)) \in Nat
      /\ p \in 0..(2 * Share)
  BY SharesCount DEF Patient
<1>4. ASSUME NEW k \in 1..Len(new), new[k].name = Watched, new[k].life # "dead"
      PROVE p + Cardinality(Turns(new)) + (IF new[k].wrr = 0 THEN Share ELSE 0) =< 2 * Share
  <2>1. PICK i \in 1..Len(list) :
            /\ new[k].name = list[i].name /\ new[k].wrr = list[i].wrr
            /\ new[k].name = Watched /\ list[i].life = "dead" => new[k].life = "dead"
    BY <1>4 DEF Older
  <2>2. p + Cardinality(Turns(list)) + (IF list[i].wrr = 0 THEN Share ELSE 0) =< 2 * Share
    BY <1>4, <2>1 DEF Patient
  <2> QED BY <1>2, <1>3, <2>1, <2>2
<1> QED BY <1>3, <1>4 DEF Patient

\* Another backend takes a turn.
LEMMA TurnTaken ==
    ASSUME NEW list \in Seq(NodeSet), \A i, j \in 1..Len(list) : list[i].name = list[j].name => i = j,
           NEW p, Patient(list, p), NEW i \in 1..Len(list), list[i].wrr > 0,
           NEW e \in NodeSet, e.name = list[i].name, e.wrr = list[i].wrr - 1,
           list[i].wrr =< WeightOf(list[i].name),
           list[i].name # Watched,
           NEW j \in 1..Len(list), list[j].name = Watched, list[j].life # "dead"
    PROVE Patient([list EXCEPT ![i] = e], p + 1)
<1>1. PICK new : new = [list EXCEPT ![i] = e]
  OBVIOUS
<1>2. /\ new \in Seq(NodeSet) /\ Len(new) = Len(list)
      /\ \A k \in 1..Len(list) : new[k] = IF k = i THEN e ELSE list[k]
  BY <1>1, ExceptSeq
<1>3. PICK w \in {1, 2} : w = list[i].wrr
  <2>1. list[i] \in NodeSet
    BY ElementOfSeq
  <2>2. list[i].wrr \in 0..2
    BY <2>1 DEF NodeSet
  <2> QED BY <2>2
<1>4. PICK b \in Backend : b = list[i].name
  BY DEF NodeSet
<1>5. <<b, w>> \in Turns(list)
  <2>1. w = 1 \/ b \in Heavy
    BY <1>3, <1>4 DEF WeightOf
  <2> QED BY <1>3, <1>4, <2>1 DEF Turns, Shares
<1>6. Turns(new) \in SUBSET (Turns(list) \ {<<b, w>>})
  <2> SUFFICES ASSUME NEW t \in Turns(new) PROVE t \in Turns(list) /\ t # <<b, w>>
    OBVIOUS
  <2>1. t \in Shares /\ t[2] \in {1, 2}
    BY DEF Turns, Shares
  <2>2. PICK k \in 1..Len(list) : new[k].name = t[1] /\ t[2] =< new[k].wrr
    BY <1>2 DEF Turns
  <2>3. CASE k = i
    <3>1. t[1] = b /\ t[2] =< w - 1
      BY <1>2, <1>3, <1>4, <2>2, <2>3
    <3>2. t[2] =< list[i].wrr /\ t[2] # w
      BY <1>3, <2>1, <3>1
    <3> QED BY <1>4, <2>1, <3>1, <3>2 DEF Turns
  <2>4. CASE k # i
    <3>1. new[k] = list[k] /\ list[k].name # b
      BY <1>2, <1>4, <2>4
    <3> QED BY <2>1, <2>2, <3>1 DEF Turns
  <2> QED BY <2>3, <2>4
<1>7. Cardinality(Turns(new)) =< Cardinality(Turns(list)) - 1
  <2>1. Cardinality(Turns(list) \ {<<b, w>>}) = Cardinality(Turns(list)) - 1
        /\ IsFiniteSet(Turns(list) \ {<<b, w>>})
    BY <1>5, SharesCount, FS_RemoveElement
  <2>2. Cardinality(Turns(new)) =< Cardinality(Turns(list) \ {<<b, w>>})
    BY <1>6, <2>1, FS_Subset
  <2> QED BY <2>1, <2>2
<1>8. /\ Share \in Nat /\ Cardinality(Turns(new)) \in Nat /\ Cardinality(Turns(list)) \in Nat
      /\ p \in 0..(2 * Share)
  BY SharesCount DEF Patient
<1>9. p + Cardinality(Turns(list)) + (IF list[j].wrr = 0 THEN Share ELSE 0) =< 2 * Share
  BY DEF Patient
<1>10. p + 1 \in 0..(2 * Share)
  BY <1>7, <1>8, <1>9
<1>11. ASSUME NEW k \in 1..Len(new), new[k].name = Watched, new[k].life # "dead"
       PROVE p + 1 + Cardinality(Turns(new)) + (IF new[k].wrr = 0 THEN Share ELSE 0) =< 2 * Share
  <2>1. k # i /\ new[k] = list[k] /\ k = j
    BY <1>2, <1>11
  <2>2. new[k].wrr = list[j].wrr
    BY <2>1
  <2> QED BY <1>7, <1>8, <1>9, <2>2
<1> QED BY <1>1, <1>10, <1>11 DEF Patient

\* A set of numbers with 0, and with n + 1 whenever it has n, has them all.
LEMMA AllNumbers ==
    ASSUME NEW T, 0 \in T, \A n \in Nat : n \in T => n + 1 \in T
    PROVE \A n \in Nat : n \in T
<1> SUFFICES ASSUME Nat \ T # {} PROVE FALSE
  OBVIOUS
<1>1. Nat \ T \in SUBSET Nat
  OBVIOUS
<1>2. PICK x \in Nat \ T : \A y \in Nat \ T : x =< y
  BY <1>1, LeastExists
<1>3. x # 0
  BY <1>2
<1>4. x - 1 \in Nat /\ x - 1 \notin Nat \ T
  BY <1>2, <1>3
<1> QED BY <1>2, <1>4

\* The scan of a list, up to node n.
IsScan(list, fewer, n, scan) ==
    scan = [i \in 0..n |-> IF i = 0 THEN [min |-> 0, at |-> 0, stop |-> FALSE]
                           ELSE Looked(list, fewer, scan[i - 1], i)]

\* There is one.
LEMMA ScanExists ==
    ASSUME NEW list, NEW fewer, NEW m \in Nat
    PROVE \E scan : IsScan(list, fewer, m, scan)
<1> DEFINE T == {n \in Nat : \E scan : IsScan(list, fewer, n, scan)}
<1>1. 0 \in T
  <2>1. PICK r : r = [min |-> 0, at |-> 0, stop |-> FALSE]
    OBVIOUS
  <2>2. PICK f : f = [i \in {0} |-> r]
    OBVIOUS
  <2>3. f = [i \in {0} |-> IF i = 0 THEN r ELSE Looked(list, fewer, f[i - 1], i)]
    BY <2>2
  <2>4. 0..0 = {0}
    OBVIOUS
  <2>5. IsScan(list, fewer, 0, f)
    BY <2>1, <2>3, <2>4 DEF IsScan
  <2> QED BY <2>5
<1>2. ASSUME NEW n \in Nat, n \in T PROVE n + 1 \in T
  <2>1. PICK f : IsScan(list, fewer, n, f)
    BY <1>2
  <2> DEFINE g == [i \in 0..(n + 1) |-> IF i = 0 THEN [min |-> 0, at |-> 0, stop |-> FALSE]
                                        ELSE Looked(list, fewer, f[i - 1], i)]
  <2>2. ASSUME NEW i \in 0..n PROVE g[i] = f[i]
    <3>1. f[i] = IF i = 0 THEN [min |-> 0, at |-> 0, stop |-> FALSE]
                 ELSE Looked(list, fewer, f[i - 1], i)
      BY <2>1, Zenon DEF IsScan
    <3>2. i \in 0..(n + 1)
      OBVIOUS
    <3>3. g[i] = IF i = 0 THEN [min |-> 0, at |-> 0, stop |-> FALSE]
                 ELSE Looked(list, fewer, f[i - 1], i)
      BY <3>2, Zenon
    <3> HIDE DEF g
    <3> QED BY <3>1, <3>3
  <2>3. \A i \in 0..(n + 1) : i # 0 => i - 1 \in 0..n
    OBVIOUS
  <2>4. IsScan(list, fewer, n + 1, g)
    BY <2>2, <2>3 DEF IsScan
  <2>5. \E scan : IsScan(list, fewer, n + 1, scan)
    <3> HIDE DEF g
    <3> QED BY <2>4
  <2> QED BY <2>5
<1>3. m \in T
  <2> HIDE DEF T
  <2> QED BY <1>1, <1>2, AllNumbers
<1> QED BY <1>3

\* Least takes its value from it.
LEMMA LeastIs ==
    ASSUME NEW list, NEW fewer, NEW m \in Nat, m = Len(list)
    PROVE \E scan : IsScan(list, fewer, m, scan) /\ Least(list, fewer) = scan[m].at
<1> DEFINE P(scan) == scan = [i \in 0..Len(list) |->
                                IF i = 0 THEN [min |-> 0, at |-> 0, stop |-> FALSE]
                                ELSE Looked(list, fewer, scan[i - 1], i)]
<1>1. Least(list, fewer) = (CHOOSE scan : P(scan))[Len(list)].at
  BY DEF Least
<1>2. \A scan : IsScan(list, fewer, m, scan) <=> P(scan)
  BY DEF IsScan
<1> HIDE DEF P
<1>3. \E scan : P(scan)
  BY <1>2, ScanExists
<1>4. P(CHOOSE scan : P(scan))
  BY <1>3
<1> QED BY <1>1, <1>2, <1>4

\* The costs of the nodes.
LEMMA Costs ==
    ASSUME NEW n \in NodeSet
    PROVE Cost(n) \in Nat /\ (Cost(n) = 0 => n.ref = 0)
<1>1. n.ref \in Nat /\ n.weight \in {1, 2}
  BY DEF NodeSet
<1>2. CASE algo = "wlrc"
  <2>1. CASE n.weight = 1
    <3>1. Cost(n) = (2 * n.ref) \div 1
      BY <1>2, <2>1 DEF Cost
    <3> QED BY <1>1, <3>1
  <2>2. CASE n.weight = 2
    <3>1. Cost(n) = (2 * n.ref) \div 2
      BY <1>2, <2>2 DEF Cost
    <3> QED BY <1>1, <3>1
  <2> QED BY <1>1, <2>1, <2>2
<1>3. CASE algo # "wlrc"
  BY <1>1, <1>3 DEF Cost
<1> QED BY <1>2, <1>3

\* What the scan knows after node i of a list in which a dead node is in use.
Knows(list, i, was) ==
    /\ was.min \in Nat /\ was.stop \in BOOLEAN
    /\ was.at = 0 => was.min = 0 /\ ~was.stop /\ LiveIn(list) \cap (1..i) = {}
    /\ was.at # 0 => was.at \in LiveIn(list) \cap (1..i) /\ was.min = Cost(list[was.at])
    /\ was.min # 0 => ~was.stop /\ \A j \in LiveIn(list) \cap (1..i) : was.min =< Cost(list[j])
    /\ was.at # 0 /\ was.min = 0 /\ ~was.stop =>
        was.at = i /\ i < Len(list) /\ Cost(list[i + 1]) = 0

\* Least is a live node with the least references, if there is a live node.
LEMMA LeastFair ==
    ASSUME NEW list \in Seq(NodeSet), NEW fewer,
           \A i \in 1..Len(list) : list[i].life = "dead" => list[i].ref > 0
    PROVE /\ Least(list, fewer) \in LiveIn(list) \cup {0}
          /\ Least(list, fewer) = 0 => LiveIn(list) = {}
          /\ Least(list, fewer) # 0 =>
                \A j \in LiveIn(list) : Cost(list[Least(list, fewer)]) =< Cost(list[j])
<1>1. PICK m \in Nat : m = Len(list)
  OBVIOUS
<1>2. PICK scan : IsScan(list, fewer, m, scan) /\ Least(list, fewer) = scan[m].at
  BY <1>1, LeastIs
<1> DEFINE T == {n \in Nat : n =< m => Knows(list, n, scan[n])}
<1>3. 0 \in T
  <2>1. scan[0] = [min |-> 0, at |-> 0, stop |-> FALSE]
    BY <1>2 DEF IsScan
  <2>2. LiveIn(list) \cap (1..0) = {}
    OBVIOUS
  <2>3. Knows(list, 0, scan[0])
    BY <2>1, <2>2 DEF Knows
  <2> QED BY <2>3
<1>4. ASSUME NEW n \in Nat, n \in T PROVE n + 1 \in T
  <2> SUFFICES ASSUME n + 1 =< m PROVE Knows(list, n + 1, scan[n + 1])
    OBVIOUS
  <2>1. PICK was : was = scan[n]
    OBVIOUS
  <2>2. Knows(list, n, was)
    BY <1>4, <2>1
  <2>3. PICK i \in 1..m : i = n + 1 /\ n = i - 1
    OBVIOUS
  <2>4. PICK is : is = Looked(list, fewer, was, i)
    OBVIOUS
  <2>5. scan[n + 1] = is
    <3>1. n + 1 \in 0..m /\ n + 1 # 0 /\ n + 1 - 1 = n
      OBVIOUS
    <3> QED BY <1>2, <2>1, <2>3, <2>4, <3>1 DEF IsScan
  <2>6. list[i] \in NodeSet
    BY <1>1, ElementOfSeq
  <2>7. PICK c \in Nat : c = Cost(list[i])
    BY <2>6, Costs
  <2>8. \A j \in 1..Len(list) : Cost(list[j]) \in Nat /\ (Cost(list[j]) = 0 => j \in LiveIn(list))
    <3> SUFFICES ASSUME NEW j \in 1..Len(list)
                 PROVE Cost(list[j]) \in Nat /\ (Cost(list[j]) = 0 => j \in LiveIn(list))
      OBVIOUS
    <3>1. list[j] \in NodeSet
      BY ElementOfSeq
    <3>2. Cost(list[j]) \in Nat /\ (Cost(list[j]) = 0 => list[j].ref = 0)
      BY <3>1, Costs
    <3> QED BY <3>2 DEF LiveIn
  <2>9. LiveIn(list) \cap (1..i) = (LiveIn(list) \cap (1..n)) \cup (LiveIn(list) \cap {i})
    BY <2>3
  <2>10. CASE was.stop
    <3>1. is = was
      BY <2>4, <2>10 DEF Looked
    <3>2. was.at # 0
      BY <2>2, <2>10 DEF Knows
    <3>3. was.at \in LiveIn(list) \cap (1..i)
      BY <2>2, <2>9, <3>2 DEF Knows
    <3>4. was.min = 0
      BY <2>2, <2>10 DEF Knows
    <3> QED BY <2>2, <2>3, <2>5, <2>10, <3>1, <3>2, <3>3, <3>4 DEF Knows
  <2>11. CASE ~was.stop /\ i \notin LiveIn(list)
    <3>1. is = was /\ LiveIn(list) \cap (1..i) = LiveIn(list) \cap (1..n)
      BY <2>4, <2>9, <2>11 DEF Looked
    <3>2. ~(was.at # 0 /\ was.min = 0)
      BY <1>1, <2>2, <2>3, <2>8, <2>11 DEF Knows
    <3> QED BY <2>2, <2>3, <2>5, <2>9, <2>11, <3>1, <3>2 DEF Knows
  <2>12. CASE ~was.stop /\ i \in LiveIn(list) /\ was.min # 0 /\ c >= was.min
    <3>1. is = was
      BY <2>4, <2>7, <2>12 DEF Looked
    <3>2. was.at # 0 /\ was.at \in LiveIn(list) \cap (1..i)
      BY <2>2, <2>9, <2>12 DEF Knows
    <3>3. \A j \in LiveIn(list) \cap (1..i) : was.min =< Cost(list[j])
      BY <2>2, <2>7, <2>9, <2>12 DEF Knows
    <3> QED BY <2>2, <2>3, <2>5, <2>12, <3>1, <3>2, <3>3 DEF Knows
  <2>13. CASE ~was.stop /\ i \in LiveIn(list) /\ ~(was.min # 0 /\ c >= was.min)
    <3>1. PICK goOn \in BOOLEAN : goOn <=> (i < Len(list) /\ Cost(list[i + 1]) =< c /\ i \in fewer)
      OBVIOUS
    <3>2. PICK st \in BOOLEAN : st <=> (c = 0 /\ ~goOn)
      OBVIOUS
    <3>3. is = [min |-> c, at |-> i, stop |-> st]
      BY <2>4, <2>7, <2>13, <3>1, <3>2 DEF Looked
    <3>4. is.min = c /\ is.at = i /\ is.stop = st
      BY <3>3
    <3>5. \A j \in LiveIn(list) \cap (1..i) : c # 0 => c =< Cost(list[j])
      <4> SUFFICES ASSUME NEW j \in LiveIn(list) \cap (1..i), c # 0 PROVE c =< Cost(list[j])
        OBVIOUS
      <4>1. was.min \in Nat
        BY <2>2 DEF Knows
      <4>2. CASE j = i
        BY <2>7, <4>2
      <4>3. CASE j # i
        <5>1. j \in LiveIn(list) \cap (1..n)
          BY <2>9, <4>3
        <5>2. was.at # 0
          BY <2>2, <5>1 DEF Knows
        <5>3. was.min # 0
          <6>1. CASE was.min = 0
            <7>1. Cost(list[n + 1]) = 0
              BY <2>2, <2>13, <5>2, <6>1 DEF Knows
            <7> QED BY <2>3, <2>7, <7>1
          <6> QED BY <6>1
        <5>4. was.min =< Cost(list[j]) /\ j \in 1..Len(list)
          BY <2>2, <5>1, <5>3 DEF Knows, LiveIn
        <5> QED BY <2>7, <2>8, <2>13, <4>1, <5>3, <5>4
      <4> QED BY <4>2, <4>3
    <3>6. c = 0 /\ ~st => i < Len(list) /\ Cost(list[i + 1]) = 0
      <4> SUFFICES ASSUME c = 0, ~st PROVE i < Len(list) /\ Cost(list[i + 1]) = 0
        OBVIOUS
      <4>1. i < Len(list) /\ Cost(list[i + 1]) =< 0
        BY <3>1, <3>2
      <4>2. i + 1 \in 1..Len(list)
        BY <1>1, <4>1
      <4> QED BY <2>8, <4>1, <4>2
    <3>7. i \in LiveIn(list) \cap (1..i) /\ i # 0
      BY <2>13
    <3>8. Knows(list, i, is)
      BY <2>7, <3>2, <3>4, <3>5, <3>6, <3>7 DEF Knows
    <3> QED BY <2>3, <2>5, <3>8
  <2> QED BY <2>10, <2>11, <2>12, <2>13
<1>5. m \in T
  <2> HIDE DEF T
  <2> QED BY <1>3, <1>4, AllNumbers
<1>6. Knows(list, m, scan[m])
  BY <1>5
<1>7. LiveIn(list) \cap (1..m) = LiveIn(list)
  BY <1>1 DEF LiveIn
<1>8. \A j \in LiveIn(list) : Cost(list[j]) \in Nat
  <2> SUFFICES ASSUME NEW j \in LiveIn(list) PROVE Cost(list[j]) \in Nat
    OBVIOUS
  <2>1. list[j] \in NodeSet
    BY ElementOfSeq DEF LiveIn
  <2> QED BY <2>1, Costs
<1> QED BY <1>2, <1>6, <1>7, <1>8 DEF Knows

\* Every live node gets its share, at least one turn.
LEMMA RefilledFits ==
    ASSUME NEW list, NEW U, Fits(list, U), LiveIn(list) # {}
    PROVE /\ Fits(Refilled(list), U) /\ Len(Refilled(list)) = Len(list)
          /\ \A i \in 1..Len(list) : /\ Refilled(list)[i].name = list[i].name
                                     /\ Refilled(list)[i].life = list[i].life
          /\ \A i \in LiveIn(list) : Refilled(list)[i].wrr > 0
<1>1. list \in Seq(NodeSet)
  BY DEF Fits
<1>2. PICK n \in Nat : n = Len(list)
  BY <1>1
<1>3. \A i \in 1..n : list[i] \in NodeSet
  BY <1>1, <1>2, ElementOfSeq
<1>4. PICK weights : weights = {list[i].weight : i \in LiveIn(list)}
  OBVIOUS
<1>5. LiveIn(list) \subseteq 1..n
  BY <1>2 DEF LiveIn
<1>6. weights \subseteq {1, 2} /\ weights # {}
  BY <1>3, <1>4, <1>5 DEF NodeSet
<1>7. \E w \in weights : \A v \in weights : w =< v
  <2>1. CASE 1 \in weights
    BY <1>6, <2>1
  <2>2. CASE 1 \notin weights
    <3>1. weights = {2}
      BY <1>6, <2>2
    <3> QED BY <3>1
  <2> QED BY <2>1, <2>2
<1>8. PICK min \in weights : /\ \A v \in weights : min =< v
                             /\ min = CHOOSE w \in weights : \A v \in weights : w =< v
  BY <1>7
<1>9. PICK new : new = [i \in 1..n |-> IF i \notin LiveIn(list) THEN list[i]
                                       ELSE [list[i] EXCEPT !.wrr = list[i].weight \div min]]
  OBVIOUS
<1>10. Refilled(list) = new
  BY <1>2, <1>4, <1>8, <1>9 DEF Refilled
<1>11. ASSUME NEW i \in 1..n
       PROVE /\ new[i] \in NodeSet /\ new[i].name = list[i].name /\ new[i].life = list[i].life
             /\ new[i].weight = list[i].weight /\ new[i].ref = list[i].ref
             /\ new[i].wrr =< new[i].weight
             /\ i \in LiveIn(list) => new[i].wrr > 0
  <2>1. PICK r \in NodeSet : r = list[i]
    BY <1>3
  <2>2. CASE i \notin LiveIn(list)
    <3>1. new[i] = r
      BY <1>9, <2>1, <2>2
    <3>2. r.wrr =< r.weight
      BY <1>2, <2>1 DEF Fits
    <3> QED BY <2>1, <2>2, <3>1, <3>2
  <2>3. CASE i \in LiveIn(list)
    <3>1. r.weight \in weights /\ r.weight \in {1, 2} /\ min \in {1, 2} /\ min =< r.weight
      BY <1>4, <1>6, <1>8, <2>1, <2>3 DEF NodeSet
    <3>2. r.weight \div min \in {1, 2} /\ r.weight \div min =< r.weight
      <4>1. CASE min = 1
        <5>1. r.weight \div 1 = r.weight
          BY <3>1
        <5> QED BY <3>1, <4>1, <5>1
      <4>2. CASE min = 2
        <5>1. r.weight = 2 /\ 2 \div 2 = 1
          BY <3>1, <4>2
        <5> QED BY <4>2, <5>1
      <4> QED BY <3>1, <4>1, <4>2
    <3>3. PICK w \in 0..2 : w = r.weight \div min /\ w > 0 /\ w =< r.weight
      BY <3>2
    <3>4. new[i] = [r EXCEPT !.wrr = w]
      BY <1>9, <2>1, <2>3, <3>3
    <3>5. PICK e : e = [r EXCEPT !.wrr = w]
      OBVIOUS
    <3>6. /\ e \in NodeSet /\ e.name = r.name /\ e.life = r.life /\ e.weight = r.weight
          /\ e.ref = r.ref /\ e.wrr = w
      BY <3>5 DEF NodeSet
    <3> QED BY <2>1, <3>3, <3>4, <3>5, <3>6
  <2> QED BY <2>2, <2>3
<1>12. new \in [1..n -> NodeSet]
  BY <1>9, <1>11
<1>13. new \in Seq(NodeSet) /\ Len(new) = n
  BY <1>12, FunctionIsList
<1>14. PICK g : g = [i \in 1..n |-> i]
  OBVIOUS
<1>15. /\ g \in [1..Len(new) -> 1..Len(list)]
       /\ \A k, l \in 1..Len(new) : g[k] = g[l] => k = l
       /\ \A i \in 1..Len(list) : list[i].ref # 0 => \E k \in 1..Len(new) : g[k] = i
  BY <1>2, <1>13, <1>14
<1>16. \A k \in 1..Len(new) : /\ new[k].name = list[g[k]].name
                              /\ new[k].weight = list[g[k]].weight
                              /\ new[k].ref = list[g[k]].ref
                              /\ new[k].wrr =< new[k].weight
  BY <1>11, <1>13, <1>14
<1>17. Fits(new, U)
  <2>1. new \in Seq(NodeSet) /\ g \in [1..Len(new) -> 1..Len(list)]
    BY <1>13, <1>15
  <2> HIDE <1>11
  <2> QED BY <1>15, <1>16, <2>1, FitsKept, SMTT(30)
<1>18. \A i \in LiveIn(list) : new[i].wrr > 0
  BY <1>5, <1>11
<1>19. \A i \in 1..Len(list) : new[i].name = list[i].name /\ new[i].life = list[i].life
  BY <1>2, <1>11
<1>20. Len(new) = Len(list)
  BY <1>2, <1>13
<1> QED BY <1>10, <1>17, <1>18, <1>19, <1>20

\* The list that a pick leaves fits, and its node is live, has a turn left and
\* has the least references.
LEMMA PickFits ==
    ASSUME algo \in {"wrr", "lrc", "wlrc"}, NEW list, NEW U, Fits(list, U),
           NEW p, Patient(list, p), NEW fewer, NEW r, r = Pick(list, fewer)
    PROVE /\ Fits(r.list, U) /\ Patient(r.list, p)
          /\ r.at \in LiveIn(r.list) \cup {0} /\ LiveIn(r.list) \subseteq 1..Len(r.list)
          /\ r.at # 0 /\ algo = "wrr" => r.list[r.at].wrr > 0
          /\ r.at # 0 /\ algo # "wrr" =>
                \A j \in LiveIn(r.list) : Cost(r.list[r.at]) =< Cost(r.list[j])
<1>1. PICK m \in Nat : m = Len(list)
  BY DEF Fits
<1>2. list \in Seq(NodeSet)
  BY DEF Fits
<1>3. PICK ready \in SUBSET (1..m) :
        ready = {i \in 1..m : algo = "wrr" /\ Marked(list[i]).life # "dead" /\ list[i].wrr > 0}
  OBVIOUS
<1>4. \A i \in 1..m : list[i] \in NodeSet
  BY <1>1, <1>2, ElementOfSeq
<1>5. LiveIn(r.list) \subseteq 1..Len(r.list)
  BY DEF LiveIn
<1>6. CASE ready # {}
  <2>1. PICK first : first = FirstOf(ready)
    OBVIOUS
  <2>2. first \in ready
    <3>1. ready \in SUBSET Nat
      OBVIOUS
    <3>2. \E x \in ready : \A y \in ready : x =< y
      BY <1>6, <3>1, LeastExists
    <3> QED BY <2>1, <3>2 DEF FirstOf
  <2>3. first \in 1..m /\ first - 1 \in 0..m
    BY <2>2
  <2>4. PICK new : new = Swept(list, first - 1)
    OBVIOUS
  <2>5. r.list = new /\ r.at = Rank(Kept(list, first - 1), first)
    BY <1>1, <1>3, <1>6, <2>1, <2>4 DEF Pick
  <2>6. Fits(new, U) /\ Older(new, list)
    BY <1>1, <2>3, <2>4, SweptFits
  <2>7. PICK g : Sweeps(new, list, first - 1, g)
    BY <1>1, <1>2, <2>3, <2>4, SweptIs
  <2>8. first \in Kept(list, first - 1)
    BY <1>1, <2>3 DEF Kept
  <2>9. r.at \in 1..Len(new) /\ new[r.at] = list[first]
    BY <2>3, <2>5, <2>7, <2>8 DEF Sweeps
  <2>10. list[first].life # "dead" /\ list[first].wrr > 0 /\ algo = "wrr"
    <3>1. list[first] \in NodeSet
      BY <1>4, <2>3
    <3> QED BY <1>3, <2>2, <3>1, MarkedFields
  <2>11. r.at \in LiveIn(new)
    BY <2>9, <2>10 DEF LiveIn
  <2>12. Patient(new, p)
    BY <2>6, PatientOlder
  <2> QED BY <1>5, <2>5, <2>6, <2>9, <2>10, <2>11, <2>12
<1>7. CASE ready = {}
  <2>1. PICK swept : swept = Swept(list, m)
    OBVIOUS
  <2>2. m \in 0..m
    OBVIOUS
  <2>3. Fits(swept, U) /\ Older(swept, list) /\ swept \in Seq(NodeSet)
    BY <1>1, <2>1, <2>2, SweptFits DEF Fits
  <2>4. Patient(swept, p)
    BY <2>3, PatientOlder
  <2>5. ASSUME NEW k \in 1..Len(swept)
        PROVE \E i \in 1..m : swept[k] = Marked(list[i]) /\ (Marked(list[i]).life # "dead" \/ list[i].ref > 0)
    <3>0. m \in 0..Len(list)
      BY <1>1
    <3>1. PICK g : Sweeps(swept, list, m, g)
      BY <1>2, <2>1, <3>0, SweptIs
    <3>2. PICK i \in Kept(list, m) : i = g[k]
      BY <3>1 DEF Sweeps
    <3>3. i \in 1..m /\ (Marked(list[i]).life # "dead" \/ list[i].ref > 0)
      BY <1>1, <3>2 DEF Kept
    <3>4. ~(i > m)
      BY <3>3
    <3> QED BY <3>1, <3>2, <3>3, <3>4 DEF Sweeps
  <2>6. \A k \in 1..Len(swept) : swept[k].life = "dead" => swept[k].ref > 0
    <3> SUFFICES ASSUME NEW k \in 1..Len(swept), swept[k].life = "dead" PROVE swept[k].ref > 0
      OBVIOUS
    <3>1. PICK i \in 1..m : swept[k] = Marked(list[i]) /\ (Marked(list[i]).life # "dead" \/ list[i].ref > 0)
      BY <2>5
    <3>2. Marked(list[i]).ref = list[i].ref
      BY <1>4, MarkedFields
    <3> QED BY <3>1, <3>2
  <2>7. PICK live : live = LiveIn(swept)
    OBVIOUS
  <2>8. live \subseteq 1..Len(swept)
    BY <2>7 DEF LiveIn
  <2>9. CASE live = {}
    <3>1. r.list = swept /\ r.at = 0
      BY <1>1, <1>3, <1>7, <2>1, <2>7, <2>9 DEF Pick, NoneIn
    <3> QED BY <1>5, <2>3, <2>4, <3>1
  <2>10. CASE live # {} /\ algo = "wrr"
    <3>1. PICK new : new = Refilled(swept)
      OBVIOUS
    <3>2. r.list = new /\ r.at = LastOf(live)
      BY <1>1, <1>3, <1>7, <2>1, <2>7, <2>10, <3>1 DEF Pick
    <3>3. /\ Fits(new, U) /\ Len(new) = Len(swept)
          /\ \A i \in 1..Len(swept) : new[i].name = swept[i].name /\ new[i].life = swept[i].life
          /\ \A i \in live : new[i].wrr > 0
      BY <2>3, <2>7, <2>10, <3>1, RefilledFits
    <3>4. LiveIn(new) = live
      BY <2>7, <3>3 DEF LiveIn
    <3>5. LastOf(live) \in live
      <4>1. Len(swept) \in Nat
        BY <2>3
      <4>2. IsFiniteSet(1..Len(swept)) /\ live \in SUBSET (1..Len(swept))
        BY <2>8, <4>1, FS_Interval
      <4>3. IsFiniteSet(live) /\ live \in SUBSET Nat
        <5>1. IsFiniteSet(live)
          BY <4>2, FS_Subset
        <5>2. \A x \in live : x \in Nat
          BY <4>1, <4>2
        <5> QED BY <5>1, <5>2
      <4>4. \E x \in live : \A y \in live : y =< x
        BY <2>10, <4>3, GreatestExists
      <4> QED BY <4>4 DEF LastOf
    <3>6. Patient(new, p)
      <4>1. /\ Share \in Nat /\ Cardinality(Turns(new)) \in 0..Share
            /\ Cardinality(Turns(swept)) \in 0..Share /\ p \in 0..(2 * Share)
        BY <2>4, SharesCount DEF Patient
      <4>2. ASSUME NEW i \in 1..Len(new), new[i].name = Watched, new[i].life # "dead"
            PROVE p + Cardinality(Turns(new)) + (IF new[i].wrr = 0 THEN Share ELSE 0) =< 2 * Share
        <5>1. i \in live /\ i \in 1..Len(swept) /\ swept[i].name = Watched /\ swept[i].life # "dead"
          BY <2>7, <3>3, <4>2 DEF LiveIn
        <5>2. PICK j \in 1..m : swept[i] = Marked(list[j])
          BY <2>5, <5>1
        <5>3. Marked(list[j]).wrr = list[j].wrr /\ list[j].wrr \in 0..2
          BY <1>4, MarkedFields DEF NodeSet
        <5>4. ~(list[j].wrr > 0)
          BY <1>3, <1>7, <2>10, <5>1, <5>2
        <5>5. swept[i].wrr = 0
          BY <5>2, <5>3, <5>4
        <5>6. p + Cardinality(Turns(swept)) + Share =< 2 * Share
          BY <2>4, <5>1, <5>5 DEF Patient
        <5>7. new[i].wrr > 0
          BY <3>3, <5>1
        <5>8. new[i].wrr # 0
          BY <5>7
        <5> QED BY <4>1, <5>6, <5>8
      <4> QED BY <4>1, <4>2 DEF Patient
    <3> QED BY <1>5, <2>10, <3>2, <3>3, <3>4, <3>5, <3>6
  <2>11. CASE live # {} /\ algo # "wrr"
    <3>1. r.list = swept /\ r.at = Least(swept, fewer)
      BY <1>1, <1>3, <1>7, <2>1, <2>7, <2>11 DEF Pick
    <3>2. /\ Least(swept, fewer) \in LiveIn(swept) \cup {0}
          /\ Least(swept, fewer) # 0 =>
                \A j \in LiveIn(swept) : Cost(swept[Least(swept, fewer)]) =< Cost(swept[j])
      BY <2>3, <2>6, LeastFair
    <3> QED BY <1>5, <2>3, <2>4, <2>11, <3>1, <3>2
  <2> QED BY <2>9, <2>10, <2>11
<1> QED BY <1>6, <1>7

\* What a session is, and what it uses.
SessionSet == [at: {"idle", "connecting", "connected"}, un: Backend \cup {NoBackend},
               retries: 0..MaxRetries]

SessionsFit(f) ==
    f \in [Session -> SessionSet] /\ \A s \in Session : f[s].at = "idle" <=> f[s].un = NoBackend

UsedIn(f) == [s \in Session |-> f[s].un]

\* The invariant of the router.
RouterInv ==
    /\ algo \in {"wrr", "lrc", "wlrc"}
    /\ SessionsFit(session) /\ Fits(nodes, UsedIn(session))
    /\ cheap \in BOOLEAN /\ (cheap <=> nodes = <<>>)
    /\ least = TRUE /\ Patient(nodes, passed)

\* The router starts without nodes.
LEMMA RouterStarts == RouterInit => RouterInv
<1> SUFFICES ASSUME RouterInit PROVE RouterInv
  OBVIOUS
<1>1. Idle \in SessionSet /\ Idle.at = "idle" /\ Idle.un = NoBackend
  BY RouterAssumption DEF Idle, SessionSet
<1>2. session = [s \in Session |-> Idle]
  BY DEF RouterInit
<1>3. SessionsFit(session)
  BY <1>1, <1>2 DEF SessionsFit
<1>4. \A s \in Session : UsedIn(session)[s] = NoBackend
  BY <1>1, <1>2 DEF UsedIn
<1>5. nodes = <<>> /\ nodes \in Seq(NodeSet) /\ Len(nodes) = 0
  BY DEF RouterInit
<1>6. Fits(nodes, UsedIn(session))
  BY <1>4, <1>5 DEF Fits
<1>7. Patient(nodes, passed)
  BY PatientAfresh DEF RouterInit
<1> QED BY <1>3, <1>5, <1>6, <1>7 DEF RouterInv, RouterInit

\* A session that changes.
LEMMA SessionMoves ==
    ASSUME NEW f, SessionsFit(f), NEW s \in Session, NEW e \in SessionSet,
           e.at = "idle" <=> e.un = NoBackend
    PROVE /\ SessionsFit([f EXCEPT ![s] = e]) /\ UsedIn(f) \in Uses
          /\ UsedIn([f EXCEPT ![s] = e]) = [UsedIn(f) EXCEPT ![s] = e.un]
<1>1. PICK h : h = [f EXCEPT ![s] = e]
  OBVIOUS
<1>2. \A t \in Session : h[t] = IF t = s THEN e ELSE f[t]
  BY <1>1 DEF SessionsFit
<1>3. h \in [Session -> SessionSet]
  BY <1>1 DEF SessionsFit
<1>4. SessionsFit(h)
  BY <1>2, <1>3 DEF SessionsFit
<1>5. \A t \in Session : f[t].un \in Backend \cup {NoBackend}
  BY DEF SessionsFit, SessionSet
<1>6. UsedIn(f) \in Uses
  BY <1>5 DEF UsedIn, Uses
<1>7. UsedIn(h) = [UsedIn(f) EXCEPT ![s] = e.un]
  BY <1>2 DEF UsedIn
<1> QED BY <1>1, <1>4, <1>6, <1>7

\* What a session is mapped to.
LEMMA MapStep ==
    ASSUME algo \in {"wrr", "lrc", "wlrc"}, SessionsFit(session), NEW s \in Session,
           NEW list, Fits(list, [UsedIn(session) EXCEPT ![s] = NoBackend]),
           Patient(list, passed), NEW retries \in 0..MaxRetries,
           cheap = FALSE, least = TRUE, Map(s, list, retries), algo' = algo
    PROVE RouterInv'
<1>1. PICK V : V = [UsedIn(session) EXCEPT ![s] = NoBackend]
  OBVIOUS
<1>2. Idle \in SessionSet /\ Idle.at = "idle" /\ Idle.un = NoBackend
  BY RouterAssumption DEF Idle, SessionSet
<1>3. UsedIn(session) \in Uses /\ V \in Uses /\ V[s] = NoBackend
  <2>1. UsedIn(session) \in Uses
    BY <1>2, SessionMoves
  <2> QED BY <1>1, <2>1 DEF Uses
<1>4. PICK fewer : LET p == Pick(list, fewer)
                       i == p.at
                       b == p.list[i].name
                       turn == Watched # b /\ \E j \in LiveIn(p.list) :
                                   p.list[j].name = Watched /\ p.list[j].life = "live"
                   IN IF i = 0
                      THEN /\ nodes' = p.list
                           /\ session' = [session EXCEPT ![s] = Idle]
                           /\ cheap' = (p.list = <<>>)
                           /\ UNCHANGED <<passed, least>>
                      ELSE /\ nodes' = [p.list EXCEPT ![i] = Taken(p.list[i])]
                           /\ session' = [session EXCEPT ![s] =
                                           [at |-> "connecting", un |-> b, retries |-> retries]]
                           /\ passed' = IF algo = "wrr" /\ turn THEN passed + 1 ELSE 0
                           /\ least' = (i \in LiveIn(p.list) /\
                                        (algo # "wrr" => \A j \in LiveIn(p.list) :
                                            Cost(p.list[i]) =< Cost(p.list[j])))
                           /\ UNCHANGED cheap
  BY DEF Map
<1>5. PICK p : p = Pick(list, fewer)
  OBVIOUS
<1>6. Fits(list, V)
  BY <1>1
<1>7. /\ Fits(p.list, V) /\ Patient(p.list, passed)
      /\ p.at \in LiveIn(p.list) \cup {0} /\ LiveIn(p.list) \subseteq 1..Len(p.list)
      /\ p.at # 0 /\ algo = "wrr" => p.list[p.at].wrr > 0
      /\ p.at # 0 /\ algo # "wrr" =>
            \A j \in LiveIn(p.list) : Cost(p.list[p.at]) =< Cost(p.list[j])
  BY <1>5, <1>6, PickFits
<1>8. CASE p.at = 0
  <2>1. /\ nodes' = p.list /\ session' = [session EXCEPT ![s] = Idle]
        /\ cheap' = (p.list = <<>>) /\ passed' = passed /\ least' = least
    BY <1>4, <1>5, <1>8
  <2>2. SessionsFit(session') /\ UsedIn(session') = V
    <3>1. PICK e \in SessionSet : e = Idle
      BY <1>2
    <3>2. e.at = "idle" /\ e.un = NoBackend
      BY <1>2, <3>1
    <3>3. /\ SessionsFit([session EXCEPT ![s] = e])
          /\ UsedIn([session EXCEPT ![s] = e]) = [UsedIn(session) EXCEPT ![s] = e.un]
      BY <3>2, SessionMoves
    <3> QED BY <1>1, <2>1, <3>1, <3>2, <3>3
  <2> QED BY <1>7, <2>1, <2>2 DEF RouterInv
<1>9. CASE p.at # 0
  <2>1. PICK i \in LiveIn(p.list) : i = p.at
    BY <1>7, <1>9
  <2>2. i \in 1..Len(p.list) /\ p.list \in Seq(NodeSet)
    BY <1>7 DEF Fits
  <2>3. PICK n \in NodeSet : n = p.list[i]
    BY <2>2, ElementOfSeq
  <2>4. PICK turn \in BOOLEAN :
            turn <=> (Watched # n.name /\ \E j \in LiveIn(p.list) :
                        p.list[j].name = Watched /\ p.list[j].life = "live")
    OBVIOUS
  <2>5. /\ nodes' = [p.list EXCEPT ![i] = Taken(p.list[i])]
        /\ session' = [session EXCEPT ![s] =
                        [at |-> "connecting", un |-> n.name, retries |-> retries]]
        /\ passed' = IF algo = "wrr" /\ turn THEN passed + 1 ELSE 0
        /\ least' = (i \in LiveIn(p.list) /\
                     (algo # "wrr" => \A j \in LiveIn(p.list) :
                         Cost(p.list[i]) =< Cost(p.list[j])))
        /\ cheap' = cheap
    BY <1>4, <1>5, <1>9, <2>1, <2>3, <2>4
  <2>6. PICK e : e = [at |-> "connecting", un |-> n.name, retries |-> retries]
    OBVIOUS
  <2>7. e \in SessionSet /\ e.at # "idle" /\ e.un = n.name /\ n.name # NoBackend
    BY <2>6, RouterAssumption DEF SessionSet, NodeSet
  <2>8. PICK t : t = Taken(n)
    OBVIOUS
  <2>9. /\ Fits(nodes', [V EXCEPT ![s] = n.name]) /\ t \in NodeSet /\ t.name = n.name
        /\ t.wrr = IF algo = "wrr" THEN n.wrr - 1 ELSE n.wrr
    BY <1>3, <1>7, <1>9, <2>1, <2>2, <2>3, <2>5, <2>8, TakenFits
  <2>10. SessionsFit(session') /\ UsedIn(session') = [V EXCEPT ![s] = n.name]
    <3>1. SessionsFit(session') /\ UsedIn(session') = [UsedIn(session) EXCEPT ![s] = n.name]
      <4>1. /\ SessionsFit([session EXCEPT ![s] = e])
            /\ UsedIn([session EXCEPT ![s] = e]) = [UsedIn(session) EXCEPT ![s] = e.un]
        BY <2>7, SessionMoves
      <4> QED BY <2>5, <2>6, <2>7, <4>1
    <3> QED BY <1>1, <1>3, <3>1 DEF Uses
  <2>11. nodes' # <<>>
    <3>1. Len(nodes') = Len(p.list)
      BY <2>2, <2>3, <2>5, <2>8, <2>9, ExceptSeq
    <3> QED BY <2>2, <3>1
  <2>12. least' = TRUE
    BY <1>7, <1>9, <2>1, <2>5
  <2>13. Patient(nodes', passed')
    <3>1. CASE algo = "wrr" /\ turn
      <4>1. PICK j \in LiveIn(p.list) : p.list[j].name = Watched
        BY <2>4, <3>1
      <4>2. j \in 1..Len(p.list) /\ p.list[j].life # "dead"
        BY DEF LiveIn
      <4>3. n.wrr =< WeightOf(n.name) /\ n.wrr > 0 /\ n.name # Watched
        BY <1>7, <1>9, <2>1, <2>2, <2>3, <2>4, <3>1 DEF Fits
      <4>4. \A k, l \in 1..Len(p.list) : p.list[k].name = p.list[l].name => k = l
        BY <1>7 DEF Fits
      <4>5. Patient([p.list EXCEPT ![i] = t], passed + 1)
        BY <1>7, <2>2, <2>3, <2>9, <3>1, <4>1, <4>2, <4>3, <4>4, TurnTaken
      <4> QED BY <2>3, <2>5, <2>8, <3>1, <4>5
    <3>2. CASE ~(algo = "wrr" /\ turn)
      BY <2>5, <3>2, PatientAfresh
    <3> QED BY <3>1, <3>2
  <2> QED BY <2>5, <2>9, <2>10, <2>11, <2>12, <2>13 DEF RouterInv
<1> QED BY <1>8, <1>9

\* A session that uses a backend finds its node.
LEMMA SessionUses ==
    ASSUME RouterInv, NEW s \in Session
    PROVE /\ session[s] \in SessionSet /\ UsedIn(session) \in Uses
          /\ UsedIn(session)[s] = session[s].un
          /\ session[s].at = "idle" <=> session[s].un = NoBackend
          /\ session[s].un # NoBackend => /\ session[s].un \in Names(nodes)
                                          /\ nodes # <<>> /\ cheap = FALSE
<1>1. /\ session[s] \in SessionSet /\ UsedIn(session)[s] = session[s].un
      /\ session[s].at = "idle" <=> session[s].un = NoBackend
  BY DEF RouterInv, SessionsFit, UsedIn
<1>2. UsedIn(session) \in Uses
  BY DEF RouterInv, SessionsFit, UsedIn, Uses, SessionSet
<1>3. ASSUME session[s].un # NoBackend
      PROVE session[s].un \in Names(nodes) /\ nodes # <<>> /\ cheap = FALSE
  <2>1. session[s].un \in Names(nodes)
    BY <1>1, <1>3 DEF RouterInv, Fits
  <2>2. Len(nodes) # 0
    BY <2>1 DEF Names
  <2> QED BY <2>1, <2>2 DEF RouterInv
<1> QED BY <1>1, <1>2, <1>3

\* A request.
LEMMA RequestStep ==
    ASSUME RouterInv, NEW s \in Session, Request(s)
    PROVE RouterInv'
<1>1. session[s].at = "idle" /\ cheap = FALSE /\ Map(s, nodes, 0) /\ algo' = algo
  BY DEF Request, RouterInv
<1>2. session[s].un = NoBackend
  BY <1>1, SessionUses
<1>3. [UsedIn(session) EXCEPT ![s] = NoBackend] = UsedIn(session)
  BY <1>2, SessionUses DEF Uses
<1>4. 0 \in 0..MaxRetries
  BY RouterAssumption
<1> QED BY <1>1, <1>3, <1>4, MapStep DEF RouterInv

\* A connection.
LEMMA ConnectStep ==
    ASSUME RouterInv, NEW s \in Session, Connect(s)
    PROVE RouterInv'
<1>1. PICK n \in SessionSet : n = session[s]
  BY SessionUses
<1>2. PICK e : e = [n EXCEPT !.at = "connected", !.retries = 0]
  OBVIOUS
<1>3. 0 \in 0..MaxRetries
  BY RouterAssumption
<1>4. e \in SessionSet /\ e.at = "connected" /\ e.un = n.un
  BY <1>1, <1>2, <1>3 DEF SessionSet
<1>5. n.un # NoBackend
  BY <1>1, SessionUses DEF Connect
<1>6. session' = [session EXCEPT ![s] = e]
  BY <1>1, <1>2 DEF Connect
<1>7. /\ SessionsFit([session EXCEPT ![s] = e])
      /\ UsedIn([session EXCEPT ![s] = e]) = [UsedIn(session) EXCEPT ![s] = e.un]
  BY <1>4, <1>5, SessionMoves DEF RouterInv
<1>8. [UsedIn(session) EXCEPT ![s] = e.un] = UsedIn(session)
  BY <1>1, <1>4, SessionUses DEF Uses
<1> QED BY <1>6, <1>7, <1>8 DEF RouterInv, Connect

\* Idle is a session that uses nothing.
LEMMA IdleMoves ==
    ASSUME NEW f, SessionsFit(f), NEW s \in Session
    PROVE /\ SessionsFit([f EXCEPT ![s] = Idle])
          /\ UsedIn([f EXCEPT ![s] = Idle]) = [UsedIn(f) EXCEPT ![s] = NoBackend]
<1>1. Idle \in SessionSet /\ Idle.at = "idle" /\ Idle.un = NoBackend
  BY RouterAssumption DEF Idle, SessionSet
<1>2. PICK e \in SessionSet : e = Idle
  BY <1>1
<1>3. e.at = "idle" /\ e.un = NoBackend
  BY <1>1, <1>2
<1>4. /\ SessionsFit([f EXCEPT ![s] = e])
      /\ UsedIn([f EXCEPT ![s] = e]) = [UsedIn(f) EXCEPT ![s] = e.un]
  BY <1>3, SessionMoves
<1> QED BY <1>2, <1>3, <1>4

\* The list when session s has let its backend go.
LEMMA SessionReleases ==
    ASSUME RouterInv, NEW s \in Session, session[s].at # "idle",
           NEW b, b = session[s].un, NEW new, new = [nodes EXCEPT ![IndexOf(nodes, b)].ref = @ - 1]
    PROVE /\ b \in Names(new) /\ Len(new) = Len(nodes) /\ nodes # <<>> /\ cheap = FALSE
          /\ Fits(new, [UsedIn(session) EXCEPT ![s] = NoBackend])
          /\ Older(new, nodes)
<1>1. UsedIn(session) \in Uses /\ UsedIn(session)[s] = b /\ b # NoBackend
  BY SessionUses
<1>2. Fits(nodes, UsedIn(session))
  BY DEF RouterInv
<1>3. /\ b \in Names(nodes) /\ b \in Names(new) /\ Len(new) = Len(nodes)
      /\ Fits(new, [UsedIn(session) EXCEPT ![s] = NoBackend]) /\ Older(new, nodes)
  <2>1. PICK U \in Uses : U = UsedIn(session)
    BY <1>1
  <2>2. U[s] # NoBackend /\ Fits(nodes, U)
    BY <1>1, <1>2, <2>1
  <2>3. LET c == U[s]
            l == [nodes EXCEPT ![IndexOf(nodes, c)].ref = @ - 1] IN
        /\ c \in Names(nodes) /\ c \in Names(l) /\ Len(l) = Len(nodes)
        /\ Fits(l, [U EXCEPT ![s] = NoBackend]) /\ Older(l, nodes)
    BY <2>2, ReleasedFits
  <2> QED BY <1>1, <2>1, <2>3
<1>4. nodes # <<>> /\ cheap = FALSE
  BY <1>1, SessionUses
<1> QED BY <1>3, <1>4

\* The end of a session.
LEMMA CloseStep ==
    ASSUME RouterInv, NEW s \in Session, Close(s)
    PROVE RouterInv'
<1>1. /\ session[s].at # "idle" /\ session' = [session EXCEPT ![s] = Idle]
      /\ nodes' = [nodes EXCEPT ![IndexOf(nodes, session[s].un)].ref = @ - 1]
      /\ algo' = algo /\ cheap' = cheap /\ passed' = passed /\ least' = least
  BY DEF Close
<1>2. /\ Len(nodes') = Len(nodes) /\ nodes # <<>> /\ cheap = FALSE
      /\ Fits(nodes', [UsedIn(session) EXCEPT ![s] = NoBackend]) /\ Older(nodes', nodes)
  BY <1>1, SessionReleases
<1>3. SessionsFit(session') /\ UsedIn(session') = [UsedIn(session) EXCEPT ![s] = NoBackend]
  BY <1>1, IdleMoves DEF RouterInv
<1>4. Patient(nodes', passed')
  BY <1>1, <1>2, PatientOlder DEF RouterInv
<1>5. nodes' # <<>>
  <2>1. nodes \in Seq(NodeSet) /\ nodes' \in Seq(NodeSet)
    BY <1>2 DEF RouterInv, Fits
  <2> QED BY <1>2, <2>1, EmptySeq
<1> QED BY <1>1, <1>2, <1>3, <1>4, <1>5 DEF RouterInv

\* A failed connection, or an error of a connected peer.
LEMMA PeerFailsStep ==
    ASSUME RouterInv, NEW s \in Session, PeerFails(s)
    PROVE RouterInv'
<1>1. PICK b : b = session[s].un
  OBVIOUS
<1>2. PICK mid : mid = [nodes EXCEPT ![IndexOf(nodes, b)].ref = @ - 1]
  OBVIOUS
<1>3. PICK list : list = Failed(mid, b)
  OBVIOUS
<1>4. session[s].at # "idle" /\ algo' = algo
  BY DEF PeerFails
<1>5. PICK U : U = [UsedIn(session) EXCEPT ![s] = NoBackend]
  OBVIOUS
<1>6. b \in Names(mid) /\ cheap = FALSE /\ Fits(mid, U) /\ Older(mid, nodes)
  BY <1>1, <1>2, <1>4, <1>5, SessionReleases
<1>7. Fits(list, U) /\ Older(list, mid)
  BY <1>3, <1>6, FailedFits
<1>8. Patient(list, passed)
  BY <1>6, <1>7, PatientOlder DEF RouterInv
<1>9. PICK retries \in 0..MaxRetries : retries = session[s].retries
  BY SessionUses DEF SessionSet
<1>10. CASE session[s].at = "connecting" /\ retries < MaxRetries
  <2>1. Map(s, list, retries + 1)
    BY <1>1, <1>2, <1>3, <1>9, <1>10 DEF PeerFails
  <2>2. retries + 1 \in 0..MaxRetries
    BY <1>9, <1>10, RouterAssumption
  <2> QED BY <1>4, <1>5, <1>6, <1>7, <1>8, <2>1, <2>2, MapStep DEF RouterInv
<1>11. CASE ~(session[s].at = "connecting" /\ retries < MaxRetries)
  <2>1. /\ nodes' = list /\ session' = [session EXCEPT ![s] = Idle]
        /\ cheap' = (cheap \/ list = <<>>) /\ passed' = passed /\ least' = least
    BY <1>1, <1>2, <1>3, <1>9, <1>11 DEF PeerFails
  <2>2. SessionsFit(session') /\ UsedIn(session') = U
    BY <1>5, <2>1, IdleMoves DEF RouterInv
  <2> QED BY <1>4, <1>6, <1>7, <1>8, <2>1, <2>2 DEF RouterInv
<1> QED BY <1>10, <1>11

\* An announcement of a backend that the list does not have.
LEMMA AppendedFits ==
    ASSUME NEW list, NEW U, Fits(list, U), NEW b \in Backend, b \notin Names(list),
           NEW e, e = [name |-> b, weight |-> WeightOf(b), wrr |-> 0, ref |-> 0, life |-> "live"]
    PROVE /\ Fits(Append(list, e), U) /\ Append(list, e) # <<>>
          /\ b # Watched => Older(Append(list, e), list)
<1>1. list \in Seq(NodeSet) /\ Len(list) \in Nat
  BY DEF Fits
<1>2. PICK w \in {1, 2} : w = WeightOf(b)
  BY DEF WeightOf
<1>3. e \in NodeSet
  <2>1. e = [name |-> b, weight |-> w, wrr |-> 0, ref |-> 0, life |-> "live"]
    BY <1>2
  <2> QED BY <2>1 DEF NodeSet
<1>4. e.name = b /\ e.weight = w /\ e.wrr = 0 /\ e.ref = 0
  BY <1>2
<1>5. PICK new : new = Append(list, e)
  OBVIOUS
<1>6. /\ new \in Seq(NodeSet) /\ Len(new) = Len(list) + 1
      /\ \A i \in 1..Len(list) : new[i] = list[i]
      /\ new[Len(list) + 1] = e
  BY <1>1, <1>3, <1>5
<1>7. \A i \in 1..Len(new) : i \in 1..Len(list) \/ i = Len(list) + 1
  BY <1>1, <1>6
<1>8. \A i \in 1..Len(list) : list[i].name # b
  BY DEF Names
<1>9. Cardinality(Users(U, b)) = 0
  <2>1. b # NoBackend
    BY RouterAssumption
  <2>2. Users(U, b) = {}
    BY <2>1 DEF Users, Fits
  <2> QED BY <2>2, UsersCount
<1>10. ASSUME NEW i \in 1..Len(new)
       PROVE /\ new[i].weight = WeightOf(new[i].name) /\ new[i].wrr =< new[i].weight
             /\ new[i].ref = Cardinality(Users(U, new[i].name))
  <2>1. CASE i \in 1..Len(list)
    BY <1>6, <2>1 DEF Fits
  <2>2. CASE i = Len(list) + 1
    BY <1>2, <1>4, <1>6, <1>9, <2>2
  <2> QED BY <1>7, <2>1, <2>2
<1>11. ASSUME NEW i \in 1..Len(new), NEW j \in 1..Len(new), new[i].name = new[j].name
       PROVE i = j
  <2>1. CASE i \in 1..Len(list) /\ j \in 1..Len(list)
    BY <1>6, <1>11, <2>1 DEF Fits
  <2>2. CASE ~(i \in 1..Len(list) /\ j \in 1..Len(list))
    BY <1>4, <1>6, <1>7, <1>8, <1>11, <2>2
  <2> QED BY <2>1, <2>2
<1>12. Names(list) \subseteq Names(new)
  <2> SUFFICES ASSUME NEW i \in 1..Len(list) PROVE list[i].name \in Names(new)
    BY DEF Names
  <2>1. i \in 1..Len(new) /\ new[i] = list[i]
    BY <1>1, <1>6
  <2> QED BY <2>1 DEF Names
<1>13. \A s \in Session : U[s] \in Names(new) \cup {NoBackend}
  BY <1>12 DEF Fits
<1>14. Fits(new, U)
  BY <1>6, <1>10, <1>11, <1>13 DEF Fits
<1>15. ASSUME b # Watched PROVE Older(new, list)
  <2> SUFFICES ASSUME NEW k \in 1..Len(new)
               PROVE \/ new[k].name # Watched /\ new[k].wrr = 0
                     \/ \E i \in 1..Len(list) :
                         /\ new[k].name = list[i].name /\ new[k].wrr = list[i].wrr
                         /\ new[k].name = Watched /\ list[i].life = "dead" => new[k].life = "dead"
    BY DEF Older
  <2>1. CASE k \in 1..Len(list)
    BY <1>6, <2>1
  <2>2. CASE k = Len(list) + 1
    BY <1>4, <1>6, <1>15, <2>2
  <2> QED BY <1>7, <2>1, <2>2
<1>16. new # <<>>
  <2>1. Len(new) # 0
    BY <1>1, <1>6
  <2> QED BY <2>1
<1> QED BY <1>5, <1>14, <1>15, <1>16

\* An announcement.
LEMMA SubscribeStep ==
    ASSUME RouterInv, NEW b \in Backend, Subscribe(b)
    PROVE RouterInv'
<1>1. PICK known \in BOOLEAN :
        known <=> (b \in Names(nodes) /\ nodes[IndexOf(nodes, b)].life # "dead")
  OBVIOUS
<1>2. /\ nodes' = IF b \in Names(nodes)
                  THEN [nodes EXCEPT ![IndexOf(nodes, b)] =
                          [@ EXCEPT !.life = "live", !.weight = WeightOf(b)]]
                  ELSE Append(nodes, [name |-> b, weight |-> WeightOf(b), wrr |-> 0, ref |-> 0,
                                      life |-> "live"])
      /\ cheap' = FALSE
      /\ passed' = IF b = Watched /\ ~known THEN 0 ELSE passed
      /\ algo' = algo /\ session' = session /\ least' = least
  BY <1>1 DEF Subscribe, WeightOf
<1>3. PICK U : U = UsedIn(session)
  OBVIOUS
<1>4. Fits(nodes, U) /\ nodes \in Seq(NodeSet) /\ Patient(nodes, passed)
  BY <1>3 DEF RouterInv, Fits
<1>5. Fits(nodes', U) /\ nodes' # <<>> /\ (b # Watched \/ known => Older(nodes', nodes))
  <2>1. CASE b \in Names(nodes)
    <3>1. PICK i \in 1..Len(nodes) : i = IndexOf(nodes, b) /\ nodes[i].name = b
      BY <2>1, IndexIs
    <3>2. PICK n \in NodeSet : n = nodes[i]
      BY <1>4, ElementOfSeq
    <3>3. n.weight = WeightOf(b) /\ n.weight \in {1, 2}
      BY <1>4, <3>1, <3>2 DEF Fits, NodeSet
    <3>4. PICK w \in {1, 2} : w = n.weight
      BY <3>3
    <3>5. PICK e : e = [n EXCEPT !.life = "live", !.weight = w]
      OBVIOUS
    <3>6. /\ e \in NodeSet /\ e.name = n.name /\ e.weight = n.weight /\ e.ref = n.ref
          /\ e.wrr = n.wrr
      BY <3>4, <3>5 DEF NodeSet
    <3>7. nodes' = [nodes EXCEPT ![i] = e]
      BY <1>2, <2>1, <3>1, <3>2, <3>3, <3>4, <3>5
    <3>8. LET new == [nodes EXCEPT ![i] = e] IN
          /\ Fits(new, U) /\ Len(new) = Len(nodes)
          /\ e.name # Watched \/ e.life = "dead" \/ nodes[i].life # "dead" => Older(new, nodes)
      BY <1>4, <3>2, <3>6, RemarkedFits
    <3>9. nodes' # <<>>
      <4>1. Len(nodes') # 0
        BY <1>4, <3>1, <3>7, <3>8
      <4> QED BY <4>1
    <3> QED BY <1>1, <3>1, <3>2, <3>6, <3>7, <3>8, <3>9
  <2>2. CASE b \notin Names(nodes)
    <3>1. PICK e : e = [name |-> b, weight |-> WeightOf(b), wrr |-> 0, ref |-> 0, life |-> "live"]
      OBVIOUS
    <3>2. /\ Fits(Append(nodes, e), U) /\ Append(nodes, e) # <<>>
          /\ b # Watched => Older(Append(nodes, e), nodes)
      BY <1>4, <2>2, <3>1, AppendedFits
    <3> QED BY <1>1, <1>2, <2>2, <3>1, <3>2
  <2> QED BY <2>1, <2>2
<1>6. Patient(nodes', passed')
  <2>1. CASE b = Watched /\ ~known
    BY <1>2, <2>1, PatientAfresh
  <2>2. CASE ~(b = Watched /\ ~known)
    BY <1>2, <1>4, <1>5, <2>2, PatientOlder
  <2> QED BY <2>1, <2>2
<1> QED BY <1>2, <1>3, <1>5, <1>6 DEF RouterInv

\* A backend that says good-bye.
LEMMA UnsubscribeStep ==
    ASSUME RouterInv, NEW b \in Backend, Unsubscribe(b)
    PROVE RouterInv'
<1>1. /\ b \in Names(nodes) /\ nodes' = Failed(nodes, b) /\ cheap' = (nodes' = <<>>)
      /\ algo' = algo /\ session' = session /\ passed' = passed /\ least' = least
  BY DEF Unsubscribe
<1>2. PICK new : new = Failed(nodes, b)
  OBVIOUS
<1>3. Fits(new, UsedIn(session)) /\ Older(new, nodes)
  BY <1>1, <1>2, FailedFits DEF RouterInv
<1>4. Patient(new, passed)
  BY <1>3, PatientOlder DEF RouterInv
<1> QED BY <1>1, <1>2, <1>3, <1>4 DEF RouterInv

\* A backend that falls silent.
LEMMA SilenceStep ==
    ASSUME RouterInv, NEW b \in Backend, Silence(b)
    PROVE RouterInv'
<1>1. PICK i \in 1..Len(nodes) : i = IndexOf(nodes, b) /\ nodes[i].name = b
  BY IndexIs DEF Silence
<1>2. PICK U : U = UsedIn(session)
  OBVIOUS
<1>3. Fits(nodes, U) /\ nodes \in Seq(NodeSet) /\ Patient(nodes, passed)
  BY <1>2 DEF RouterInv, Fits
<1>4. PICK n \in NodeSet : n = nodes[i]
  BY <1>3, ElementOfSeq
<1>5. /\ n.life = "live" /\ nodes' = [nodes EXCEPT ![i].life = "silent"]
      /\ algo' = algo /\ session' = session /\ cheap' = cheap /\ passed' = passed /\ least' = least
  BY <1>1, <1>4 DEF Silence
<1>6. PICK e : e = [n EXCEPT !.life = "silent"]
  OBVIOUS
<1>7. /\ e \in NodeSet /\ e.name = n.name /\ e.weight = n.weight /\ e.ref = n.ref
      /\ e.wrr = n.wrr
  BY <1>6 DEF NodeSet
<1>8. nodes' = [nodes EXCEPT ![i] = e]
  BY <1>4, <1>5, <1>6
<1>9. LET new == [nodes EXCEPT ![i] = e] IN
      /\ Fits(new, U) /\ Len(new) = Len(nodes)
      /\ e.name # Watched \/ e.life = "dead" \/ nodes[i].life # "dead" => Older(new, nodes)
  BY <1>3, <1>4, <1>7, RemarkedFits
<1>10. Fits(nodes', U) /\ Len(nodes') = Len(nodes) /\ Older(nodes', nodes)
  BY <1>4, <1>5, <1>8, <1>9
<1>11. nodes # <<>> /\ nodes' # <<>>
  <2>1. Len(nodes) # 0
    BY <1>1, <1>3
  <2>2. Len(nodes') # 0
    BY <1>10, <2>1
  <2> QED BY <2>1, <2>2
<1>12. Patient(nodes', passed)
  BY <1>3, <1>10, PatientOlder
<1> QED BY <1>2, <1>5, <1>10, <1>11, <1>12 DEF RouterInv

\* Every step of the router keeps its invariant.
LEMMA RouterSteps == RouterInv /\ [RouterNext]_routerVars => RouterInv'
<1> SUFFICES ASSUME RouterInv, [RouterNext]_routerVars PROVE RouterInv'
  OBVIOUS
<1>1. CASE UNCHANGED routerVars
  BY <1>1 DEF routerVars, RouterInv
<1>2. ASSUME NEW s \in Session, Request(s) \/ Connect(s) \/ Close(s) \/ PeerFails(s)
      PROVE RouterInv'
  BY <1>2, RequestStep, ConnectStep, CloseStep, PeerFailsStep
<1>3. ASSUME NEW b \in Backend, Unsubscribe(b) \/ Silence(b) \/ Subscribe(b)
      PROVE RouterInv'
  BY <1>3, UnsubscribeStep, SilenceStep, SubscribeStep
<1> QED BY <1>1, <1>2, <1>3 DEF RouterNext

\* A list without two nodes of a name has as many names as nodes.
LEMMA NamesCount ==
    ASSUME NEW list, NEW U, Fits(list, U)
    PROVE Cardinality(Names(list)) = Len(list)
<1>1. PICK m \in Nat : m = Len(list)
  BY DEF Fits
<1>2. PICK f : f = [i \in 1..m |-> list[i].name]
  OBVIOUS
<1>3. f \in Surjection(1..m, Names(list))
  BY <1>1, <1>2 DEF Surjection, Names
<1>4. f \in Injection(1..m, Names(list))
  BY <1>1, <1>2 DEF Injection, IsInjective, Names, Fits
<1>5. IsFiniteSet(1..m)
  BY FS_Interval
<1>6. Cardinality(1..m) = IF 1 > m THEN 0 ELSE m - 1 + 1
  BY FS_Interval
<1>7. Cardinality(1..m) = m
  BY <1>6
<1> QED BY <1>1, <1>3, <1>4, <1>5, <1>7, FS_Surjection

\* The invariant says what the run checks.
LEMMA RouterInvImplies == RouterInv => NodesAreSound /\ FairPicks
<1> SUFFICES ASSUME RouterInv PROVE NodesAreSound /\ FairPicks
  OBVIOUS
<1>1. PICK U : U = UsedIn(session)
  OBVIOUS
<1>2. Fits(nodes, U) /\ nodes \in Seq(NodeSet) /\ \A s \in Session : U[s] = session[s].un
  BY <1>1 DEF RouterInv, Fits, UsedIn
<1>3. \A b : {s \in Session : session[s].un = b} = Users(U, b)
  BY <1>2 DEF Users
<1>4. PICK N : N = [name: Backend, weight: {1, 2}, wrr: 0..2, ref: 0..Cardinality(Session),
                    life: {"live", "silent", "dead"}]
  OBVIOUS
<1>5. ASSUME NEW i \in 1..Len(nodes)
      PROVE nodes[i] \in N /\ nodes[i].ref = Cardinality({s \in Session : session[s].un = nodes[i].name})
  <2>1. PICK n \in NodeSet : n = nodes[i]
    BY <1>2, ElementOfSeq
  <2>2. n.ref = Cardinality(Users(U, n.name))
    BY <1>2, <2>1 DEF Fits
  <2>3. n.ref \in 0..Cardinality(Session)
    BY <2>2, UsersCount
  <2>4. n \in N
    BY <1>4, <2>3 DEF NodeSet
  <2> QED BY <1>3, <2>1, <2>2, <2>4
<1>6. nodes \in Seq(N)
  <2>1. nodes \in [1..Len(nodes) -> N] /\ Len(nodes) \in Nat
    BY <1>2, <1>5, LenProperties
  <2> QED BY <2>1, FunctionIsList
<1>7. RouterTypeOK
  BY <1>4, <1>6 DEF RouterTypeOK, RouterInv, SessionsFit, SessionSet
<1>8. Cardinality(Names(nodes)) = Len(nodes)
  BY <1>2, NamesCount
<1>9. ReferencesMatchSessions
  BY <1>2, <1>5, <1>8 DEF ReferencesMatchSessions, Fits
<1>10. CheapIffNoNodes
  BY DEF RouterInv, CheapIffNoNodes
<1>11. NobodyStarves
  BY SharesCount DEF RouterInv, Patient, Share, NobodyStarves
<1> QED BY <1>7, <1>9, <1>10, <1>11 DEF NodesAreSound, FairPicks, PicksTheLeast, RouterInv

------------------------------------------------------------------------------
(* The services in the project's specification.                             *)

\* A step of the system is a step of one service and leaves the others alone.
LEMMA ServiceSteps ==
    ASSUME [Next]_vars
    PROVE /\ [LockNext]_lockVars /\ [QueueNext]_queueVars /\ [SpoolerNext]_spoolerVars
          /\ [LegionNext]_legionVars /\ [RouterNext]_routerVars
BY DEF Next, vars, InSpooler, restOfLock, restOfQueue, restOfSpooler, restOfLegion, restOfRouter

\* core/lock.c and the deadlock detector of the master, for any number of
\* processes that take, record, release, die and are noticed in any order: two
\* processes share a lock that one of them writes only after a stale pid or a
\* stray unlock, and a lock stays with nobody only after a pid was not recorded
\* or was overwritten.
THEOREM LocksHold == Spec => []LocksAreSound
<1>1. Init => LockInv
  BY LockStarts DEF Init
<1>2. LockInv /\ [Next]_vars => LockInv'
  BY LockSteps, ServiceSteps
<1> QED BY <1>1, <1>2, LockInvImplies, PTL DEF Spec

\* uwsgi_queue_push, pull and pop, as QueueImplementsDeque says, in the system.
THEOREM SharedQueueIsDeque == Spec => QueueIsDeque
<1>1. Init => QueueInit
  BY DEF Init
<1>2. [Next]_vars => [QueueNext]_queueVars
  BY ServiceSteps
<1> QED BY <1>1, <1>2, QueueImplementsDeque, PTL DEF Spec

\* core/spooler.c, for any number of tasks, writers and spoolers, and any kill: a
\* task is run by one spooler at a time, once, complete and not before its
\* time, but for a kill and for a look at a file that was not yet written, and
\* a file that is gone when a spooler comes to it had lost its arguments.
THEOREM TasksAreRunProperly == Spec => []TasksRunProperly
<1>1. Init => SpoolerInv
  BY SpoolerStarts DEF Init
<1>2. SpoolerInv /\ [Next]_vars => SpoolerInv'
  BY SpoolerSteps, ServiceSteps
<1> QED BY <1>1, <1>2, SpoolerInvImplies, PTL DEF Spec

\* core/legion.c, for every Legion whose quorum is more than half of its nodes:
\* as long as no packet is late for a whole tolerance and no node has stopped, of
\* two Lords the lower one already votes for a node as good as the other, and a
\* Legion whose nodes have nothing more to tell each other has one Lord, the best.
THEOREM OneLordHolds ==
    ASSUME 2 * Quorum > Cardinality(Member)
    PROVE Spec => []OneLord
<1>1. Init => LegionInv
  BY LegionStarts DEF Init
<1>2. LegionInv /\ [Next]_vars => LegionInv'
  BY LegionSteps, ServiceSteps
<1>3. LegionInv => OneLord
  BY LordsHandOver, RestHasOneLord DEF LegionInv, OneLord
<1> QED BY <1>1, <1>2, <1>3, PTL DEF Spec

\* core/subscription.c and plugins/corerouter, for any number of backends and
\* sessions: the references of a node are the sessions that use it, whichever
\* way nodes are swept, removed and announced again, and the router sleeps
\* exactly when its list is empty.
THEOREM NodesStaySound == Spec => []NodesAreSound
<1>1. Init => RouterInv
  BY RouterStarts DEF Init
<1>2. RouterInv /\ [Next]_vars => RouterInv'
  BY RouterSteps, ServiceSteps
<1> QED BY <1>1, <1>2, RouterInvImplies, PTL DEF Spec

\* The three algorithms of core/subscription.c: lrc and wlrc pick a live node
\* that has the least references, though their loop takes a minimum of 0 for
\* none, and wrr passes over a live node at most twice as often as the others
\* have turns, whatever nodes come and go meanwhile.
THEOREM PicksAreFair == Spec => []FairPicks
<1>1. Init => RouterInv
  BY RouterStarts DEF Init
<1>2. RouterInv /\ [Next]_vars => RouterInv'
  BY RouterSteps, ServiceSteps
<1> QED BY <1>1, <1>2, RouterInvImplies, PTL DEF Spec
==============================================================================
