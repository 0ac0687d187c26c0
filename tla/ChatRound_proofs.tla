--------------------------- MODULE ChatRound_proofs ---------------------------
(***************************************************************************)
(* Theorems of ChatRound, for any set of rounds and API processes, any     *)
(* TTLs, with or without the queue.                                        *)
(***************************************************************************)
EXTENDS ChatRound, TLAPS

LEMMA AtProcess == ASSUME NEW r \in Round PROVE At(r) \in Process
BY ProcessAssumption DEF At, Process

\* The keys keep their type when they are written and when they age.
LEMMA KeyTypes ==
    ASSUME NEW r \in Round
    PROVE  /\ LockFree \in Locks
           /\ [by |-> r, age |-> 0] \in Locks
           /\ Absent \in Markers
           /\ [status |-> "running", by |-> r, age |-> 0] \in Markers
           /\ [status |-> "interrupted", by |-> r, age |-> 0] \in Markers
BY LifetimeAssumption DEF LockFree, Absent, Locks, Markers

LEMMA ExpireTypes == LockTypeOK /\ ExpireKeys => LockTypeOK'
<1> SUFFICES ASSUME LockTypeOK, ExpireKeys PROVE LockTypeOK'
  OBVIOUS
<1>1. lock' \in Locks
  BY LifetimeAssumption
     DEF LockTypeOK, ExpireKeys, Older, LockFree, Locks
<1>2. marker' \in Markers
  BY LifetimeAssumption
     DEF LockTypeOK, ExpireKeys, Older, Absent, Markers
<1> QED
  BY <1>1, <1>2 DEF LockTypeOK

\* What a step of one round leaves of the types of pc and loop.
LEMMA StepTypes ==
    ASSUME TypeOK, NEW r \in Round, NEW from, NEW to \in Places,
           Go(r, from, to) \/ Await(r, from, to)
    PROVE  /\ pc' \in [Round -> Places]
           /\ loop' \in [Process -> Round \cup {None}]
BY AtProcess DEF TypeOK, RoundTypeOK, Go, Await, Step

\* The variables keep their types (services/session_lock.py, chat_task.py).
THEOREM TypeCorrect == Spec => []TypeOK
<1>1. Init => TypeOK
  BY LifetimeAssumption
     DEF Init, RoundInit, TypeOK, RoundTypeOK, LockTypeOK, LockFree, Absent,
         Locks, Markers, Places, Requesting
<1>2. TypeOK /\ [Next]_vars => TypeOK'
  <2> SUFFICES ASSUME TypeOK, [Next]_vars PROVE TypeOK'
    OBVIOUS
  <2> USE DEF TypeOK, RoundTypeOK
  <2>1. ASSUME NEW r \in Round, Enter(r) PROVE TypeOK'
    <3> USE <2>1, KeyTypes, StepTypes DEF LockTypeOK, task, Places, Requesting, Over
    <3>1. CASE Acquire(r) \/ Reacquire(r)
      BY <3>1 DEF Acquire, Reacquire, SetNX
    <3>2. CASE AcquireTaken(r) \/ ProbeRunning(r) \/ ProbeIdle(r) \/ ReacquireTaken(r)
      BY <3>2 DEF AcquireTaken, ProbeRunning, ProbeIdle, ReacquireTaken
    <3>3. CASE ForceRelease(r)
      BY <3>3 DEF ForceRelease, DeleteLock
    <3> QED
      BY <3>1, <3>2, <3>3 DEF Enter
  <2>2. ASSUME NEW r \in Round, Launch(r) PROVE TypeOK'
    <3> USE <2>2, KeyTypes, StepTypes DEF LockTypeOK, task, Places, Requesting, Aborting, Executing
    <3>1. CASE CommitAndMark(r)
      BY <3>1 DEF CommitAndMark, MarkRunning
    <3>2. CASE Build(r)
      BY <3>2 DEF Build
    <3>3. CASE Enqueue(r)
      BY <3>3 DEF Enqueue
    <3>4. CASE Start(r)
      BY <3>4 DEF Start
    <3>5. CASE StartRefused(r) \/ Pick(r)
      BY <3>5 DEF StartRefused, Pick
    <3> QED
      BY <3>1, <3>2, <3>3, <3>4, <3>5 DEF Launch
  <2>3. ASSUME NEW r \in Round, AbortCheck(r) \/ AbortUnlock(r) \/ AbortMark(r)
        PROVE TypeOK'
    BY <2>3, KeyTypes, StepTypes
       DEF LockTypeOK, task, Places, Aborting, Over, AbortCheck, AbortUnlock,
           AbortMark, DeleteToken, DeleteLock, DeleteMarker
  <2>4. ASSUME NEW r \in Round, Task(r) PROVE TypeOK'
    <3> USE <2>4, KeyTypes, StepTypes DEF LockTypeOK, task, Places, Executing, Over
    <3>1. CASE Finish(r)
      BY <3>1 DEF Finish
    <3>2. CASE Flush(r)
      BY <3>2 DEF Flush
    <3>3. CASE Save(r)
      BY <3>3 DEF Save
    <3>4. CASE CheckOwner(r) \/ UnlockCheck(r)
      BY <3>4 DEF CheckOwner, UnlockCheck
    <3>5. CASE Settle(r)
      BY <3>5 DEF Settle, DeleteMarker, MarkInterrupted
    <3>6. CASE Unlock(r)
      BY <3>6 DEF Unlock, DeleteToken, DeleteLock
    <3>7. CASE Close(r)
      BY <3>7 DEF Close
    <3> QED
      BY <3>1, <3>2, <3>3, <3>4, <3>5, <3>6, <3>7 DEF Task, Leave
  <2>5. ASSUME NEW r \in Round, Fault(r) PROVE TypeOK'
    <3> USE <2>5, KeyTypes, StepTypes DEF LockTypeOK, task, Places, Aborting, Executing, Over
    <3>1. CASE Drop(r)
      BY <3>1 DEF Drop
    <3>2. CASE BuildFails(r)
      BY <3>2 DEF BuildFails
    <3>3. CASE EnqueueCancelled(r)
      BY <3>3 DEF EnqueueCancelled, DeleteLock, DeleteMarker
    <3>4. CASE JobCut(r)
      BY <3>4 DEF JobCut
    <3> QED
      BY <3>1, <3>2, <3>3, <3>4 DEF Fault
  <2>6. ASSUME NEW p \in Process, Crash(p) PROVE TypeOK'
    BY <2>6 DEF LockTypeOK, Crash, Places, Over
  <2>7. CASE Tick
    BY <2>7, ExpireTypes DEF Tick, task
  <2>8. CASE UNCHANGED vars
    BY <2>8 DEF LockTypeOK, vars
  <2> QED
    BY <2>1, <2>2, <2>3, <2>4, <2>5, <2>6, <2>7, <2>8 DEF Next, Request
<1> QED
  BY <1>1, <1>2, PTL DEF Spec

-----------------------------------------------------------------------------
(***************************************************************************)
(* NoStuckMarker.  It is not inductive: a round that leaves "unlock" must  *)
(* be known not to own the running marker.  MarkerInv names every place at *)
(* which the author of a running marker can be.                            *)
(***************************************************************************)
Marking == {"marked", "built", "abort", "abortDel", "abortMark", "queued",
            "running", "flush", "save", "state", "settle", "gone"}

MarkerInv ==
    marker.status = "running" => marker.by \in Round /\ pc[marker.by] \in Marking

\* A step of r that leaves the marker alone, and does not take its author out
\* of these places.
LEMMA MarkerKept ==
    ASSUME TypeOK, MarkerInv, NEW r \in Round, NEW from, NEW to,
           Go(r, from, to) \/ Await(r, from, to),
           UNCHANGED marker,
           to \in Marking \/ from \notin Marking \/ (marker.status = "running" => marker.by # r)
    PROVE  MarkerInv'
BY DEF TypeOK, RoundTypeOK, MarkerInv, Go, Await, Step

\* No running marker, no obligation.
LEMMA MarkerGone ==
    ASSUME marker'.status # "running" PROVE MarkerInv'
BY DEF MarkerInv

LEMMA MarkerStep ==
    ASSUME TypeOK, MarkerInv, [Next]_vars
    PROVE  MarkerInv'
<1>1. ASSUME NEW r \in Round, Enter(r) PROVE MarkerInv'
  <2> USE MarkerKept DEF Marking
  <2>1. CASE Acquire(r) \/ AcquireTaken(r) \/ ProbeRunning(r) \/ ProbeIdle(r)
    BY <2>1 DEF Acquire, AcquireTaken, ProbeRunning, ProbeIdle
  <2>2. CASE ForceRelease(r) \/ Reacquire(r) \/ ReacquireTaken(r)
    BY <2>2 DEF ForceRelease, Reacquire, ReacquireTaken
  <2> QED
    BY <1>1, <2>1, <2>2 DEF Enter
<1>2. ASSUME NEW r \in Round, Launch(r) PROVE MarkerInv'
  <2>1. CASE CommitAndMark(r)
    BY <2>1 DEF CommitAndMark, MarkRunning, MarkerInv, Marking, Await, Step,
                TypeOK, RoundTypeOK
  <2>2. CASE Build(r) \/ Enqueue(r) \/ Start(r) \/ StartRefused(r) \/ Pick(r)
    BY <2>2, MarkerKept DEF Marking, Build, Enqueue, Start, StartRefused, Pick
  <2> QED
    BY <1>2, <2>1, <2>2 DEF Launch
<1>3. ASSUME NEW r \in Round, AbortCheck(r) \/ AbortUnlock(r) \/ AbortMark(r)
      PROVE MarkerInv'
  <2>1. CASE AbortCheck(r)
    BY <2>1, MarkerKept DEF Marking, AbortCheck
  <2>2. CASE AbortUnlock(r)
    BY <2>2, MarkerKept DEF Marking, AbortUnlock, DeleteToken
  <2>3. CASE AbortMark(r)
    BY <2>3, MarkerGone DEF AbortMark, DeleteMarker, Absent
  <2> QED
    BY <1>3, <2>1, <2>2, <2>3
<1>4. ASSUME NEW r \in Round, Task(r) PROVE MarkerInv'
  <2>1. CASE Finish(r) \/ Flush(r) \/ Save(r)
    BY <2>1, MarkerKept DEF Marking, Finish, Flush, Save
  <2>2. CASE CheckOwner(r)
    <3>1. CASE OwnsTaskState(r)
      BY <2>2, <3>1, MarkerKept DEF Marking, CheckOwner
    <3>2. CASE ~OwnsTaskState(r)
      BY <2>2, <3>2, MarkerKept DEF CheckOwner, OwnsTaskState
    <3> QED
      BY <3>1, <3>2
  <2>3. CASE Settle(r)
    BY <2>3, MarkerGone DEF Settle, DeleteMarker, MarkInterrupted, Absent
  <2>4. CASE UnlockCheck(r) \/ Unlock(r) \/ Close(r)
    BY <2>4, MarkerKept DEF Marking, UnlockCheck, Unlock, DeleteToken, Close
  <2> QED
    BY <1>4, <2>1, <2>2, <2>3, <2>4 DEF Task, Leave
<1>5. ASSUME NEW r \in Round, Fault(r) PROVE MarkerInv'
  <2>1. CASE EnqueueCancelled(r)
    BY <2>1, MarkerGone DEF EnqueueCancelled, DeleteMarker, Absent
  <2>2. CASE Drop(r) \/ BuildFails(r)
    BY <2>2, MarkerKept DEF Marking, Drop, BuildFails
  <2>3. CASE JobCut(r)
    BY <2>3, MarkerKept DEF JobCut, task
  <2> QED
    BY <1>5, <2>1, <2>2, <2>3 DEF Fault
<1>6. ASSUME NEW p \in Process, Crash(p) PROVE MarkerInv'
  BY <1>6 DEF Crash, MarkerInv, Marking
<1>7. CASE Tick
  BY <1>7 DEF Tick, task, ExpireKeys, Older, Absent, MarkerInv, TypeOK,
              RoundTypeOK, LockTypeOK, Markers
<1>8. CASE UNCHANGED vars
  BY <1>8 DEF vars, MarkerInv
<1> QED
  BY <1>1, <1>2, <1>3, <1>4, <1>5, <1>6, <1>7, <1>8 DEF Next, Request

\* No round that ended or failed leaves a running marker behind
\* (_owns_task_state in chat_task.py, the finally block in ai.py).
THEOREM MarkerNeverStuck == Spec => []NoStuckMarker
<1>1. Init => MarkerInv
  BY DEF Init, RoundInit, MarkerInv, Absent
<1>2. TypeOK /\ MarkerInv /\ [Next]_vars => MarkerInv'
  BY MarkerStep
<1>3. MarkerInv => NoStuckMarker
  BY NoneAssumption DEF MarkerInv, NoStuckMarker, Marking
<1> QED
  BY <1>1, <1>2, <1>3, TypeCorrect, PTL DEF Spec

-----------------------------------------------------------------------------
(***************************************************************************)
(* NoStuckLock, strengthened to every place at which a round can own the   *)
(* lock: a round that skips the DEL of a release has lost its lock before. *)
(***************************************************************************)
Locking == {"locked", "marked", "built", "abort", "abortDel", "queued", "running",
            "flush", "save", "state", "settle", "unlock", "unlockDel", "gone"}

LockInv == \A r \in Round : lock.by = r => pc[r] \in Locking

\* A step of r that leaves the lock alone or frees it.
LEMMA LockKept ==
    ASSUME TypeOK, LockInv, NEW r \in Round, NEW from, NEW to,
           Go(r, from, to) \/ Await(r, from, to),
           lock' = lock \/ lock'.by = None,
           to \in Locking \/ from \notin Locking \/ lock'.by # r
    PROVE  LockInv'
BY NoneAssumption DEF TypeOK, RoundTypeOK, LockInv, Go, Await, Step

LEMMA LockStep ==
    ASSUME TypeOK, LockInv, [Next]_vars
    PROVE  LockInv'
<1> USE NoneAssumption DEF LockFree, DeleteLock, DeleteToken, task
<1>1. ASSUME NEW r \in Round, Enter(r) PROVE LockInv'
  <2>1. CASE Acquire(r) \/ Reacquire(r)
    BY <2>1 DEF Acquire, Reacquire, SetNX, LockInv, Locking, Await, Step,
                TypeOK, RoundTypeOK
  <2>2. CASE AcquireTaken(r) \/ ProbeRunning(r) \/ ProbeIdle(r)
    BY <2>2, LockKept DEF Locking, AcquireTaken, ProbeRunning, ProbeIdle
  <2>3. CASE ForceRelease(r) \/ ReacquireTaken(r)
    BY <2>3, LockKept DEF Locking, ForceRelease, ReacquireTaken
  <2> QED
    BY <1>1, <2>1, <2>2, <2>3 DEF Enter
<1>2. ASSUME NEW r \in Round, Launch(r) PROVE LockInv'
  BY <1>2, LockKept
     DEF Launch, Locking, CommitAndMark, Build, Enqueue, Start, StartRefused, Pick
<1>3. ASSUME NEW r \in Round, AbortCheck(r) \/ AbortUnlock(r) \/ AbortMark(r)
      PROVE LockInv'
  <2>1. CASE AbortCheck(r)
    BY <2>1, LockKept DEF Locking, AbortCheck, HoldsLock
  <2>2. CASE AbortUnlock(r)
    BY <2>2, LockKept DEF Locking, AbortUnlock
  <2>3. CASE AbortMark(r)
    BY <2>3, LockKept DEF Locking, AbortMark
  <2> QED
    BY <1>3, <2>1, <2>2, <2>3
<1>4. ASSUME NEW r \in Round, Task(r) PROVE LockInv'
  <2>1. CASE Finish(r) \/ Flush(r) \/ Save(r) \/ CheckOwner(r) \/ Settle(r)
    BY <2>1, LockKept DEF Locking, Finish, Flush, Save, CheckOwner, Settle
  <2>2. CASE UnlockCheck(r)
    BY <2>2, LockKept DEF Locking, UnlockCheck, HoldsLock
  <2>3. CASE Unlock(r) \/ Close(r)
    BY <2>3, LockKept DEF Locking, Unlock, Close
  <2> QED
    BY <1>4, <2>1, <2>2, <2>3 DEF Task, Leave
<1>5. ASSUME NEW r \in Round, Fault(r) PROVE LockInv'
  <2>1. CASE Drop(r) \/ BuildFails(r) \/ EnqueueCancelled(r)
    BY <2>1, LockKept DEF Locking, Drop, BuildFails, EnqueueCancelled
  <2>2. CASE JobCut(r)
    BY <2>2, LockKept DEF JobCut, HoldsLock
  <2> QED
    BY <1>5, <2>1, <2>2 DEF Fault
<1>6. ASSUME NEW p \in Process, Crash(p) PROVE LockInv'
  BY <1>6 DEF Crash, LockInv, Locking
<1>7. CASE Tick
  BY <1>7 DEF Tick, ExpireKeys, Older, LockInv, TypeOK, RoundTypeOK,
              LockTypeOK, Locks
<1>8. CASE UNCHANGED vars
  BY <1>8 DEF vars, LockInv
<1> QED
  BY <1>1, <1>2, <1>3, <1>4, <1>5, <1>6, <1>7, <1>8 DEF Next, Request

\* No round that ended, failed or was refused still holds the lock
\* (release_session_lock at the end of run_chat_task and in ai.py, finally).
THEOREM LockNeverStuck == Spec => []NoStuckLock
<1>1. Init => LockInv
  BY NoneAssumption DEF Init, RoundInit, LockInv, LockFree
<1>2. TypeOK /\ LockInv /\ [Next]_vars => LockInv'
  BY LockStep
<1>3. LockInv => NoStuckLock
  BY DEF LockInv, NoStuckLock, Locking
<1> QED
  BY <1>1, <1>2, <1>3, TypeCorrect, PTL DEF Spec

\* A round that came to its end leaves neither its marker nor its lock behind
\* (the finally block of run_chat_task, the aborted request of ai.py:1076-1088).
THEOREM NeverStuck == Spec => []NothingStuck
BY MarkerNeverStuck, LockNeverStuck, PTL DEF NothingStuck

-----------------------------------------------------------------------------
(***************************************************************************)
(* The registry.  RegistryInv ties each task of an API process to the      *)
(* entry of that process, both ways, and keeps the rounds of the worker    *)
(* out of it; OneTaskPerProcess and RegistryIsLive follow.                 *)
(***************************************************************************)
Tasking == Executing \cup {"close"}

RegistryInv ==
    /\ \A r \in Round : pc[r] = "queued" => r \in queued
    /\ \A r \in queued : pc[r] \in Tasking \cup {"queued", "gone", "ended"}
    /\ \A r \in Round \ queued : pc[r] \in Tasking => registry[Home[r]] = r
    /\ \A p \in Api : registry[p] # None =>
          /\ registry[p] \in Round \ queued
          /\ Home[registry[p]] = p
          /\ pc[registry[p]] \in Tasking

\* A step that touches neither queue nor registry, and crosses the border of a
\* task in no direction.
LEMMA RegistryKept ==
    ASSUME TypeOK, RegistryInv, NEW r \in Round, NEW from, NEW to,
           Go(r, from, to) \/ Await(r, from, to),
           UNCHANGED <<queued, registry>>,
           \/ from \in Tasking /\ to \in Tasking
           \/ /\ from \notin Tasking \cup {"queued", "gone", "ended"}
              /\ to \notin Tasking \cup {"queued"}
    PROVE  RegistryInv'
BY DEF TypeOK, RoundTypeOK, RegistryInv, Tasking, Executing, Go, Await, Step

\* A round that goes to the queue was in no registry.
LEMMA EnqueuedRegistry ==
    ASSUME TypeOK, RegistryInv, NEW r \in Round,
           pc[r] = "built",
           pc' = [pc EXCEPT ![r] = "queued"],
           queued' = queued \cup {r},
           registry' = registry
    PROVE  RegistryInv'
<1> USE DEF TypeOK, RoundTypeOK, Tasking, Executing
<1>1. /\ \A q \in Round : pc'[q] = "queued" => q \in queued'
      /\ \A q \in queued' : pc'[q] \in Tasking \cup {"queued", "gone", "ended"}
  BY DEF RegistryInv
<1>2. \A q \in Round \ queued' : pc'[q] \in Tasking => registry'[Home[q]] = q
  BY DEF RegistryInv
<1>3. ASSUME NEW p \in Api, registry'[p] # None
      PROVE  /\ registry'[p] \in Round \ queued'
             /\ Home[registry'[p]] = p
             /\ pc'[registry'[p]] \in Tasking
  <2>1. registry[p] # r
    BY <1>3 DEF RegistryInv
  <2> QED
    BY <1>3, <2>1 DEF RegistryInv
<1> QED
  BY <1>1, <1>2, <1>3 DEF RegistryInv

LEMMA RegistryStep ==
    ASSUME TypeOK, RegistryInv, [Next]_vars
    PROVE  RegistryInv'
<1>1. ASSUME NEW r \in Round, Enter(r) PROVE RegistryInv'
  <2> USE RegistryKept DEF Tasking, Executing, task
  <2>1. CASE Acquire(r) \/ AcquireTaken(r) \/ ProbeRunning(r) \/ ProbeIdle(r)
    BY <2>1 DEF Acquire, AcquireTaken, ProbeRunning, ProbeIdle
  <2>2. CASE ForceRelease(r) \/ Reacquire(r) \/ ReacquireTaken(r)
    BY <2>2 DEF ForceRelease, Reacquire, ReacquireTaken
  <2> QED
    BY <1>1, <2>1, <2>2 DEF Enter
<1>2. ASSUME NEW r \in Round, Launch(r) PROVE RegistryInv'
  <2>1. CASE CommitAndMark(r) \/ Build(r) \/ StartRefused(r)
    BY <2>1, RegistryKept
       DEF Tasking, Executing, task, CommitAndMark, Build, StartRefused
  <2>2. CASE Enqueue(r)
    <3>1. /\ pc[r] = "built"
          /\ pc' = [pc EXCEPT ![r] = "queued"]
          /\ queued' = queued \cup {r}
          /\ registry' = registry
      BY <2>2 DEF Enqueue, Await, Step
    <3> QED
      BY <3>1, EnqueuedRegistry
  <2>3. CASE Start(r)
    <3> USE <2>3, ProcessAssumption
        DEF Start, Await, Step, Tasking, Executing, TypeOK, RoundTypeOK
    <3>1. r \notin queued /\ Home[r] \in Api
      BY DEF RegistryInv
    <3>2. \A q \in queued' : pc'[q] \in Tasking \cup {"queued", "gone", "ended"}
      BY <3>1 DEF RegistryInv
    <3>3. ASSUME NEW q \in Round \ queued', pc'[q] \in Tasking
          PROVE  registry'[Home[q]] = q
      <4>1. CASE q = r
        BY <3>1, <4>1
      <4>2. CASE q # r
        <5>1. registry[Home[q]] = q
          BY <3>3, <4>2 DEF RegistryInv
        <5>2. Home[q] # Home[r]
          BY <5>1, NoneAssumption
        <5> QED
          BY <5>1, <5>2
      <4> QED
        BY <4>1, <4>2
    <3>4. ASSUME NEW p \in Api, registry'[p] # None
          PROVE  /\ registry'[p] \in Round \ queued'
                 /\ Home[registry'[p]] = p
                 /\ pc'[registry'[p]] \in Tasking
      BY <3>1, <3>4 DEF RegistryInv
    <3> QED
      BY <3>2, <3>3, <3>4 DEF RegistryInv
  <2>4. CASE Pick(r)
    <3> USE <2>4, ProcessAssumption
        DEF Pick, task, Await, Step, Tasking, Executing, TypeOK, RoundTypeOK
    <3>1. r \in queued
      BY DEF RegistryInv
    <3>2. \A q \in Round \ queued' : pc'[q] \in Tasking => registry'[Home[q]] = q
      BY <3>1 DEF RegistryInv
    <3>3. ASSUME NEW p \in Api, registry'[p] # None
          PROVE  /\ registry'[p] \in Round \ queued'
                 /\ Home[registry'[p]] = p
                 /\ pc'[registry'[p]] \in Tasking
      BY <3>1, <3>3 DEF RegistryInv
    <3>4. /\ \A q \in Round : pc'[q] = "queued" => q \in queued'
          /\ \A q \in queued' : pc'[q] \in Tasking \cup {"queued", "gone", "ended"}
      BY <3>1 DEF RegistryInv
    <3> QED
      BY <3>2, <3>3, <3>4 DEF RegistryInv
  <2> QED
    BY <1>2, <2>1, <2>2, <2>3, <2>4 DEF Launch
<1>3. ASSUME NEW r \in Round, AbortCheck(r) \/ AbortUnlock(r) \/ AbortMark(r)
      PROVE RegistryInv'
  BY <1>3, RegistryKept
     DEF Tasking, Executing, task, AbortCheck, AbortUnlock, AbortMark, DeleteToken
<1>4. ASSUME NEW r \in Round, Task(r) PROVE RegistryInv'
  <2> USE DEF Tasking, Executing, task
  <2>1. CASE Finish(r) \/ Flush(r) \/ Save(r)
    BY <2>1, RegistryKept DEF Finish, Flush, Save
  <2>2. CASE CheckOwner(r) \/ Settle(r)
    BY <2>2, RegistryKept DEF CheckOwner, Settle
  <2>3. CASE UnlockCheck(r) \/ Unlock(r)
    BY <2>3, RegistryKept DEF UnlockCheck, Unlock, DeleteToken
  <2>4. CASE Close(r)
    <3> USE <2>4 DEF Close, Await, Step, TypeOK, RoundTypeOK
    <3>1. \A q \in queued' : pc'[q] \in Tasking \cup {"queued", "gone", "ended"}
      BY DEF RegistryInv
    <3>2. ASSUME NEW q \in Round \ queued', pc'[q] \in Tasking
          PROVE  registry'[Home[q]] = q
      <4>1. q # r /\ registry[Home[q]] = q
        BY <3>2 DEF RegistryInv
      <4> QED
        BY <4>1, ProcessAssumption
    <3>3. ASSUME NEW p \in Api, registry'[p] # None
          PROVE  /\ registry'[p] \in Round \ queued'
                 /\ Home[registry'[p]] = p
                 /\ pc'[registry'[p]] \in Tasking
      BY <3>3 DEF RegistryInv
    <3> QED
      BY <3>1, <3>2, <3>3 DEF RegistryInv
  <2> QED
    BY <1>4, <2>1, <2>2, <2>3, <2>4 DEF Task, Leave
<1>5. ASSUME NEW r \in Round, Fault(r) PROVE RegistryInv'
  <2> USE DEF Tasking, Executing, task
  <2>1. CASE BuildFails(r)
    BY <2>1, RegistryKept DEF BuildFails
  <2>2. CASE Drop(r)
    <3>1. ASSUME NEW from \in {"locked", "marked"}, Await(r, from, "gone")
          PROVE  RegistryInv'
      BY <2>2, <3>1, RegistryKept DEF Drop
    <3> QED
      BY <2>2, <3>1 DEF Drop
  <2>3. CASE EnqueueCancelled(r)
    <3>1. /\ pc[r] = "built"
          /\ pc' = [pc EXCEPT ![r] = "queued"]
          /\ queued' = queued \cup {r}
          /\ registry' = registry
      BY <2>3 DEF EnqueueCancelled, Await, Step
    <3> QED
      BY <3>1, EnqueuedRegistry
  <2>4. CASE JobCut(r)
    BY <2>4, RegistryKept DEF JobCut
  <2> QED
    BY <1>5, <2>1, <2>2, <2>3, <2>4 DEF Fault
<1>6. ASSUME NEW p \in Process, Crash(p) PROVE RegistryInv'
  BY <1>6, ProcessAssumption, NoneAssumption
     DEF Crash, Victims, At, Over, Process, RegistryInv, Tasking, Executing,
         TypeOK, RoundTypeOK
<1>7. CASE Tick
  BY <1>7 DEF Tick, task, RegistryInv
<1>8. CASE UNCHANGED vars
  BY <1>8 DEF vars, RegistryInv
<1> QED
  BY <1>1, <1>2, <1>3, <1>4, <1>5, <1>6, <1>7, <1>8 DEF Next, Request

THEOREM RegistryInvariant == Spec => []RegistryInv
<1>1. Init => RegistryInv
  BY DEF Init, RoundInit, RegistryInv, Tasking, Executing
<1>2. TypeOK /\ RegistryInv /\ [Next]_vars => RegistryInv'
  BY RegistryStep
<1> QED
  BY <1>1, <1>2, TypeCorrect, PTL DEF Spec

\* chat_registry admits one task of the session per process, however lock and
\* marker were lost (chat_stream_registry.py, start).
THEOREM OneTask == Spec => []OneTaskPerProcess
<1>1. RegistryInv => OneTaskPerProcess
  BY DEF RegistryInv, OneTaskPerProcess, Live, Tasking
<1> QED
  BY <1>1, RegistryInvariant, PTL

\* chat_registry forgets every finished round (chat_stream_registry.py,
\* _runner).
THEOREM RegistryNamesLive == Spec => []RegistryIsLive
<1>1. RegistryInv => RegistryIsLive
  BY DEF RegistryInv, RegistryIsLive, Tasking
<1> QED
  BY <1>1, RegistryInvariant, PTL

-----------------------------------------------------------------------------
(***************************************************************************)
(* One API process without the queue implements RoundService: every step   *)
(* is Begin, End, Refuse or Lose of the abstract service, or stutters.     *)
(* Begin needs the registry: by RegistryInv an empty entry means that no   *)
(* task runs in the only process there is.                                 *)
(***************************************************************************)
NoQueue == queued = {} /\ \A r \in Round : pc[r] # "queued"

LEMMA NoQueueStep ==
    ASSUME ~QueueEnabled, TypeOK, NoQueue, [Next]_vars
    PROVE  NoQueue'
<1> USE DEF NoQueue, task, TypeOK, RoundTypeOK
<1>1. ASSUME NEW r \in Round, NEW from, NEW to, to # "queued",
             Go(r, from, to) \/ Await(r, from, to), queued' = queued
      PROVE  NoQueue'
  BY <1>1 DEF Go, Await, Step
<1>2. ASSUME NEW r \in Round, Enter(r) PROVE NoQueue'
  BY <1>1, <1>2
     DEF Enter, Acquire, AcquireTaken, ProbeRunning, ProbeIdle, ForceRelease,
         Reacquire, ReacquireTaken
<1>3. ASSUME NEW r \in Round, Launch(r) PROVE NoQueue'
  BY <1>1, <1>3
     DEF Launch, CommitAndMark, Build, Enqueue, Start, StartRefused, Pick
<1>4. ASSUME NEW r \in Round, AbortCheck(r) \/ AbortUnlock(r) \/ AbortMark(r)
      PROVE NoQueue'
  BY <1>1, <1>4 DEF AbortCheck, AbortUnlock, AbortMark, DeleteToken
<1>5. ASSUME NEW r \in Round, Task(r) PROVE NoQueue'
  BY <1>1, <1>5
     DEF Task, Finish, Flush, Save, CheckOwner, Settle, Leave, UnlockCheck,
         Unlock, DeleteToken, Close
<1>6. ASSUME NEW r \in Round, Fault(r) PROVE NoQueue'
  BY <1>1, <1>6 DEF Fault, Drop, BuildFails, EnqueueCancelled, JobCut
<1>7. ASSUME NEW p \in Process, Crash(p) PROVE NoQueue'
  BY <1>7 DEF Crash
<1>8. CASE Tick
  BY <1>8 DEF Tick
<1>9. CASE UNCHANGED vars
  BY <1>9 DEF vars
<1> QED
  BY <1>2, <1>3, <1>4, <1>5, <1>6, <1>7, <1>8, <1>9 DEF Next, Request

\* What a step of r does to its phase.
LEMMA PhaseMove ==
    ASSUME TypeOK, NEW r \in Round, NEW from, NEW to,
           Go(r, from, to) \/ Await(r, from, to),
           from # "ended", to # "ended",
           \A q \in Round \ {r} : q \in completed' <=> q \in completed
    PROVE  /\ Phases[r] = PhaseAt(from)
           /\ Phases' = [Phases EXCEPT ![r] = PhaseAt(to)]
<1>1. pc[r] = from /\ pc' = [pc EXCEPT ![r] = to]
  BY DEF Go, Await, Step
<1>2. Phases[r] = PhaseAt(from)
  BY <1>1 DEF Phases
<1>3. ASSUME NEW q \in Round
      PROVE  Phases'[q] = IF q = r THEN PhaseAt(to) ELSE Phases[q]
  <2>1. CASE q = r
    BY <1>1, <2>1 DEF Phases, TypeOK, RoundTypeOK
  <2>2. CASE q # r
    <3>1. pc'[q] = pc[q]
      BY <1>1, <2>2 DEF TypeOK, RoundTypeOK
    <3>2. q \in completed' <=> q \in completed
      BY <2>2
    <3> QED
      BY <2>2, <3>1, <3>2 DEF Phases
  <2> QED
    BY <2>1, <2>2
<1> QED
  BY <1>2, <1>3 DEF Phases

\* A step that stays in its phase does not show.
LEMMA PhaseStutter ==
    ASSUME TypeOK, NEW r \in Round, NEW from, NEW to,
           Go(r, from, to) \/ Await(r, from, to),
           from # "ended", to # "ended",
           \A q \in Round \ {r} : q \in completed' <=> q \in completed,
           PhaseAt(to) = PhaseAt(from)
    PROVE  UNCHANGED Phases
<1>1. Phases' = [Phases EXCEPT ![r] = Phases[r]]
  BY PhaseMove
<1>2. Phases = [q \in Round |-> Phases[q]]
  BY DEF Phases
<1> QED
  BY <1>1, <1>2

\* A request that ends before its task is refused.
LEMMA PhaseRefused ==
    ASSUME TypeOK, NEW r \in Round, NEW from, NEW to,
           Go(r, from, to) \/ Await(r, from, to),
           from # "ended", to # "ended",
           \A q \in Round \ {r} : q \in completed' <=> q \in completed,
           PhaseAt(from) = "waiting", PhaseAt(to) = "refused"
    PROVE  Service!Refuse(r)
BY PhaseMove DEF Service!Refuse, Service!Waiting

\* Rounds that are lost together, before their end.
LEMMA LostRounds ==
    ASSUME TypeOK, NEW lost \in SUBSET Round,
           \A r \in lost : pc[r] \notin Over,
           pc' = [r \in Round |-> IF r \in lost THEN "gone" ELSE pc[r]],
           UNCHANGED completed
    PROVE  [Service!Next]_Phases
<1>1. \A r \in lost : Phases[r] \in {"waiting", "running"}
  BY DEF Phases, TypeOK, RoundTypeOK, Places, PhaseAt, Requesting, Aborting,
         Executing, Over
<1>2. ASSUME NEW r \in Round
      PROVE  Phases'[r] = IF r \in lost THEN "lost" ELSE Phases[r]
  <2>1. CASE r \in lost
    <3>1. pc'[r] = "gone"
      BY <2>1
    <3>2. PhaseAt("gone") = "lost"
      BY DEF PhaseAt, Requesting, Aborting, Executing
    <3> QED
      BY <2>1, <3>1, <3>2 DEF Phases
  <2>2. CASE r \notin lost
    <3>1. pc'[r] = pc[r]
      BY <2>2
    <3> QED
      BY <2>2, <3>1 DEF Phases
  <2> QED
    BY <2>1, <2>2
<1>3. Phases' = [r \in Round |-> Phases'[r]]
  BY DEF Phases
<1>4. Phases' = [r \in Round |-> IF r \in lost THEN "lost" ELSE Phases[r]]
  BY <1>2, <1>3, Zenon
<1>5. Service!Lose(lost)
  BY <1>1, <1>4 DEF Service!Lose, Service!Waiting, Service!Running
<1> QED
  BY <1>5 DEF Service!Next

LEMMA PhaseStep ==
    ASSUME NEW a, Api = {a}, ~QueueEnabled,
           TypeOK, RegistryInv, NoQueue, [Next]_vars
    PROVE  [Service!Next]_Phases
<1> USE DEF PhaseAt, Requesting, Aborting, Executing
<1>1. ASSUME NEW r \in Round, Enter(r) PROVE [Service!Next]_Phases
  <2>1. CASE Acquire(r) \/ AcquireTaken(r) \/ ProbeIdle(r) \/ ForceRelease(r) \/ Reacquire(r)
    BY <2>1, PhaseStutter
       DEF Acquire, AcquireTaken, ProbeIdle, ForceRelease, Reacquire, task
  <2>2. CASE ProbeRunning(r) \/ ReacquireTaken(r)
    BY <2>2, PhaseRefused DEF ProbeRunning, ReacquireTaken, task, Service!Next
  <2> QED
    BY <1>1, <2>1, <2>2 DEF Enter
<1>2. ASSUME NEW r \in Round, Launch(r) PROVE [Service!Next]_Phases
  <2>1. CASE CommitAndMark(r) \/ Build(r) \/ StartRefused(r)
    BY <2>1, PhaseStutter DEF CommitAndMark, Build, StartRefused, task
  <2>2. CASE Start(r)
    <3>1. Phases[r] = "waiting" /\ Phases' = [Phases EXCEPT ![r] = "running"]
      BY <2>2, PhaseMove DEF Start
    <3>2. ASSUME NEW q \in Round, Phases[q] = "running" PROVE FALSE
      <4>1. pc[q] \in Tasking
        BY <3>2 DEF Phases, TypeOK, RoundTypeOK, Places, Over, Tasking
      <4>2. registry[Home[q]] = q /\ Home[q] = Home[r]
        BY <4>1, ProcessAssumption DEF RegistryInv, NoQueue
      <4> QED
        BY <2>2, <4>2, NoneAssumption DEF Start
    <3> QED
      BY <3>1, <3>2 DEF Service!Next, Service!Begin, Service!Waiting, Service!Running
  <2> QED
    BY <1>2, <2>1, <2>2 DEF Launch, Enqueue, Pick, Await, Step, NoQueue
<1>3. ASSUME NEW r \in Round, AbortCheck(r) \/ AbortUnlock(r) \/ AbortMark(r)
      PROVE [Service!Next]_Phases
  <2>1. CASE AbortCheck(r) \/ AbortUnlock(r)
    BY <2>1, PhaseStutter DEF AbortCheck, AbortUnlock, DeleteToken, task
  <2>2. CASE AbortMark(r)
    BY <2>2, PhaseRefused DEF AbortMark, task, Service!Next
  <2> QED
    BY <1>3, <2>1, <2>2
<1>4. ASSUME NEW r \in Round, Task(r) PROVE [Service!Next]_Phases
  <2>1. CASE Finish(r)
    BY <2>1, PhaseStutter DEF Finish
  <2>2. CASE Flush(r) \/ Save(r) \/ CheckOwner(r) \/ Settle(r)
    BY <2>2, PhaseStutter DEF Flush, Save, CheckOwner, Settle, task
  <2>3. CASE UnlockCheck(r) \/ Unlock(r)
    BY <2>3, PhaseStutter DEF UnlockCheck, Unlock, DeleteToken, task
  <2>4. CASE Close(r)
    <3>1. /\ pc[r] = "close" /\ pc' = [pc EXCEPT ![r] = "ended"]
          /\ completed' = completed
      BY <2>4 DEF Close, Await, Step
    <3>2. Phases[r] = "running"
      BY <3>1 DEF Phases
    <3> DEFINE end == IF r \in completed THEN "answered" ELSE "interrupted"
    <3>3. ASSUME NEW q \in Round
          PROVE  Phases'[q] = IF q = r THEN end ELSE Phases[q]
      <4> HIDE DEF PhaseAt
      <4>1. CASE q = r
        <5>1. pc'[q] = "ended"
          BY <3>1, <4>1 DEF TypeOK, RoundTypeOK
        <5> QED
          BY <3>1, <4>1, <5>1 DEF Phases
      <4>2. CASE q # r
        <5>1. pc'[q] = pc[q]
          BY <3>1, <4>2 DEF TypeOK, RoundTypeOK
        <5> QED
          BY <3>1, <4>2, <5>1 DEF Phases
      <4> QED
        BY <4>1, <4>2
    <3>4. Phases' = [Phases EXCEPT ![r] = end]
      <4> HIDE DEF end, PhaseAt
      <4>1. DOMAIN Phases = Round /\ Phases' = [q \in Round |-> Phases'[q]]
        BY DEF Phases
      <4> QED
        BY <3>3, <4>1
    <3>5. end \in Service!Ends
      BY DEF Service!Ends
    <3> QED
      BY <3>2, <3>4, <3>5 DEF Service!Next, Service!End, Service!Running
  <2> QED
    BY <1>4, <2>1, <2>2, <2>3, <2>4 DEF Task, Leave
<1>5. ASSUME NEW r \in Round, Fault(r) PROVE [Service!Next]_Phases
  <2>1. CASE Drop(r)
    <3>1. /\ pc[r] \in {"locked", "marked"}
          /\ pc' = [pc EXCEPT ![r] = "gone"]
          /\ completed' = completed
      BY <2>1 DEF Drop, Await, Step
    <3>2. pc' = [q \in Round |-> IF q \in {r} THEN "gone" ELSE pc[q]]
      BY <3>1 DEF TypeOK, RoundTypeOK
    <3> QED
      BY <3>1, <3>2, LostRounds DEF Over
  <2>2. CASE BuildFails(r)
    BY <2>2, PhaseStutter DEF BuildFails, task
  <2> QED
    BY <1>5, <2>1, <2>2 DEF Fault, EnqueueCancelled, JobCut, NoQueue
<1>6. ASSUME NEW p \in Process, Crash(p) PROVE [Service!Next]_Phases
  <2>1. /\ Victims(p) \in SUBSET Round
        /\ \A r \in Victims(p) : pc[r] \notin Over
    BY DEF Victims
  <2> QED
    BY <1>6, <2>1, LostRounds DEF Crash
<1>7. CASE Tick
  BY <1>7 DEF Tick, task, Phases
<1>8. CASE UNCHANGED vars
  BY <1>8 DEF vars, Phases
<1> QED
  BY <1>1, <1>2, <1>3, <1>4, <1>5, <1>6, <1>7, <1>8 DEF Next, Request

\* One API process without the queue keeps the promise of session_lock.py: one
\* round at a time, and none twice.
THEOREM Serial ==
    ASSUME NEW a, Api = {a}, ~QueueEnabled
    PROVE  Spec => ImplementsService
<1>1. Init => Service!Init
  BY DEF Init, RoundInit, Phases, PhaseAt, Requesting, Aborting, Executing,
         Service!Init, Service!Waiting
<1>2. TypeOK /\ RegistryInv /\ NoQueue /\ [Next]_vars => [Service!Next]_Phases
  BY PhaseStep
<1>3. Init => NoQueue
  BY DEF Init, RoundInit, NoQueue
<1>4. TypeOK /\ NoQueue /\ [Next]_vars => NoQueue'
  BY NoQueueStep
<1> QED
  BY <1>1, <1>2, <1>3, <1>4, TypeCorrect, RegistryInvariant, PTL
     DEF Spec, ImplementsService, Service!Spec

-----------------------------------------------------------------------------
(***************************************************************************)
(* ReleasesOwnLock and SettlesOwnMarker, for one API process without the   *)
(* queue.  Check and write are two steps; what the check found is still    *)
(* true at the write because both lie in one segment of the event loop:    *)
(* loop[a] names the round, so no other round of the process moves.        *)
(***************************************************************************)
Mid == {"settle", "unlockDel", "abortDel"}

SegmentInv(a) ==
    \A r \in Round :
        /\ pc[r] \in Mid => loop[a] = r
        /\ pc[r] \in {"unlockDel", "abortDel"} => lock.by \in {r, None}
        /\ pc[r] = "settle" => (marker.status = "running" => marker.by = r)

\* A step of r, which alone can move while it is in the middle of a segment.
LEMMA SegmentKept ==
    ASSUME NEW a, Api = {a}, TypeOK, NoQueue, SegmentInv(a),
           NEW r \in Round, NEW from, NEW to,
           Go(r, from, to) \/ Await(r, from, to),
           to \in Mid => Go(r, from, to),
           to \in {"unlockDel", "abortDel"} => lock'.by \in {r, None},
           to = "settle" => (marker'.status = "running" => marker'.by = r)
    PROVE  SegmentInv(a)'
<1> USE DEF TypeOK, RoundTypeOK
<1>1. At(r) = a /\ a \in Process
  BY ProcessAssumption DEF At, NoQueue, Process
<1>2. ASSUME NEW q \in Round, q # r PROVE pc[q] \notin Mid /\ pc'[q] = pc[q]
  BY <1>1, <1>2, NoneAssumption DEF SegmentInv, Go, Await, Step
<1>3. pc'[r] = to
  BY DEF Go, Await, Step
<1>4. to \in Mid => loop'[a] = r
  BY <1>1 DEF Go
<1> QED
  BY <1>2, <1>3, <1>4 DEF SegmentInv, Mid

LEMMA SegmentStep ==
    ASSUME NEW a, Api = {a}, TypeOK, NoQueue, SegmentInv(a), [Next]_vars
    PROVE  SegmentInv(a)'
<1> USE DEF Mid, task
<1>1. ASSUME NEW r \in Round, Enter(r) PROVE SegmentInv(a)'
  BY <1>1, SegmentKept
     DEF Enter, Acquire, AcquireTaken, ProbeRunning, ProbeIdle, ForceRelease,
         Reacquire, ReacquireTaken
<1>2. ASSUME NEW r \in Round, Launch(r) PROVE SegmentInv(a)'
  BY <1>2, SegmentKept
     DEF Launch, CommitAndMark, Build, Enqueue, Start, StartRefused, Pick
<1>3. ASSUME NEW r \in Round, AbortCheck(r) \/ AbortUnlock(r) \/ AbortMark(r)
      PROVE SegmentInv(a)'
  <2>1. CASE AbortCheck(r)
    BY <2>1, SegmentKept DEF AbortCheck, HoldsLock
  <2>2. CASE AbortUnlock(r) \/ AbortMark(r)
    BY <2>2, SegmentKept DEF AbortUnlock, AbortMark
  <2> QED
    BY <1>3, <2>1, <2>2
<1>4. ASSUME NEW r \in Round, Task(r) PROVE SegmentInv(a)'
  <2>1. CASE Finish(r) \/ Flush(r) \/ Save(r) \/ Settle(r)
    BY <2>1, SegmentKept DEF Finish, Flush, Save, Settle
  <2>2. CASE CheckOwner(r)
    BY <2>2, SegmentKept DEF CheckOwner, OwnsTaskState
  <2>3. CASE UnlockCheck(r)
    BY <2>3, SegmentKept DEF UnlockCheck, HoldsLock
  <2>4. CASE Unlock(r) \/ Close(r)
    BY <2>4, SegmentKept DEF Unlock, Close
  <2> QED
    BY <1>4, <2>1, <2>2, <2>3, <2>4 DEF Task, Leave
<1>5. ASSUME NEW r \in Round, Fault(r) PROVE SegmentInv(a)'
  BY <1>5, SegmentKept DEF Fault, Drop, BuildFails, EnqueueCancelled, JobCut
<1>6. ASSUME NEW p \in Process, Crash(p) PROVE SegmentInv(a)'
  <2>1. \A r \in Round : At(r) = a
    BY ProcessAssumption DEF At, NoQueue, TypeOK, RoundTypeOK
  <2>2. p = a
    BY <1>6, <2>1 DEF Crash, Victims
  <2> QED
    BY <1>6, <2>1, <2>2 DEF Crash, Victims, Over, SegmentInv
<1>7. CASE Tick
  BY <1>7 DEF Tick, ExpireKeys, Older, LockFree, Absent, SegmentInv, TypeOK,
              RoundTypeOK, LockTypeOK, Locks, Markers
<1>8. CASE UNCHANGED vars
  BY <1>8 DEF vars, SegmentInv
<1> QED
  BY <1>1, <1>2, <1>3, <1>4, <1>5, <1>6, <1>7, <1>8 DEF Next, Request

LEMMA Segments ==
    ASSUME NEW a, Api = {a}, ~QueueEnabled
    PROVE  Spec => [](NoQueue /\ SegmentInv(a))
<1>1. Init => NoQueue /\ SegmentInv(a)
  BY DEF Init, RoundInit, NoQueue, SegmentInv, Mid
<1>2. TypeOK /\ NoQueue /\ SegmentInv(a) /\ [Next]_vars => (NoQueue /\ SegmentInv(a))'
  BY NoQueueStep, SegmentStep
<1> QED
  BY <1>1, <1>2, TypeCorrect, PTL DEF Spec

\* release_session_lock deletes no lock but the round's own, although GET and
\* DEL are two commands (session_lock.py).
THEOREM ReleaseIsOwn ==
    ASSUME NEW a, Api = {a}, ~QueueEnabled
    PROVE  Spec => ReleasesOwnLock
<1>1. SegmentInv(a) => \A r \in Round : (AbortUnlock(r) \/ Unlock(r)) => lock.by \in {r, None}
  BY DEF SegmentInv, AbortUnlock, Unlock, Go, Await, Step
<1> QED
  BY <1>1, Segments, PTL DEF ReleasesOwnLock

\* The end of a chat task settles no running marker but its own
\* (_owns_task_state in chat_task.py).
THEOREM SettleIsOwn ==
    ASSUME NEW a, Api = {a}, ~QueueEnabled
    PROVE  Spec => SettlesOwnMarker
<1>1. SegmentInv(a) => \A r \in Round : Settle(r) => (marker.status = "running" => marker.by = r)
  BY DEF SegmentInv, Settle, Go, Step
<1> QED
  BY <1>1, Segments, PTL DEF SettlesOwnMarker

\* On one API process without the queue a round gives up only its own lock and
\* settles only its own marker (release_session_lock, _owns_task_state).
THEOREM KeysAreOwn ==
    ASSUME NEW a, Api = {a}, ~QueueEnabled
    PROVE  Spec => OwnKeysOnly
BY ReleaseIsOwn, SettleIsOwn, PTL DEF OwnKeysOnly

=============================================================================
