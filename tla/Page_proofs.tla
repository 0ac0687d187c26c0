------------------------------ MODULE Page_proofs ------------------------------
(***************************************************************************)
(* What is proved of a user's pages.  Of CanvasRound: for any rounds and   *)
(* API processes, any TTLs and time limits, with or without the queue;     *)
(* stated of QueueSpec, where enqueuing may be cut off too; Spec allows    *)
(* less.  Of ChatStore, Insights, Library, CanvasMount and ChartDesk: for  *)
(* any conversations, rules, rows, tabs and charts, any number of requests *)
(* under way and any order of their answers.  And of Preferences,          *)
(* MetricFormula and SqlGuard: for any likings, days and requests,         *)
(* metrics, measures and statements.                                       *)
(***************************************************************************)
EXTENDS MCChatPage, SequenceTheorems, FiniteSetTheorems, TLAPS

QueueSpec == Init /\ [][QueueNext]_vars

LEMMA AtProcess == ASSUME NEW r \in Round PROVE At(r) \in Process
BY ProcessAssumption DEF At, Process

\* The keys keep their type when they are written and when they age.
LEMMA KeyTypes ==
    ASSUME NEW r \in Round
    PROVE  /\ LockFree \in Locks
           /\ [by |-> r, age |-> 0] \in Locks
           /\ Absent \in Markers
           /\ [status |-> "running", by |-> r, age |-> 0] \in Markers
           /\ [status |-> "interrupted", by |-> r, age |-> 0] \in Markers
BY LifetimeAssumption DEF LockFree, Absent, Locks, Markers

LEMMA ExpireTypes == LockTypeOK /\ ExpireKeys => LockTypeOK'
<1> SUFFICES ASSUME LockTypeOK, ExpireKeys PROVE LockTypeOK'
  OBVIOUS
<1>1. lock' \in Locks
  BY LifetimeAssumption
     DEF LockTypeOK, ExpireKeys, Older, LockFree, Locks
<1>2. marker' \in Markers
  BY LifetimeAssumption
     DEF LockTypeOK, ExpireKeys, Older, Absent, Markers
<1> QED
  BY <1>1, <1>2 DEF LockTypeOK

\* What a step of one round leaves of the types of pc and loop.
LEMMA StepTypes ==
    ASSUME TypeOK, NEW r \in Round, NEW from, NEW to \in Places,
           Go(r, from, to) \/ Await(r, from, to)
    PROVE  /\ pc' \in [Round -> Places]
           /\ loop' \in [Process -> Round \cup {None}]
BY AtProcess DEF TypeOK, RoundTypeOK, Go, Await, Step

\* No task lives longer than the larger of the two limits.
LEMMA TaskLimits == ASSUME NEW r \in Round PROVE Limit(r) \in 0 .. Bound /\ Bound \in Nat
BY LimitAssumption DEF Limit, Bound

-----------------------------------------------------------------------------
(***************************************************************************)
(* Type correctness.  Timed places bound elapsed: a tick needs every timed *)
(* task to be below its limit, so no count passes Bound.                   *)
(***************************************************************************)
LEMMA TypeStep ==
    ASSUME TypeOK, [QueueNext]_vars
    PROVE  TypeOK'
<1> USE DEF TypeOK, RoundTypeOK
<1>1. ASSUME NEW r \in Round, Enter(r), UNCHANGED canvasVars PROVE TypeOK'
  <2> USE <1>1, KeyTypes, StepTypes
      DEF LockTypeOK, task, canvasVars, Places, Requesting, Over
  <2>1. CASE Acquire(r) \/ Reacquire(r)
    BY <2>1 DEF Acquire, Reacquire, SetNX
  <2>2. CASE AcquireTaken(r) \/ ProbeRunning(r) \/ ProbeIdle(r) \/ ReacquireTaken(r)
    BY <2>2 DEF AcquireTaken, ProbeRunning, ProbeIdle, ReacquireTaken
  <2>3. CASE ForceRelease(r)
    BY <2>3 DEF ForceRelease, DeleteLock
  <2> QED
    BY <2>1, <2>2, <2>3 DEF Enter
<1>2. ASSUME NEW r \in Round, Launch(r), UNCHANGED canvasVars PROVE TypeOK'
  <2> USE <1>2, KeyTypes, StepTypes
      DEF LockTypeOK, task, canvasVars, Places, Requesting, Aborting, Executing, Timed, Body
  <2>1. CASE CommitAndMark(r)
    BY <2>1 DEF CommitAndMark, MarkRunning
  <2>2. CASE Build(r) \/ StartRefused(r) \/ Pick(r)
    BY <2>2 DEF Build, StartRefused, Pick
  <2>3. CASE Enqueue(r)
    BY <2>3 DEF Enqueue
  <2>4. CASE Start(r)
    BY <2>4 DEF Start
  <2> QED
    BY <2>1, <2>2, <2>3, <2>4 DEF Launch
<1>3. ASSUME NEW r \in Round, Leave(r), UNCHANGED canvasVars PROVE TypeOK'
  <2> USE <1>3, KeyTypes, StepTypes
      DEF LockTypeOK, task, canvasVars, Places, Executing, Over
  <2>1. CASE UnlockCheck(r)
    BY <2>1 DEF UnlockCheck
  <2>2. CASE Unlock(r)
    BY <2>2 DEF Unlock, DeleteToken, DeleteLock
  <2>3. CASE Close(r)
    BY <2>3 DEF Close
  <2> QED
    BY <2>1, <2>2, <2>3 DEF Leave
<1>4. ASSUME NEW r \in Round, Own(r) PROVE TypeOK'
  <2> USE <1>4, KeyTypes, StepTypes
      DEF LockTypeOK, task, canvasVars, Places, Aborting, Executing, Timed, Body, Over
  <2>1. CASE AbortCheck(r) \/ AbortUnlock(r)
    BY <2>1 DEF AbortCheck, AbortUnlock, DeleteToken, DeleteLock
  <2>2. CASE Save(r) \/ SaveHint(r)
    BY <2>2 DEF Save, SaveHint
  <2>3. CASE ClearMarker(r)
    BY <2>3 DEF ClearMarker, DeleteMarker
  <2>4. CASE Tell(r)
    BY <2>4 DEF Tell
  <2>5. CASE Timeout(r) \/ CutFinally(r)
    BY <2>5 DEF Timeout, CutFinally
  <2>6. CASE CheckMarker(r) \/ Interrupt(r)
    BY <2>6 DEF CheckMarker, Interrupt, MarkInterrupted
  <2> QED
    BY <2>1, <2>2, <2>3, <2>4, <2>5, <2>6 DEF Own
<1>5. ASSUME NEW r \in Round, Fault(r) \/ EnqueueCancelled(r) PROVE TypeOK'
  <2> USE <1>5, KeyTypes, StepTypes
      DEF LockTypeOK, task, canvasVars, Places, Requesting, Aborting, Executing, Timed, Body
  <2>1. CASE RequestFails(r)
    BY <2>1 DEF RequestFails
  <2>2. CASE Fail(r)
    BY <2>2 DEF Fail
  <2>3. CASE EnqueueCancelled(r)
    BY <2>3 DEF EnqueueCancelled, DeleteLock
  <2> QED
    BY <2>1, <2>2, <2>3 DEF Fault
<1>6. ASSUME NEW p \in Process, Crash(p), UNCHANGED canvasVars PROVE TypeOK'
  BY <1>6 DEF LockTypeOK, Crash, canvasVars, Places, Over
<1>7. CASE TickTasks
  <2>1. elapsed' \in [Round -> 0 .. Bound]
    BY <1>7, TaskLimits DEF TickTasks
  <2> QED
    BY <1>7, <2>1, ExpireTypes DEF TickTasks, task
<1>8. CASE UNCHANGED vars
  BY <1>8 DEF LockTypeOK, vars
<1> QED
  BY <1>1, <1>2, <1>3, <1>4, <1>5, <1>6, <1>7, <1>8 DEF QueueNext, Next, Shared

\* The variables keep their types, and no task runs past its limit
\* (_run_canvas_with_timeout in ai.py, WorkerSettings.job_timeout).
THEOREM TypeCorrect == QueueSpec => []TypeOK
<1>1. Init => TypeOK
  BY LifetimeAssumption, LimitAssumption
     DEF Init, RoundInit, TypeOK, RoundTypeOK, LockTypeOK, LockFree, Absent,
         Locks, Markers, Places, Requesting, Bound
<1>2. TypeOK /\ [QueueNext]_vars => TypeOK'
  BY TypeStep
<1> QED
  BY <1>1, <1>2, PTL DEF QueueSpec

-----------------------------------------------------------------------------
(***************************************************************************)
(* The registry.  A task whose limit cancelled the consumer may have left  *)
(* the registry while it still rescues its text, so RegistryInv ties only  *)
(* the timed places to an entry; every entry names a task that is alive.   *)
(***************************************************************************)
RoundAlive == Executing \cup {"close"}

RegistryInv ==
    /\ \A r \in Round : pc[r] = "queued" => r \in queued
    /\ \A r \in queued : pc[r] \in RoundAlive \cup {"queued", "gone", "ended"}
    /\ \A r \in Round \ queued : pc[r] \in Timed => registry[Home[r]] = r
    /\ \A p \in Api : registry[p] # None =>
          /\ registry[p] \in Round \ queued
          /\ Home[registry[p]] = p
          /\ pc[registry[p]] \in RoundAlive

\* A step that touches neither queue nor registry, enters no task and leaves none.
LEMMA RegistryKept ==
    ASSUME TypeOK, RegistryInv, NEW r \in Round, NEW from, NEW to,
           Go(r, from, to) \/ Await(r, from, to),
           UNCHANGED <<queued, registry>>,
           \/ from \in RoundAlive /\ to \in RoundAlive /\ (to \in Timed => from \in Timed)
           \/ /\ from \notin RoundAlive \cup {"queued", "gone", "ended"}
              /\ to \notin RoundAlive \cup {"queued"}
    PROVE  RegistryInv'
BY DEF TypeOK, RoundTypeOK, RegistryInv, RoundAlive, Executing, Timed, Body, Go, Await, Step

\* A task that ends, or leaves the registry at once when its limit is reached.
LEMMA RegistryLeft ==
    ASSUME TypeOK, RegistryInv, NEW r \in Round, NEW from \in RoundAlive, NEW to,
           Await(r, from, to), to \in {"rescue", "ended"}, UNCHANGED queued,
           registry' = [p \in Api |-> IF registry[p] = r THEN None ELSE registry[p]]
    PROVE  RegistryInv'
<1> USE DEF Await, Step, TypeOK, RoundTypeOK, RoundAlive, Executing, Timed, Body
<1>1. /\ \A q \in Round : pc'[q] = "queued" => q \in queued'
      /\ \A q \in queued' : pc'[q] \in RoundAlive \cup {"queued", "gone", "ended"}
  BY DEF RegistryInv
<1>2. ASSUME NEW q \in Round \ queued', pc'[q] \in Timed
      PROVE  registry'[Home[q]] = q
  <2>1. q # r /\ registry[Home[q]] = q
    BY <1>2 DEF RegistryInv
  <2> QED
    BY <2>1, ProcessAssumption
<1>3. ASSUME NEW p \in Api, registry'[p] # None
      PROVE  /\ registry'[p] \in Round \ queued'
             /\ Home[registry'[p]] = p
             /\ pc'[registry'[p]] \in RoundAlive
  BY <1>3 DEF RegistryInv
<1> QED
  BY <1>1, <1>2, <1>3 DEF RegistryInv

\* A round that goes to the queue was in no registry.
LEMMA EnqueuedRegistry ==
    ASSUME TypeOK, RegistryInv, NEW r \in Round,
           Await(r, "built", "queued"),
           queued' = queued \cup {r},
           registry' = registry
    PROVE  RegistryInv'
<1> USE DEF TypeOK, RoundTypeOK, RoundAlive, Executing, Timed, Body, Await, Step
<1>1. /\ \A q \in Round : pc'[q] = "queued" => q \in queued'
      /\ \A q \in queued' : pc'[q] \in RoundAlive \cup {"queued", "gone", "ended"}
  BY DEF RegistryInv
<1>2. \A q \in Round \ queued' : pc'[q] \in Timed => registry'[Home[q]] = q
  BY DEF RegistryInv
<1>3. ASSUME NEW p \in Api, registry'[p] # None
      PROVE  /\ registry'[p] \in Round \ queued'
             /\ Home[registry'[p]] = p
             /\ pc'[registry'[p]] \in RoundAlive
  <2>1. registry[p] # r
    BY <1>3 DEF RegistryInv
  <2> QED
    BY <1>3, <2>1 DEF RegistryInv
<1> QED
  BY <1>1, <1>2, <1>3 DEF RegistryInv

\* A round that is admitted finds its process without a task.
LEMMA StartedRegistry ==
    ASSUME TypeOK, RegistryInv, NEW r \in Round, Start(r)
    PROVE  RegistryInv'
<1> USE ProcessAssumption
    DEF Start, Await, Step, RoundAlive, Executing, Timed, Body, TypeOK, RoundTypeOK
<1>1. r \notin queued /\ Home[r] \in Api
  BY DEF RegistryInv
<1>2. /\ \A q \in Round : pc'[q] = "queued" => q \in queued'
      /\ \A q \in queued' : pc'[q] \in RoundAlive \cup {"queued", "gone", "ended"}
  BY <1>1 DEF RegistryInv
<1>3. ASSUME NEW q \in Round \ queued', pc'[q] \in Timed
      PROVE  registry'[Home[q]] = q
  <2>1. CASE q = r
    BY <1>1, <2>1
  <2>2. CASE q # r
    <3>1. registry[Home[q]] = q
      BY <1>3, <2>2 DEF RegistryInv
    <3>2. Home[q] # Home[r]
      BY <3>1, NoneAssumption
    <3> QED
      BY <3>1, <3>2
  <2> QED
    BY <2>1, <2>2
<1>4. ASSUME NEW p \in Api, registry'[p] # None
      PROVE  /\ registry'[p] \in Round \ queued'
             /\ Home[registry'[p]] = p
             /\ pc'[registry'[p]] \in RoundAlive
  BY <1>1, <1>4 DEF RegistryInv
<1> QED
  BY <1>2, <1>3, <1>4 DEF RegistryInv

LEMMA PickedRegistry ==
    ASSUME TypeOK, RegistryInv, NEW r \in Round, Pick(r)
    PROVE  RegistryInv'
<1> USE DEF Pick, task, Await, Step, RoundAlive, Executing, Timed, Body, TypeOK, RoundTypeOK
<1>1. r \in queued
  BY DEF RegistryInv
<1>2. \A q \in Round \ queued' : pc'[q] \in Timed => registry'[Home[q]] = q
  BY <1>1 DEF RegistryInv
<1>3. ASSUME NEW p \in Api, registry'[p] # None
      PROVE  /\ registry'[p] \in Round \ queued'
             /\ Home[registry'[p]] = p
             /\ pc'[registry'[p]] \in RoundAlive
  BY <1>1, <1>3 DEF RegistryInv
<1>4. /\ \A q \in Round : pc'[q] = "queued" => q \in queued'
      /\ \A q \in queued' : pc'[q] \in RoundAlive \cup {"queued", "gone", "ended"}
  BY <1>1 DEF RegistryInv
<1> QED
  BY <1>2, <1>3, <1>4 DEF RegistryInv

LEMMA RegistryStep ==
    ASSUME TypeOK, RegistryInv, [QueueNext]_vars
    PROVE  RegistryInv'
<1> USE DEF RoundAlive, Executing, Timed, Body, task, canvasVars
<1>1. ASSUME NEW r \in Round, Enter(r) PROVE RegistryInv'
  BY <1>1, RegistryKept
     DEF Enter, Acquire, AcquireTaken, ProbeRunning, ProbeIdle, ForceRelease,
         Reacquire, ReacquireTaken
<1>2. ASSUME NEW r \in Round, Launch(r) PROVE RegistryInv'
  <2>1. CASE CommitAndMark(r) \/ Build(r) \/ StartRefused(r)
    BY <2>1, RegistryKept DEF CommitAndMark, Build, StartRefused
  <2>2. CASE Enqueue(r)
    BY <2>2, EnqueuedRegistry DEF Enqueue
  <2> QED
    BY <1>2, <2>1, <2>2, StartedRegistry, PickedRegistry DEF Launch
<1>3. ASSUME NEW r \in Round, Leave(r) PROVE RegistryInv'
  <2>1. CASE UnlockCheck(r) \/ Unlock(r)
    BY <2>1, RegistryKept DEF UnlockCheck, Unlock, DeleteToken
  <2>2. CASE Close(r)
    BY <2>2, RegistryLeft DEF Close
  <2> QED
    BY <1>3, <2>1, <2>2 DEF Leave
<1>4. ASSUME NEW r \in Round, Own(r) PROVE RegistryInv'
  <2>1. CASE AbortCheck(r) \/ AbortUnlock(r)
    BY <2>1, RegistryKept DEF AbortCheck, AbortUnlock, DeleteToken
  <2>2. CASE Save(r) \/ ClearMarker(r) \/ Tell(r) \/ CutFinally(r)
    BY <2>2, RegistryKept DEF Save, ClearMarker, Tell, CutFinally
  <2>3. CASE SaveHint(r) \/ CheckMarker(r) \/ Interrupt(r)
    BY <2>3, RegistryKept DEF SaveHint, CheckMarker, Interrupt
  <2>4. CASE Timeout(r)
    <3>1. PICK from \in Body : Await(r, from, "rescue")
      BY <2>4 DEF Timeout
    <3>2. CASE UNCHANGED registry
      BY <2>4, <3>1, <3>2, RegistryKept DEF Timeout
    <3>3. CASE ~UNCHANGED registry
      BY <2>4, <3>1, <3>3, RegistryLeft DEF Timeout
    <3> QED
      BY <3>2, <3>3
  <2> QED
    BY <1>4, <2>1, <2>2, <2>3, <2>4 DEF Own
<1>5. ASSUME NEW r \in Round, Fault(r) \/ EnqueueCancelled(r) PROVE RegistryInv'
  <2>1. CASE RequestFails(r)
    BY <2>1, RegistryKept DEF RequestFails
  <2>2. CASE Fail(r)
    BY <2>2, RegistryKept DEF Fail
  <2>3. CASE EnqueueCancelled(r)
    BY <2>3, EnqueuedRegistry DEF EnqueueCancelled
  <2> QED
    BY <1>5, <2>1, <2>2, <2>3 DEF Fault
<1>6. ASSUME NEW p \in Process, Crash(p) PROVE RegistryInv'
  BY <1>6, ProcessAssumption, NoneAssumption
     DEF Crash, Victims, At, Over, Process, RegistryInv, TypeOK, RoundTypeOK
<1>7. CASE TickTasks
  BY <1>7 DEF TickTasks, RegistryInv
<1>8. CASE UNCHANGED vars
  BY <1>8 DEF vars, RegistryInv
<1> QED
  BY <1>1, <1>2, <1>3, <1>4, <1>5, <1>6, <1>7, <1>8 DEF QueueNext, Next, Shared

THEOREM RegistryInvariant == QueueSpec => []RegistryInv
<1>1. Init => RegistryInv
  BY DEF Init, RoundInit, RegistryInv, RoundAlive, Executing, Timed, Body
<1>2. TypeOK /\ RegistryInv /\ [QueueNext]_vars => RegistryInv'
  BY RegistryStep
<1> QED
  BY <1>1, <1>2, TypeCorrect, PTL DEF QueueSpec

\* One agent at a time works on the canvas in a process: chat_registry admits the next
\* task only when the last has left, and a task that is cancelled early works no more
\* (chat_stream_registry.py, start; _run_canvas_with_timeout in ai.py).
THEOREM OneAgent == QueueSpec => []OneAgentPerProcess
<1>1. RegistryInv => OneAgentPerProcess
  BY DEF RegistryInv, OneAgentPerProcess, Working
<1> QED
  BY <1>1, RegistryInvariant, PTL

\* chat_registry forgets every task that is over (chat_stream_registry.py, _runner).
THEOREM RegistryNamesLive == QueueSpec => []RegistryIsLive
<1>1. RegistryInv => RegistryIsLive
  BY DEF RegistryInv, RegistryIsLive, RoundAlive
<1> QED
  BY <1>1, RegistryInvariant, PTL

-----------------------------------------------------------------------------
(***************************************************************************)
(* ReleasesOwnLock, for one API process without the queue: between GET and *)
(* DEL the event loop runs no other round, so the lock found own is still  *)
(* own, or has expired.                                                    *)
(***************************************************************************)
Releasing == {"unlockDel", "abortDel"}

NoQueue == queued = {} /\ \A r \in Round : pc[r] # "queued"

ReleaseInv(a) ==
    \A r \in Round : pc[r] \in Releasing => loop[a] = r /\ lock.by \in {r, None}

\* A step of r, which alone can move while it releases.
LEMMA ReleaseKept ==
    ASSUME NEW a, Api = {a}, TypeOK, NoQueue, ReleaseInv(a),
           NEW r \in Round, NEW from, NEW to, to # "queued",
           Go(r, from, to) \/ Await(r, from, to),
           queued' = queued,
           to \in Releasing => Go(r, from, to) /\ lock'.by \in {r, None}
    PROVE  NoQueue' /\ ReleaseInv(a)'
<1> USE DEF TypeOK, RoundTypeOK
<1>1. At(r) = a /\ a \in Process
  BY ProcessAssumption DEF At, NoQueue, Process
<1>2. ASSUME NEW q \in Round, q # r PROVE pc[q] \notin Releasing /\ pc'[q] = pc[q]
  BY <1>1, <1>2, NoneAssumption DEF ReleaseInv, Go, Await, Step
<1>3. pc'[r] = to
  BY DEF Go, Await, Step
<1>4. to \in Releasing => loop'[a] = r
  BY <1>1 DEF Go
<1> QED
  BY <1>2, <1>3, <1>4 DEF ReleaseInv, NoQueue

LEMMA ReleaseStep ==
    ASSUME NEW a, Api = {a}, ~QueueEnabled,
           TypeOK, NoQueue, ReleaseInv(a), [Next]_vars
    PROVE  NoQueue' /\ ReleaseInv(a)'
<1> USE DEF Releasing, task, canvasVars
<1>1. ASSUME NEW r \in Round, Enter(r) PROVE NoQueue' /\ ReleaseInv(a)'
  BY <1>1, ReleaseKept
     DEF Enter, Acquire, AcquireTaken, ProbeRunning, ProbeIdle, ForceRelease,
         Reacquire, ReacquireTaken
<1>2. ASSUME NEW r \in Round, Launch(r) PROVE NoQueue' /\ ReleaseInv(a)'
  BY <1>2, ReleaseKept
     DEF Launch, CommitAndMark, Build, Enqueue, Start, StartRefused, Pick
<1>3. ASSUME NEW r \in Round, Leave(r) PROVE NoQueue' /\ ReleaseInv(a)'
  <2>1. CASE UnlockCheck(r)
    BY <2>1, ReleaseKept DEF UnlockCheck, HoldsLock
  <2>2. CASE Unlock(r) \/ Close(r)
    BY <2>2, ReleaseKept DEF Unlock, DeleteToken, Close
  <2> QED
    BY <1>3, <2>1, <2>2 DEF Leave
<1>4. ASSUME NEW r \in Round, Own(r) PROVE NoQueue' /\ ReleaseInv(a)'
  <2>1. CASE AbortCheck(r)
    BY <2>1, ReleaseKept DEF AbortCheck, HoldsLock
  <2>2. CASE AbortUnlock(r) \/ Save(r) \/ ClearMarker(r) \/ Tell(r)
    BY <2>2, ReleaseKept DEF AbortUnlock, DeleteToken, Save, ClearMarker, Tell
  <2>3. CASE Timeout(r) \/ CutFinally(r) \/ SaveHint(r)
    BY <2>3, ReleaseKept DEF Timeout, CutFinally, SaveHint, Body
  <2>4. CASE CheckMarker(r) \/ Interrupt(r)
    BY <2>4, ReleaseKept DEF CheckMarker, Interrupt
  <2> QED
    BY <1>4, <2>1, <2>2, <2>3, <2>4 DEF Own
<1>5. ASSUME NEW r \in Round, Fault(r) PROVE NoQueue' /\ ReleaseInv(a)'
  BY <1>5, ReleaseKept DEF Fault, RequestFails, Fail
<1>6. ASSUME NEW p \in Process, Crash(p) PROVE NoQueue' /\ ReleaseInv(a)'
  <2>1. \A r \in Round : At(r) = a
    BY ProcessAssumption DEF At, NoQueue, TypeOK, RoundTypeOK
  <2>2. p = a
    BY <1>6, <2>1 DEF Crash, Victims
  <2> QED
    BY <1>6, <2>1, <2>2 DEF Crash, Victims, Over, ReleaseInv, NoQueue
<1>7. CASE TickTasks
  BY <1>7 DEF TickTasks, ExpireKeys, Older, LockFree, ReleaseInv, NoQueue, TypeOK,
              RoundTypeOK, LockTypeOK, Locks
<1>8. CASE UNCHANGED vars
  BY <1>8 DEF vars, ReleaseInv, NoQueue
<1> QED
  BY <1>1, <1>2, <1>3, <1>4, <1>5, <1>6, <1>7, <1>8 DEF Next, Shared

\* Every behaviour of Spec is one of QueueSpec, so what is proved of the latter
\* holds of the rounds without the queue too.
THEOREM SpecAllowsLess == Spec => QueueSpec
<1>1. [Next]_vars => [QueueNext]_vars
  BY DEF QueueNext
<1> QED
  BY <1>1, PTL DEF Spec, QueueSpec

\* release_session_lock deletes no lock but the round's own, although GET and
\* DEL are two commands: at the end of a task, and in the finally block of a
\* request that launched nothing (session_lock.py; ai.py, event_generator).
THEOREM ReleaseIsOwn ==
    ASSUME NEW a, Api = {a}, ~QueueEnabled
    PROVE  Spec => ReleasesOwnLock
<1>1. Init => NoQueue /\ ReleaseInv(a)
  BY DEF Init, RoundInit, NoQueue, ReleaseInv, Releasing
<1>2. TypeOK /\ NoQueue /\ ReleaseInv(a) /\ [Next]_vars => (NoQueue /\ ReleaseInv(a))'
  BY ReleaseStep
<1>3. ReleaseInv(a) => \A r \in Round : (AbortUnlock(r) \/ Unlock(r)) => lock.by \in {r, None}
  BY DEF ReleaseInv, Releasing, AbortUnlock, Unlock, Go, Await, Step
<1> QED
  BY <1>1, <1>2, <1>3, TypeCorrect, SpecAllowsLess, PTL DEF Spec, ReleasesOwnLock


-----------------------------------------------------------------------------
(* The conversations page. *)

Streams ==
    [phase : {"free", "open", "done"}, chat : Chats \cup {NoChat}, resume : BOOLEAN, plain : BOOLEAN, then : BOOLEAN]
Loads == [chat : Chats \cup {NoChat}, force : BOOLEAN, then : BOOLEAN]

ChatTyped ==
    /\ streams \in [Slots -> Streams] /\ loads \in Seq(Loads) /\ active \in Chats \cup {NoChat}
    /\ excused \subseteq Slots /\ {streaming, mounted, crossed} \subseteq BOOLEAN
    /\ shown \in [of : Chats \cup {NoChat}, bubbles : SUBSET Slots]

\* Where the input is free no stream is left that has not lost its bubble or its lock.
FreeInput == streaming = FALSE => Open \subseteq excused

\* The page shows the active conversation, or its history is under way.
ShowsOrLoads ==
    ~crossed => shown.of \in {active, NoChat} \/ \E i \in DOMAIN loads : loads[i].chat = active

ChatInv == ChatTyped /\ BubbleKept /\ FreeInput /\ ShowsOrLoads

\* What is taken out leaves the others in their order.
LEMMA RemovedFrom ==
    ASSUME NEW S, NEW s \in Seq(S), NEW i \in 1 .. Len(s)
    PROVE  /\ RemoveAt(s, i) \in Seq(S) /\ Len(RemoveAt(s, i)) = Len(s) - 1
           /\ \A k \in 1 .. Len(s) - 1 : RemoveAt(s, i)[k] = IF k < i THEN s[k] ELSE s[k + 1]
<1> DEFINE a == SubSeq(s, 1, i - 1)
           b == SubSeq(s, i + 1, Len(s))
<1>1. Len(s) \in Nat /\ \A k \in 1 .. Len(s) : s[k] \in S
  OBVIOUS
<1>2. a \in Seq(S) /\ Len(a) = i - 1 /\ \A k \in 1 .. i - 1 : a[k] = s[k]
  <2>1. 1 \in Int /\ i - 1 \in Int /\ \A k \in 1 .. i - 1 : s[k] \in S
    BY <1>1
  <2> QED
    BY <1>1, <2>1, SubSeqProperties
<1>3. b \in Seq(S) /\ Len(b) = Len(s) - i /\ \A k \in 1 .. Len(s) - i : b[k] = s[i + k]
  <2>1. i + 1 \in Int /\ Len(s) \in Int /\ \A k \in i + 1 .. Len(s) : s[k] \in S
    BY <1>1
  <2> QED
    BY <1>1, <2>1, SubSeqProperties
<1> HIDE DEF a, b
<1>4. /\ a \o b \in Seq(S) /\ Len(a \o b) = Len(a) + Len(b)
      /\ \A k \in 1 .. Len(a) + Len(b) :
            (a \o b)[k] = IF k <= Len(a) THEN a[k] ELSE b[k - Len(a)]
  BY <1>2, <1>3, ConcatProperties
<1>5. RemoveAt(s, i) = a \o b
  BY DEF RemoveAt, a, b
<1>6. ASSUME NEW k \in 1 .. Len(s) - 1
      PROVE  (a \o b)[k] = IF k < i THEN s[k] ELSE s[k + 1]
  <2>1. CASE k < i
    BY <1>1, <1>2, <1>3, <1>4, <2>1
  <2>2. CASE ~(k < i)
    <3>1. (a \o b)[k] = b[k - (i - 1)] /\ k - (i - 1) \in 1 .. Len(s) - i
      BY <1>1, <1>2, <1>3, <1>4, <2>2
    <3>2. i + (k - (i - 1)) = k + 1
      BY <1>1
    <3> QED
      BY <1>3, <2>2, <3>1, <3>2
  <2> QED
    BY <2>1, <2>2
<1> QED
  BY <1>1, <1>2, <1>3, <1>4, <1>5, <1>6


\* A history that is done with is no longer under way, the others still are.
LEMMA LoadDone ==
    ASSUME loads \in Seq(Loads), NEW i \in DOMAIN loads, loads' = RemoveAt(loads, i)
    PROVE  /\ loads' \in Seq(Loads)
           /\ \A j \in DOMAIN loads : j # i => \E m \in DOMAIN loads' : loads'[m] = loads[j]
<1>1. i \in 1 .. Len(loads) /\ DOMAIN loads = 1 .. Len(loads) /\ Len(loads) \in Nat
  BY SMTT(30)
<1>2. /\ loads' \in Seq(Loads) /\ Len(loads') = Len(loads) - 1
      /\ \A k \in 1 .. Len(loads) - 1 : loads'[k] = IF k < i THEN loads[k] ELSE loads[k + 1]
  BY <1>1, RemovedFrom
<1>3. ASSUME NEW j \in DOMAIN loads, j # i PROVE \E m \in DOMAIN loads' : loads'[m] = loads[j]
  <2>0. DOMAIN loads' = 1 .. Len(loads) - 1
    BY <1>1, <1>2
  <2>1. CASE j < i
    <3>1. j \in DOMAIN loads' /\ loads'[j] = loads[j]
      BY <1>1, <1>2, <1>3, <2>0, <2>1
    <3> QED
      BY <3>1
  <2>2. CASE i < j
    <3>1. j - 1 \in DOMAIN loads' /\ loads'[j - 1] = loads[j]
      BY <1>1, <1>2, <1>3, <2>0, <2>2
    <3> QED
      BY <3>1
  <2> QED
    BY <1>1, <1>3, <2>1, <2>2
<1> QED
  BY <1>2, <1>3

LEMMA LoadAdded ==
    ASSUME loads \in Seq(Loads), NEW l \in Loads, loads' = Append(loads, l)
    PROVE  /\ loads' \in Seq(Loads)
           /\ \A j \in DOMAIN loads : \E m \in DOMAIN loads' : loads'[m] = loads[j]
           /\ \E m \in DOMAIN loads' : loads'[m] = l
<1>1. /\ loads' \in Seq(Loads) /\ DOMAIN loads' = 1 .. Len(loads) + 1 /\ Len(loads) \in Nat /\ DOMAIN loads = 1 .. Len(loads)
      /\ \A j \in 1 .. Len(loads) : loads'[j] = loads[j]
      /\ loads'[Len(loads) + 1] = l
  OBVIOUS
<1>2. \A j \in DOMAIN loads : j \in DOMAIN loads' /\ loads'[j] = loads[j]
  BY <1>1
<1>3. Len(loads) + 1 \in DOMAIN loads'
  BY <1>1
<1> QED
  BY <1>1, <1>2, <1>3

LEMMA LoadRow == ASSUME NEW c \in Chats \cup {NoChat}, NEW f \in BOOLEAN, NEW t \in BOOLEAN
                 PROVE  Load(c, f, t) \in Loads /\ Load(c, f, t).chat = c
BY DEF Load, Loads

LEMMA StreamOf == ASSUME ChatTyped, NEW k \in Slots
                  PROVE  streams[k] \in Streams /\ streams[k].chat \in Chats \cup {NoChat}
BY DEF ChatTyped, Streams

\* What is shown when it is known.
LEMMA ShownRow ==
    ASSUME NEW c \in Chats \cup {NoChat}, NEW b \in SUBSET Slots
    PROVE  /\ [of |-> c, bubbles |-> b] \in [of : Chats \cup {NoChat}, bubbles : SUBSET Slots]
           /\ [of |-> c, bubbles |-> b].of = c /\ [of |-> c, bubbles |-> b].bubbles = b
OBVIOUS

\* A stream that begins has its bubble, and the input is not free.
LEMMA StreamBegins ==
    ASSUME ChatTyped, NEW k \in FreeSlot, NEW s \in Streams, s.phase = "open",
           NEW m \in [of : Chats \cup {NoChat}, bubbles : SUBSET Slots],
           streams' = [streams EXCEPT ![k] = s], streaming' = TRUE,
           shown' = [m EXCEPT !.bubbles = @ \cup {k}], excused' = excused \ {k},
           \A j \in Open \ excused : j \in m.bubbles
    PROVE  /\ streams' \in [Slots -> Streams] /\ excused' \subseteq Slots
           /\ shown' \in [of : Chats \cup {NoChat}, bubbles : SUBSET Slots] /\ shown'.of = m.of
           /\ BubbleKept' /\ FreeInput'
<1>1. /\ k \in Slots /\ streams' \in [Slots -> Streams] /\ streams'[k].phase = "open"
      /\ \A j \in Slots : j # k => streams'[j] = streams[j]
  BY DEF ChatTyped, FreeSlot
<1>2. /\ shown' \in [of : Chats \cup {NoChat}, bubbles : SUBSET Slots] /\ shown'.of = m.of
      /\ shown'.bubbles = m.bubbles \cup {k}
  BY <1>1
<1>3. Open' \subseteq Open \cup {k}
  BY <1>1 DEF Open
<1> QED
  BY <1>1, <1>2, <1>3 DEF ChatTyped, BubbleKept, FreeInput

LEMMA AgentBegins ==
    ASSUME ChatTyped, NEW k \in FreeSlot, NEW c \in Chats \cup {NoChat}, NEW r \in BOOLEAN, NEW t \in BOOLEAN,
           NEW m \in [of : Chats \cup {NoChat}, bubbles : SUBSET Slots], BeginAgent(k, c, r, t, m),
           \A j \in Open \ excused : j \in m.bubbles
    PROVE  /\ streams' \in [Slots -> Streams] /\ excused' \subseteq Slots
           /\ shown' \in [of : Chats \cup {NoChat}, bubbles : SUBSET Slots] /\ shown'.of = m.of
           /\ BubbleKept' /\ FreeInput'
<1> DEFINE s == [phase |-> "open", chat |-> c, resume |-> r, plain |-> FALSE, then |-> t]
<1>1. s \in Streams /\ s.phase = "open"
  BY DEF Streams
<1>2. /\ streams' = [streams EXCEPT ![k] = s] /\ streaming' = TRUE
      /\ shown' = [m EXCEPT !.bubbles = @ \cup {k}] /\ excused' = excused \ {k}
  BY DEF BeginAgent
<1> HIDE DEF s
<1> QED
  BY <1>1, <1>2, StreamBegins

LEMMA PlainBegins ==
    ASSUME ChatTyped, NEW k \in FreeSlot, NEW c \in Chats \cup {NoChat}, BeginPlain(k, c), BubbleKept
    PROVE  /\ streams' \in [Slots -> Streams] /\ excused' \subseteq Slots
           /\ shown' \in [of : Chats \cup {NoChat}, bubbles : SUBSET Slots] /\ shown'.of = shown.of
           /\ BubbleKept' /\ FreeInput'
<1> DEFINE s == [phase |-> "open", chat |-> c, resume |-> FALSE, plain |-> TRUE, then |-> FALSE]
<1>1. s \in Streams /\ s.phase = "open"
  BY DEF Streams
<1>2. /\ streams' = [streams EXCEPT ![k] = s] /\ streaming' = TRUE
      /\ shown' = [shown EXCEPT !.bubbles = @ \cup {k}] /\ excused' = excused \ {k}
  BY DEF BeginPlain
<1> HIDE DEF s
<1>3. shown \in [of : Chats \cup {NoChat}, bubbles : SUBSET Slots]
  BY DEF ChatTyped
<1> QED
  BY <1>1, <1>2, <1>3, StreamBegins DEF BubbleKept

-----------------------------------------------------------------------------
(* Histories. *)

LEMMA HistoryKept == ASSUME ChatInv, NEW i \in DOMAIN loads, HistoryComes(i) PROVE ChatInv'
<1> USE DEF ChatInv
<1> DEFINE l == loads[i]
           refused == ~l.force /\ streaming
           m == [of |-> l.chat, bubbles |-> {}]
<1>1. l \in Loads /\ l.chat \in Chats \cup {NoChat} /\ l.then \in BOOLEAN
  <2>1. l \in Loads
    BY DEF ChatTyped
  <2> QED
    BY <2>1 DEF Loads
<1>2. m \in [of : Chats \cup {NoChat}, bubbles : SUBSET Slots] /\ m.of = l.chat /\ m.bubbles = {}
  BY <1>1
<1>3. /\ loads' = RemoveAt(loads, i) /\ active' = active /\ mounted' = mounted
      /\ crossed' = (IF l.chat = active THEN refused ELSE (crossed \/ ~refused))
  BY DEF HistoryComes
<1>b. streaming \in BOOLEAN /\ mounted \in BOOLEAN /\ crossed \in BOOLEAN
  BY DEF ChatTyped
<1>c. l.force \in BOOLEAN
  BY <1>1 DEF Loads
<1>4. \/ refused /\ UNCHANGED <<shown, streams, streaming, excused>>
      \/ ~refused /\ streaming = FALSE /\ \E k \in FreeSlot : BeginAgent(k, l.chat, TRUE, l.then, m)
      \/ /\ ~refused /\ shown' = m /\ UNCHANGED <<streams, streaming>>
         /\ excused' = IF l.force THEN excused \cup Open ELSE excused
  <2>1. CASE refused
    BY <2>1 DEF HistoryComes
  <2>2. CASE ~refused
    <3>1. \/ (listed[l.chat] = "running" /\ ~streaming) /\ ~agentLock
             /\ \E k \in FreeSlot : BeginAgent(k, l.chat, TRUE, l.then, m)
          \/ /\ shown' = m /\ UNCHANGED <<streams, streaming>>
             /\ excused' = IF l.force THEN excused \cup Open ELSE excused
      BY <2>2 DEF HistoryComes
    <3> QED
      BY <1>b, <2>2, <3>1
  <2> QED
    BY <2>1, <2>2
<1>5. /\ loads' \in Seq(Loads)
      /\ \A j \in DOMAIN loads : j # i => \E n \in DOMAIN loads' : loads'[n] = loads[j]
  BY <1>3, LoadDone DEF ChatTyped
<1>6. crossed' \in BOOLEAN /\ mounted' \in BOOLEAN
  BY <1>b, <1>c, <1>3
<1>7. /\ streams' \in [Slots -> Streams] /\ excused' \subseteq Slots /\ streaming' \in BOOLEAN
      /\ shown' \in [of : Chats \cup {NoChat}, bubbles : SUBSET Slots]
      /\ shown'.of = (IF refused THEN shown.of ELSE l.chat)
      /\ BubbleKept' /\ FreeInput'
  <2>1. CASE refused /\ UNCHANGED <<shown, streams, streaming, excused>>
    BY <2>1 DEF ChatTyped, BubbleKept, FreeInput, Open
  <2>2. ASSUME NEW k \in FreeSlot, ~refused, streaming = FALSE, BeginAgent(k, l.chat, TRUE, l.then, m)
        PROVE  <1>7!:
    <3>1. \A j \in Open \ excused : j \in m.bubbles
      BY <2>2 DEF FreeInput
    <3>2. streaming' = TRUE
      BY <2>2 DEF BeginAgent
    <3> HIDE DEF m, l, refused, ChatInv
    <3>3. ChatTyped
      BY DEF ChatInv
    <3>4. m \in [of : Chats \cup {NoChat}, bubbles : SUBSET Slots] /\ l.then \in BOOLEAN
          /\ l.chat \in Chats \cup {NoChat} /\ TRUE \in BOOLEAN
      BY <1>1, <1>2
    <3>5. /\ streams' \in [Slots -> Streams] /\ excused' \subseteq Slots
          /\ shown' \in [of : Chats \cup {NoChat}, bubbles : SUBSET Slots] /\ shown'.of = m.of
          /\ BubbleKept' /\ FreeInput'
      BY <2>2, <3>1, <3>3, <3>4, AgentBegins
    <3> QED
      BY <1>2, <2>2, <3>2, <3>5
  <2>3. CASE /\ ~refused /\ shown' = m /\ UNCHANGED <<streams, streaming>>
             /\ excused' = IF l.force THEN excused \cup Open ELSE excused
    <3>1. Open \subseteq excused' /\ Open' = Open
      <4>1. CASE l.force
        BY <2>3, <4>1 DEF Open
      <4>2. CASE ~l.force
        BY <1>b, <2>3, <4>2 DEF Open, FreeInput
      <4> QED
        BY <4>1, <4>2
    <3>2. excused' \subseteq Slots
      BY <2>3 DEF ChatTyped, Open
    <3>3. BubbleKept' /\ FreeInput'
      BY <3>1 DEF BubbleKept, FreeInput
    <3> QED
      BY <1>2, <1>b, <2>3, <3>2, <3>3 DEF ChatTyped
  <2> QED
    BY <1>4, <2>1, <2>2, <2>3
<1>8. ShowsOrLoads'
  <2>1. CASE l.chat = active
    BY <1>3, <1>7, <2>1 DEF ShowsOrLoads
  <2>2. CASE l.chat # active
    <3>1. ASSUME ~crossed' PROVE ~crossed /\ refused
      BY <1>3, <2>2, <3>1
    <3>2. \A j \in DOMAIN loads : loads[j].chat = active =>
              \E n \in DOMAIN loads' : loads'[n].chat = active
      BY <1>5, <2>2
    <3> QED
      BY <1>3, <1>7, <3>1, <3>2 DEF ShowsOrLoads
  <2> QED
    BY <2>1, <2>2
<1> QED
  BY <1>3, <1>5, <1>6, <1>7, <1>8 DEF ChatTyped

LEMMA ChatFailureKept == ASSUME ChatInv, NEW i \in DOMAIN loads, HistoryFails(i) PROVE ChatInv'
<1> USE DEF ChatInv
<1>1. /\ loads' = RemoveAt(loads, i) /\ crossed' = (crossed \/ loads[i].chat = active)
      /\ UNCHANGED <<active, mounted, shown, streams, streaming, excused>>
  BY DEF HistoryFails
<1>2. /\ loads' \in Seq(Loads)
      /\ \A j \in DOMAIN loads : j # i => \E n \in DOMAIN loads' : loads'[n] = loads[j]
  BY <1>1, LoadDone DEF ChatTyped
<1>3. crossed' \in BOOLEAN
  BY <1>1 DEF ChatTyped
<1>4. ShowsOrLoads'
  <2>1. ASSUME ~crossed' PROVE ~crossed /\ loads[i].chat # active
    BY <1>1, <2>1
  <2> QED
    BY <1>1, <1>2, <2>1 DEF ShowsOrLoads
<1> QED
  BY <1>1, <1>2, <1>3, <1>4 DEF ChatTyped, BubbleKept, FreeInput, Open

\* Where neither the histories nor the streams change, nor what is shown.
LEMMA StillsKept ==
    ASSUME ChatInv, UNCHANGED <<active, shown, streams, streaming, loads, excused, crossed>>,
           mounted' \in BOOLEAN
    PROVE  ChatInv'
BY DEF ChatInv, ChatTyped, BubbleKept, FreeInput, ShowsOrLoads, Open

-----------------------------------------------------------------------------
(* Streams that end. *)

\* A stream that ends takes its bubble along and frees the input: the others are excused.
LEMMA StreamEnds ==
    ASSUME ChatInv, NEW k \in Slots, NEW s \in Streams, s.phase # "open",
           streams' = [streams EXCEPT ![k] = s], excused' = excused \cup (Open \ {k}),
           streaming' \in BOOLEAN,
           shown' \in [of : Chats \cup {NoChat}, bubbles : SUBSET Slots]
    PROVE  /\ streams' \in [Slots -> Streams] /\ excused' \subseteq Slots
           /\ BubbleKept' /\ FreeInput'
<1> USE DEF ChatInv
<1>1. /\ streams' \in [Slots -> Streams] /\ streams'[k] = s
      /\ \A j \in Slots : j # k => streams'[j] = streams[j]
  BY DEF ChatTyped
<1>2. Open' \subseteq Open \ {k}
  BY <1>1 DEF Open
<1>3. excused' \subseteq Slots
  BY DEF ChatTyped, Open
<1> QED
  BY <1>1, <1>2, <1>3 DEF BubbleKept, FreeInput

LEMMA PhaseOf == ASSUME ChatTyped, NEW k \in Slots
                 PROVE  [streams[k] EXCEPT !.phase = "done"] \in Streams
                        /\ [streams[k] EXCEPT !.phase = "done"].phase = "done"
<1>1. streams[k] \in Streams
  BY DEF ChatTyped
<1> QED
  BY <1>1 DEF Streams

LEMMA NoStreamRow == NoStream \in Streams /\ NoStream.phase = "free"
BY DEF NoStream, Streams

LEMMA BubbleTaken ==
    ASSUME ChatTyped, NEW k \in Slots, shown' = [shown EXCEPT !.bubbles = @ \ {k}]
    PROVE  shown' \in [of : Chats \cup {NoChat}, bubbles : SUBSET Slots] /\ shown'.of = shown.of
BY DEF ChatTyped

LEMMA DoneKept == ASSUME ChatInv, NEW k \in Slots, Done(k) PROVE ChatInv'
<1> USE DEF ChatInv
<1> DEFINE d == [streams[k] EXCEPT !.phase = "done"]
<1>1. /\ streams' = [streams EXCEPT ![k] = d] /\ streaming' = FALSE
      /\ excused' = excused \cup (Open \ {k}) /\ UNCHANGED <<active, mounted, crossed>>
  BY DEF Done, ChatTyped
<1>2. \/ loads' = Append(loads, Load(streams[k].chat, TRUE, TRUE))
         /\ shown' = [shown EXCEPT !.bubbles = @ \ {k}]
      \/ UNCHANGED <<loads, shown>>
  BY DEF Done
<1>3. d \in Streams /\ d.phase # "open"
  BY PhaseOf
<1> HIDE DEF d
<1>4. shown' \in [of : Chats \cup {NoChat}, bubbles : SUBSET Slots] /\ shown'.of = shown.of
  BY <1>2, BubbleTaken DEF ChatTyped
<1>5. streams' \in [Slots -> Streams] /\ excused' \subseteq Slots /\ BubbleKept' /\ FreeInput'
  BY <1>1, <1>3, <1>4, StreamEnds
<1>6. loads' \in Seq(Loads) /\ \A j \in DOMAIN loads : \E n \in DOMAIN loads' : loads'[n] = loads[j]
  <2>1. CASE loads' = Append(loads, Load(streams[k].chat, TRUE, TRUE))
    <3>1. Load(streams[k].chat, TRUE, TRUE) \in Loads
      BY StreamOf, LoadRow
    <3>2. loads \in Seq(Loads)
      BY DEF ChatTyped
    <3> QED
      BY <2>1, <3>1, <3>2, LoadAdded
  <2>2. CASE loads' = loads
    BY <2>2 DEF ChatTyped
  <2> QED
    BY <1>2, <2>1, <2>2
<1>7. ShowsOrLoads'
  BY <1>1, <1>4, <1>6 DEF ShowsOrLoads
<1> QED
  BY <1>1, <1>4, <1>5, <1>6, <1>7 DEF ChatTyped

LEMMA CloseKept == ASSUME ChatInv, NEW k \in Slots, CloseStream(k) \/ PlainClose(k) PROVE ChatInv'
<1> USE DEF ChatInv
<1>1. /\ streams' = [streams EXCEPT ![k] = NoStream] /\ streaming' = FALSE
      /\ excused' = excused \cup (Open \ {k}) /\ shown' = [shown EXCEPT !.bubbles = @ \ {k}]
      /\ UNCHANGED <<active, mounted, crossed, loads>>
  BY DEF CloseStream, PlainClose
<1>2. shown' \in [of : Chats \cup {NoChat}, bubbles : SUBSET Slots] /\ shown'.of = shown.of
  BY <1>1, BubbleTaken
<1>3. streams' \in [Slots -> Streams] /\ excused' \subseteq Slots /\ BubbleKept' /\ FreeInput'
  BY <1>1, <1>2, NoStreamRow, StreamEnds
<1>4. ShowsOrLoads'
  BY <1>1, <1>2 DEF ShowsOrLoads
<1> QED
  BY <1>1, <1>2, <1>3, <1>4 DEF ChatTyped

LEMMA PlainDoneKept == ASSUME ChatInv, NEW k \in Slots, PlainDone(k) PROVE ChatInv'
<1> USE DEF ChatInv
<1> DEFINE d == [streams[k] EXCEPT !.phase = "done"]
<1>1. /\ streams' = [streams EXCEPT ![k] = d] /\ UNCHANGED <<active, mounted, streaming, loads>>
  BY DEF PlainDone, ChatTyped
<1>2. \/ /\ shown' = [of |-> streams[k].chat, bubbles |-> {}]
         /\ crossed' = (crossed \/ streams[k].chat # active) /\ excused' = excused \cup Open
      \/ UNCHANGED <<shown, crossed, excused>>
  BY DEF PlainDone
<1>3. d \in Streams /\ d.phase = "done"
  BY PhaseOf
<1> HIDE DEF d
<1>4. /\ streams' \in [Slots -> Streams] /\ streams'[k] = d
      /\ \A j \in Slots : j # k => streams'[j] = streams[j]
  BY <1>1, <1>3 DEF ChatTyped
<1>5. Open' \subseteq Open
  BY <1>3, <1>4 DEF Open
<1>6. CASE UNCHANGED <<shown, crossed, excused>>
  BY <1>1, <1>4, <1>5, <1>6 DEF ChatTyped, BubbleKept, FreeInput, ShowsOrLoads
<1>7. CASE /\ shown' = [of |-> streams[k].chat, bubbles |-> {}]
           /\ crossed' = (crossed \/ streams[k].chat # active) /\ excused' = excused \cup Open
  <2>1. /\ shown' \in [of : Chats \cup {NoChat}, bubbles : SUBSET Slots]
        /\ shown'.of = streams[k].chat
    BY <1>7, StreamOf
  <2>2. excused' \subseteq Slots
    BY <1>7 DEF ChatTyped, Open
  <2>3. crossed' \in BOOLEAN
    BY <1>7 DEF ChatTyped
  <2>4. BubbleKept' /\ FreeInput'
    BY <1>5, <1>7 DEF BubbleKept, FreeInput
  <2>5. ShowsOrLoads'
    BY <1>1, <1>7, <2>1 DEF ShowsOrLoads
  <2> QED
    BY <1>1, <1>4, <2>1, <2>2, <2>3, <2>4, <2>5 DEF ChatTyped
<1> QED
  BY <1>2, <1>6, <1>7

-----------------------------------------------------------------------------
(* The user. *)

LEMMA SendKept == ASSUME ChatInv, Send PROVE ChatInv'
<1> USE DEF ChatInv
<1>1. UNCHANGED <<active, mounted, loads, crossed>>
  BY DEF Send
<1>2. \/ UNCHANGED <<streams, streaming, shown, excused>>
      \/ active # NoChat /\ \E k \in FreeSlot : BeginAgent(k, active, FALSE, FALSE, shown)
      \/ active # NoChat /\ \E k \in FreeSlot : BeginPlain(k, active)
  BY DEF Send
<1>3. CASE UNCHANGED <<streams, streaming, shown, excused>>
  BY <1>1, <1>3, StillsKept DEF ChatTyped
<1>4. ASSUME NEW k \in FreeSlot,
             BeginAgent(k, active, FALSE, FALSE, shown) \/ BeginPlain(k, active)
      PROVE  ChatInv'
  <2>1. shown \in [of : Chats \cup {NoChat}, bubbles : SUBSET Slots] /\ active \in Chats \cup {NoChat}
    BY DEF ChatTyped
  <2>2. \A j \in Open \ excused : j \in shown.bubbles
    BY DEF BubbleKept
  <2>3. streaming' = TRUE
    BY <1>4 DEF BeginAgent, BeginPlain
  <2>4. /\ streams' \in [Slots -> Streams] /\ excused' \subseteq Slots
        /\ shown' \in [of : Chats \cup {NoChat}, bubbles : SUBSET Slots] /\ shown'.of = shown.of
        /\ BubbleKept' /\ FreeInput'
    <3>1. CASE BeginAgent(k, active, FALSE, FALSE, shown)
      <4>1. FALSE \in BOOLEAN /\ ChatTyped
        OBVIOUS
      <4> QED
        BY <2>1, <2>2, <3>1, <4>1, AgentBegins
    <3>2. CASE BeginPlain(k, active)
      BY <2>1, <3>2, PlainBegins
    <3> QED
      BY <1>4, <3>1, <3>2
  <2>5. ShowsOrLoads'
    BY <1>1, <2>4 DEF ShowsOrLoads
  <2> QED
    BY <1>1, <2>3, <2>4, <2>5 DEF ChatTyped
<1> QED
  BY <1>2, <1>3, <1>4

\* The page asks for the history of the conversation it turns to.
LEMMA Turned ==
    ASSUME ChatTyped, NEW c \in Chats, c # active, Activate(c, loads)
    PROVE  /\ loads' \in Seq(Loads) /\ active' = c
           /\ mounted => \E j \in DOMAIN loads' : loads'[j].chat = c
<1>1. c \notin {active, NoChat} /\ loads \in Seq(Loads)
  BY StoreAssumption DEF ChatTyped
<1>2. Load(c, FALSE, FALSE) \in Loads /\ Load(c, FALSE, FALSE).chat = c
  BY LoadRow
<1>3. CASE mounted
  <2>1. loads' = Append(loads, Load(c, FALSE, FALSE)) /\ active' = c
    BY <1>1, <1>3 DEF Activate
  <2> HIDE DEF Load
  <2>2. loads' \in Seq(Loads) /\ \E m \in DOMAIN loads' : loads'[m] = Load(c, FALSE, FALSE)
    BY <1>1, <1>2, <2>1, LoadAdded
  <2> QED
    BY <1>2, <2>1, <2>2
<1>4. CASE ~mounted
  BY <1>1, <1>4 DEF Activate
<1> QED
  BY <1>3, <1>4

LEMMA CreatedKept == ASSUME ChatInv, NEW c \in Chats, Created(c) PROVE ChatInv'
<1> USE DEF ChatInv
<1>1. c # active /\ Activate(c, loads) /\ crossed' = ~mounted /\ mounted' = mounted
  BY DEF Created
<1>2. /\ loads' \in Seq(Loads) /\ active' = c
      /\ mounted => \E j \in DOMAIN loads' : loads'[j].chat = c
  BY <1>1, Turned
<1>3. \/ UNCHANGED <<streams, streaming, shown, excused>>
      \/ \E k \in FreeSlot : BeginAgent(k, c, FALSE, FALSE, shown) \/ BeginPlain(k, c)
  BY DEF Created
<1>4. mounted' \in BOOLEAN /\ crossed' \in BOOLEAN
  BY <1>1 DEF ChatTyped
<1>5. /\ streams' \in [Slots -> Streams] /\ excused' \subseteq Slots /\ streaming' \in BOOLEAN
      /\ shown' \in [of : Chats \cup {NoChat}, bubbles : SUBSET Slots]
      /\ BubbleKept' /\ FreeInput'
  <2>1. CASE UNCHANGED <<streams, streaming, shown, excused>>
    BY <2>1 DEF ChatTyped, BubbleKept, FreeInput, Open
  <2>2. ASSUME NEW k \in FreeSlot, BeginAgent(k, c, FALSE, FALSE, shown) \/ BeginPlain(k, c)
        PROVE  <1>5!:
    <3>1. shown \in [of : Chats \cup {NoChat}, bubbles : SUBSET Slots] /\ c \in Chats \cup {NoChat}
      BY DEF ChatTyped
    <3>2. \A j \in Open \ excused : j \in shown.bubbles
      BY DEF BubbleKept
    <3>3. streaming' = TRUE
      BY <2>2 DEF BeginAgent, BeginPlain
    <3>4. CASE BeginAgent(k, c, FALSE, FALSE, shown)
      <4>1. FALSE \in BOOLEAN /\ ChatTyped
        OBVIOUS
      <4>2. /\ streams' \in [Slots -> Streams] /\ excused' \subseteq Slots
            /\ shown' \in [of : Chats \cup {NoChat}, bubbles : SUBSET Slots]
            /\ BubbleKept' /\ FreeInput'
        BY <3>1, <3>2, <3>4, <4>1, AgentBegins
      <4> QED
        BY <3>3, <4>2
    <3>5. CASE BeginPlain(k, c)
      <4>1. /\ streams' \in [Slots -> Streams] /\ excused' \subseteq Slots
            /\ shown' \in [of : Chats \cup {NoChat}, bubbles : SUBSET Slots]
            /\ BubbleKept' /\ FreeInput'
        BY <3>1, <3>5, PlainBegins
      <4> QED
        BY <3>3, <4>1
    <3> QED
      BY <2>2, <3>4, <3>5
  <2> QED
    BY <1>3, <2>1, <2>2
<1>6. ShowsOrLoads'
  <2>1. ~crossed' => mounted
    BY <1>1 DEF ChatTyped
  <2> QED
    BY <1>2, <2>1 DEF ShowsOrLoads
<1> QED
  BY <1>2, <1>4, <1>5, <1>6 DEF ChatTyped

LEMMA SelectKept == ASSUME ChatInv, NEW c \in Chats, Select(c) PROVE ChatInv'
<1> USE DEF ChatInv
<1>1. /\ mounted /\ c # active /\ Activate(c, loads) /\ crossed' = FALSE
      /\ UNCHANGED <<mounted, shown, streams, streaming, excused>>
  BY DEF Select
<1>2. loads' \in Seq(Loads) /\ active' = c /\ \E j \in DOMAIN loads' : loads'[j].chat = c
  BY <1>1, Turned
<1> QED
  BY <1>1, <1>2 DEF ChatTyped, BubbleKept, FreeInput, ShowsOrLoads, Open

LEMMA OpenedKept == ASSUME ChatInv, NEW c \in Chats, Opened(c) PROVE ChatInv'
<1> USE DEF ChatInv
<1>1. /\ Activate(c, loads) /\ crossed' = FALSE /\ shown' = [of |-> c, bubbles |-> {}]
      /\ excused' = excused \cup Open /\ UNCHANGED <<mounted, streams, streaming>>
  BY DEF Opened
<1>2. loads' \in Seq(Loads) /\ active' = c
  <2>1. CASE c = active
    BY <1>1, <2>1 DEF Activate, ChatTyped
  <2>2. CASE c # active
    BY <1>1, <2>2, Turned
  <2> QED
    BY <2>1, <2>2
<1>3. shown' \in [of : Chats \cup {NoChat}, bubbles : SUBSET Slots] /\ shown'.of = c
  BY <1>1
<1>4. excused' \subseteq Slots /\ Open' = Open
  BY <1>1 DEF ChatTyped, Open
<1>5. BubbleKept' /\ FreeInput' /\ ShowsOrLoads'
  BY <1>1, <1>2, <1>3, <1>4 DEF BubbleKept, FreeInput, ShowsOrLoads
<1> QED
  BY <1>1, <1>2, <1>3, <1>4, <1>5 DEF ChatTyped

LEMMA DeletedKept == ASSUME ChatInv, NEW c \in Chats, Deleted(c) PROVE ChatInv'
<1> USE DEF ChatInv
<1>1. UNCHANGED <<mounted, streams, streaming, loads>>
  BY DEF Deleted
<1>2. CASE UNCHANGED <<active, shown, crossed, excused>>
  BY <1>1, <1>2, StillsKept DEF ChatTyped
<1>3. CASE /\ active' = NoChat /\ shown' = Nothing /\ crossed' = FALSE
           /\ excused' = excused \cup Open
  <2>1. shown' \in [of : Chats \cup {NoChat}, bubbles : SUBSET Slots] /\ shown'.of = NoChat
    BY <1>3 DEF Nothing
  <2>2. excused' \subseteq Slots /\ Open' = Open
    BY <1>1, <1>3 DEF ChatTyped, Open
  <2>3. BubbleKept' /\ FreeInput' /\ ShowsOrLoads'
    BY <1>1, <1>3, <2>1, <2>2 DEF BubbleKept, FreeInput, ShowsOrLoads
  <2> QED
    BY <1>1, <1>3, <2>1, <2>2, <2>3 DEF ChatTyped
<1> QED
  BY <1>2, <1>3 DEF Deleted

LEMMA ReturnKept == ASSUME ChatInv, Return PROVE ChatInv'
<1> USE DEF ChatInv
<1>1. /\ UNCHANGED <<active, shown, streams, streaming, excused, crossed>> /\ mounted' = TRUE
      /\ loads' = IF active = NoChat THEN loads ELSE Append(loads, Load(active, FALSE, FALSE))
  BY DEF Return
<1>2. active \in Chats \cup {NoChat} /\ loads \in Seq(Loads)
  BY DEF ChatTyped
<1>3. loads' \in Seq(Loads) /\ \A j \in DOMAIN loads : \E n \in DOMAIN loads' : loads'[n] = loads[j]
  <2>1. Load(active, FALSE, FALSE) \in Loads
    BY <1>2, LoadRow
  <2>2. CASE loads' = Append(loads, Load(active, FALSE, FALSE))
    BY <1>2, <2>1, <2>2, LoadAdded
  <2>3. CASE loads' = loads
    BY <1>2, <2>3
  <2> QED
    BY <1>1, <2>2, <2>3
<1>4. ShowsOrLoads'
  BY <1>1, <1>3 DEF ShowsOrLoads
<1>5. BubbleKept' /\ FreeInput'
  BY <1>1 DEF BubbleKept, FreeInput, Open
<1> QED
  BY <1>1, <1>3, <1>4, <1>5 DEF ChatTyped

LEMMA ChatStart == ASSUME ChatInit PROVE ChatInv
<1> USE DEF ChatInit
<1>1. /\ streams \in [Slots -> Streams] /\ \A k \in Slots : streams[k].phase = "free"
  BY NoStreamRow
<1>2. shown \in [of : Chats \cup {NoChat}, bubbles : SUBSET Slots] /\ shown.of = NoChat
  BY DEF Nothing
<1>3. Open = {}
  BY <1>1 DEF Open
<1>4. loads \in Seq(Loads)
  OBVIOUS
<1>5. ChatTyped
  BY <1>1, <1>2, <1>4 DEF ChatTyped
<1> QED
  BY <1>2, <1>3, <1>5 DEF ChatInv, BubbleKept, FreeInput, ShowsOrLoads

LEMMA ChatStep == ASSUME ChatInv, [ChatNext]_chatVars PROVE ChatInv'
<1>1. mounted \in BOOLEAN
  BY DEF ChatInv, ChatTyped
<1>2. CASE UNCHANGED chatVars
  BY <1>1, <1>2, StillsKept DEF chatVars
<1>3. CASE ListComes \/ ListFails
  BY <1>1, <1>3, StillsKept DEF ListComes, ListFails, ListAnswers
<1>4. ASSUME NEW c \in Chats, TaskEnds(c) \/ Delete(c) PROVE ChatInv'
  BY <1>1, <1>4, StillsKept DEF TaskEnds, Delete, AskServer
<1>5. CASE CreationFails \/ NewChat \/ AskFails \/ LeavePage
  BY <1>1, <1>5, StillsKept DEF CreationFails, NewChat, AskServer, AskFails, LeavePage
<1> QED
  BY <1>2, <1>3, <1>4, <1>5, HistoryKept, ChatFailureKept, DoneKept, CloseKept, PlainDoneKept,
     SendKept, CreatedKept, SelectKept, OpenedKept, DeletedKept, ReturnKept DEF ChatNext

\* No late history takes the bubble of a stream, and what is shown is the active chat.
THEOREM ChatIsShown == ChatSpec => []ChatStoreSound
<1>1. ChatInv => ChatStoreSound
  <2>1. ASSUME ShowsOrLoads PROVE ShowsActive
    BY <2>1 DEF ShowsActive, ShowsOrLoads
  <2> QED
    BY <2>1 DEF ChatInv, ChatStoreSound
<1> QED
  BY <1>1, ChatStart, ChatStep, PTL DEF ChatSpec


-----------------------------------------------------------------------------
(* The insights. *)

InsightEnded == {"success", "failed"}
RuleRows ==
    [is : {"unused", "there", "deleted"}, of : Suggestions \cup {"user"}, time : Times \cup {"none"},
     next : Times \cup {"none"}, ran : Nat, status : InsightEnded \cup {"none"}]
InsightWorking == [at : {"working"}, rule : Rules, record : Nat, read : RuleRows, alone : BOOLEAN]
Telling == [at : {"telling"}, record : Nat, status : InsightEnded]
RunBroken == [at : {"broken"}, record : Nat]
Answering == [at : {"read"}, suggestion : Suggestions, act : {"accept", "dismiss"}]
RecordRows == [rule : Rules, status : Statuses]
SuggestionRows == [status : {"absent", "pending", "accepted", "dismissed"}, rule : Rules \cup {NoRule}]

InsightTyped ==
    /\ rules \in [Rules -> RuleRows] /\ records \in Seq(RecordRows)
    /\ reports \subseteq DOMAIN records /\ notices \subseteq (DOMAIN records) \X InsightEnded
    /\ suggestions \in [Suggestions -> SuggestionRows]
    /\ runs \in [Runners -> {NoRun} \cup InsightWorking \cup Telling \cup RunBroken \cup Answering]

\* A record is of one run, which is at work on it while it says running; it is gone when
\* its rule is, and not before.
RecordsOwned ==
    /\ \A k \in Runners : runs[k].at \in {"working", "telling", "broken"} => runs[k].record \in DOMAIN records
    /\ \A k, j \in Runners :
          /\ runs[k].at \in {"working", "telling", "broken"} /\ runs[j].at \in {"working", "telling", "broken"}
          /\ runs[k].record = runs[j].record
          => k = j
    /\ \A k \in Runners : runs[k].at = "working" =>
          /\ records[runs[k].record].status \in {"running", "gone"}
          /\ records[runs[k].record].rule = runs[k].rule
    /\ \A k \in Runners : runs[k].at = "telling" => records[runs[k].record].status \in {runs[k].status, "gone"}
    /\ \A n \in DOMAIN records : records[n].status # "gone" <=> rules[records[n].rule].is = "there"
    /\ \A n \in DOMAIN records : rules[records[n].rule].is # "unused"

\* What a rule says was written last by the run it names; a run that is alone has read
\* the status the rule still has.
RulesOwned ==
    /\ \A r \in Rules : rules[r].is = "there" /\ rules[r].ran # 0 =>
          /\ rules[r].ran \in DOMAIN records /\ records[rules[r].ran].rule = r
          /\ records[rules[r].ran].status \in InsightEnded
    /\ \A k, j \in Runners :
          runs[k].at = "working" /\ runs[j].at = "working" /\ runs[k].rule = runs[j].rule /\ k # j =>
             ~runs[k].alone
    /\ \A k \in Runners : runs[k].at = "working" /\ runs[k].alone /\ rules[runs[k].rule].is = "there" =>
          rules[runs[k].rule].status = runs[k].read.status

MadeOf(s) == {r \in Rules : rules[r].of = s /\ rules[r].is # "unused"}

\* A suggestion that is being answered once has no rule yet.
AnswersOwned ==
    \A s \in Suggestions \ clashed :
        /\ \A c, d \in Runners :
              runs[c].at = "read" /\ runs[c].suggestion = s /\ runs[d].at = "read" /\ runs[d].suggestion = s => c = d
        /\ \A c \in Runners : runs[c].at = "read" /\ runs[c].suggestion = s => suggestions[s].status = "pending"
        /\ suggestions[s].status \in {"absent", "pending"} => MadeOf(s) = {}
        /\ \A q, r \in MadeOf(s) : q = r
        /\ MadeOf(s) # {} => suggestions[s].status = "accepted"
        /\ \A r \in MadeOf(s) : rules[r].is = "there" => suggestions[s].rule = r

InsightInv ==
    /\ InsightTyped /\ RecordsOwned /\ RulesOwned /\ AnswersOwned
    /\ PublishedIsRecorded /\ RunningIsWorked /\ RuleIsCurrent

LEMMA RunKinds ==
    ASSUME InsightTyped, NEW k \in Runners
    PROVE  /\ runs[k].at \in {"idle", "working", "telling", "broken", "read"}
           /\ runs[k].at = "idle" => runs[k] = NoRun
           /\ runs[k].at = "working" => runs[k] \in InsightWorking
           /\ runs[k].at = "telling" => runs[k] \in Telling
           /\ runs[k].at = "broken" => runs[k] \in RunBroken
           /\ runs[k].at = "read" => runs[k] \in Answering
BY DEF InsightTyped, NoRun, InsightWorking, Telling, RunBroken, Answering

LEMMA RecordFacts ==
    ASSUME InsightTyped
    PROVE  /\ Len(records) \in Nat /\ DOMAIN records = 1 .. Len(records)
           /\ \A n \in DOMAIN records : records[n] \in RecordRows
BY DEF InsightTyped

LEMMA RuleTyped == ASSUME InsightTyped, NEW r \in Rules PROVE rules[r] \in RuleRows
BY DEF InsightTyped

LEMMA NewRuleTyped ==
    ASSUME NEW of \in Suggestions \cup {"user"}, NEW time \in Times
    PROVE  /\ NewRule(of, time) \in RuleRows
           /\ NewRule(of, time).is = "there" /\ NewRule(of, time).of = of /\ NewRule(of, time).ran = 0
           /\ NewRule(of, time).next = NewRule(of, time).time
<1> DEFINE one == [Unused EXCEPT !.is = "there", !.of = of]
           two == [one EXCEPT !.time = time, !.next = time]
<1>1. Unused \in RuleRows /\ Unused.ran = 0
  BY DEF Unused, RuleRows, InsightEnded
<1>2. one \in RuleRows /\ one.is = "there" /\ one.of = of /\ one.ran = 0
  BY <1>1 DEF RuleRows
<1>3. NewRule(of, time) = two
  BY DEF NewRule
<1> HIDE DEF one
<1>4. two \in RuleRows /\ two.is = "there" /\ two.of = of /\ two.ran = 0 /\ two.next = time /\ two.time = time
  BY <1>2 DEF RuleRows
<1> QED
  BY <1>3, <1>4


\* A new rule has no record, and no run is of it; a suggestion it comes of is answered.
LEMMA NewRuleKept ==
    ASSUME InsightInv, NEW r \in Rules, NEW time \in Times,
           CreateRule(r, time) \/ \E c \in Runners : Accept(c, r, time)
    PROVE  InsightInv'
<1> USE RecordFacts DEF InsightInv
<1>0. /\ rules[r].is = "unused" /\ UNCHANGED <<records, reports, notices, torn, late, clashed>>
      /\ \/ /\ rules' = [rules EXCEPT ![r] = NewRule("user", time)]
            /\ UNCHANGED <<suggestions, runs>>
         \/ \E c \in Runners : LET s == runs[c].suggestion IN
               /\ runs[c].at = "read" /\ rules' = [rules EXCEPT ![r] = NewRule(s, time)]
               /\ suggestions' = [suggestions EXCEPT ![s] = [status |-> "accepted", rule |-> r]]
               /\ runs' = [runs EXCEPT ![c] = NoRun]
  BY DEF CreateRule, Accept
<1>1. \A k \in Runners : runs[k].at = "read" => runs[k].suggestion \in Suggestions
  BY RunKinds DEF Answering
<1>2. PICK of \in Suggestions \cup {"user"} :
         /\ rules' = [rules EXCEPT ![r] = NewRule(of, time)]
         /\ \/ of = "user" /\ UNCHANGED <<suggestions, runs>>
            \/ \E c \in Runners : /\ runs[c].at = "read" /\ of = runs[c].suggestion
                                  /\ suggestions' = [suggestions EXCEPT ![of] = [status |-> "accepted", rule |-> r]]
                                  /\ runs' = [runs EXCEPT ![c] = NoRun]
  BY <1>0, <1>1
<1> DEFINE new == NewRule(of, time)
<1>3. new \in RuleRows /\ new.is = "there" /\ new.of = of /\ new.ran = 0 /\ new.next = new.time
  BY NewRuleTyped
<1> HIDE DEF new
<1>4. \A q \in Rules : rules'[q] = IF q = r THEN new ELSE rules[q]
  BY <1>2 DEF InsightTyped, new
<1>5. /\ runs' \in [Runners -> {NoRun} \cup InsightWorking \cup Telling \cup RunBroken \cup Answering]
      /\ \A k \in Runners : \/ runs'[k] = runs[k]
                            \/ runs[k].at = "read" /\ runs'[k].at = "idle"
  BY <1>0 DEF InsightTyped, NoRun
<1>6. \A n \in DOMAIN records : records[n].rule \in Rules /\ records[n].rule # r
  BY <1>0 DEF RecordsOwned, RecordRows
<1>7. \A k \in Runners : runs'[k].at = "working" => runs'[k] = runs[k] /\ runs[k].rule # r /\ runs[k].rule \in Rules
  BY <1>5, <1>6, RunKinds DEF RecordsOwned, InsightWorking
<1>8. InsightTyped'
  <2>1. suggestions' \in [Suggestions -> SuggestionRows]
    BY <1>0, <1>1 DEF InsightTyped, SuggestionRows
  <2>2. rules' \in [Rules -> RuleRows]
    BY <1>2, <1>3 DEF InsightTyped, new
  <2> QED
    BY <1>0, <1>5, <2>1, <2>2 DEF InsightTyped
<1>9. RecordsOwned'
  BY <1>0, <1>4, <1>5, <1>6, <1>7 DEF RecordsOwned
<1>10. RulesOwned'
  <2>1. \A q \in Rules : rules'[q].is = "there" /\ rules'[q].ran # 0 =>
          /\ rules'[q].ran \in DOMAIN records' /\ records'[rules'[q].ran].rule = q
          /\ records'[rules'[q].ran].status \in InsightEnded
    BY <1>0, <1>3, <1>4 DEF RulesOwned
  <2>2. \A k \in Runners : runs'[k].at = "working" => rules'[runs[k].rule] = rules[runs[k].rule]
    BY <1>4, <1>7
  <2> QED
    BY <1>7, <2>1, <2>2 DEF RulesOwned
<1>11. PublishedIsRecorded'
  BY <1>0 DEF PublishedIsRecorded
<1>12. RunningIsWorked'
  BY <1>0, <1>5 DEF RunningIsWorked
<1>13. RuleIsCurrent'
  BY <1>0, <1>3, <1>4 DEF RuleIsCurrent
<1>14. AnswersOwned'
  <2>1. CASE of = "user" /\ UNCHANGED <<suggestions, runs>>
    <3>1. \A s \in Suggestions : MadeOf(s)' = MadeOf(s)
      BY <1>0, <1>3, <1>4, <2>1, InsightAssumption DEF MadeOf
    <3>2. \A s \in Suggestions : \A q \in MadeOf(s) : rules'[q] = rules[q]
      BY <1>0, <1>4 DEF MadeOf
    <3> QED
      BY <1>0, <2>1, <3>1, <3>2 DEF AnswersOwned
  <2>2. ASSUME NEW c \in Runners, runs[c].at = "read", of = runs[c].suggestion,
               suggestions' = [suggestions EXCEPT ![of] = [status |-> "accepted", rule |-> r]],
               runs' = [runs EXCEPT ![c] = NoRun]
        PROVE  AnswersOwned'
    <3>0. of \in Suggestions /\ suggestions \in [Suggestions -> SuggestionRows]
      BY <1>1, <2>2 DEF InsightTyped
    <3>1. \A s \in Suggestions : s # of => MadeOf(s)' = MadeOf(s) /\ suggestions'[s] = suggestions[s]
      BY <1>0, <1>3, <1>4, <2>2, <3>0 DEF MadeOf
    <3>2. MadeOf(of)' = MadeOf(of) \cup {r}
      BY <1>0, <1>3, <1>4 DEF MadeOf
    <3>3. suggestions'[of].status = "accepted" /\ suggestions'[of].rule = r
      BY <2>2, <3>0
    <3>4. \A s \in Suggestions : \A q \in MadeOf(s) : rules'[q] = rules[q]
      BY <1>0, <1>4 DEF MadeOf
    <3>5. of \notin clashed => /\ MadeOf(of) = {}
                               /\ \A d \in Runners : runs'[d].at = "read" => runs'[d].suggestion # of
      BY <1>5, <2>2, <3>0 DEF AnswersOwned, NoRun, InsightTyped
    <3> QED
      BY <1>0, <1>5, <3>1, <3>2, <3>3, <3>4, <3>5 DEF AnswersOwned
  <2> QED
    BY <1>2, <2>1, <2>2
<1> QED
  BY <1>8, <1>9, <1>10, <1>11, <1>12, <1>13, <1>14

\* A time that is moved while a run is under way is told from the one the run has read.
LEMMA RescheduleKept ==
    ASSUME InsightInv, NEW r \in Rules, NEW time \in Times, Reschedule(r, time)
    PROVE  InsightInv'
<1> USE RecordFacts DEF InsightInv
<1> DEFINE new == [rules[r] EXCEPT !.time = time, !.next = time]
<1>0. rules[r].is = "there" /\ UNCHANGED <<records, reports, notices, suggestions, runs, torn, late, clashed>>
  BY DEF Reschedule
<1>a. rules' = [rules EXCEPT ![r] = new]
  BY DEF Reschedule, InsightTyped
<1>b. /\ new \in RuleRows /\ new.is = rules[r].is /\ new.of = rules[r].of
      /\ new.ran = rules[r].ran /\ new.status = rules[r].status /\ new.next = new.time
  BY RuleTyped DEF RuleRows
<1> HIDE DEF new
<1>1. rules' \in [Rules -> RuleRows]
  BY <1>a, <1>b DEF InsightTyped
<1>2. \A q \in Rules : /\ rules'[q].is = rules[q].is /\ rules'[q].of = rules[q].of
                       /\ rules'[q].ran = rules[q].ran /\ rules'[q].status = rules[q].status
                       /\ rules'[q].next = rules'[q].time \/ rules'[q] = rules[q]
  BY <1>a, <1>b DEF InsightTyped
<1>3. \A n \in DOMAIN records : records[n].rule \in Rules
  BY DEF RecordRows
<1>4. \A k \in Runners : runs[k].at = "working" => runs[k].rule \in Rules
  BY RunKinds DEF InsightWorking
<1>5. InsightTyped'
  BY <1>0, <1>1 DEF InsightTyped
<1>6. RecordsOwned'
  BY <1>0, <1>2, <1>3 DEF RecordsOwned
<1>7. RulesOwned'
  BY <1>0, <1>2, <1>4 DEF RulesOwned
<1>8. AnswersOwned'
  <2>1. \A s \in Suggestions : MadeOf(s)' = MadeOf(s) /\ MadeOf(s) \subseteq Rules
    BY <1>2 DEF MadeOf
  <2> QED
    BY <1>0, <1>2, <2>1 DEF AnswersOwned
<1>9. PublishedIsRecorded' /\ RunningIsWorked' /\ RuleIsCurrent'
  BY <1>0, <1>2 DEF PublishedIsRecorded, RunningIsWorked, RuleIsCurrent
<1> QED
  BY <1>5, <1>6, <1>7, <1>8, <1>9

\* The records of a rule are gone with it, also those a run still works on.
LEMMA DeleteKept ==
    ASSUME InsightInv, NEW r \in Rules, DeleteRule(r)
    PROVE  InsightInv'
<1> USE RecordFacts DEF InsightInv
<1>0. /\ rules[r].is = "there" /\ rules' = [rules EXCEPT ![r].is = "deleted"]
      /\ UNCHANGED <<reports, notices, runs, torn, late, clashed>>
  BY DEF DeleteRule
<1> DEFINE new == [rules[r] EXCEPT !.is = "deleted"]
<1>a. rules' = [rules EXCEPT ![r] = new]
  BY <1>0 DEF InsightTyped
<1>b. /\ new \in RuleRows /\ new.is = "deleted" /\ new.of = rules[r].of /\ new.time = rules[r].time
      /\ new.next = rules[r].next /\ new.ran = rules[r].ran /\ new.status = rules[r].status
  BY RuleTyped DEF RuleRows
<1> HIDE DEF new
<1>1. rules' \in [Rules -> RuleRows]
  BY <1>a, <1>b DEF InsightTyped
<1>2. \A q \in Rules : /\ rules'[q].is = IF q = r THEN "deleted" ELSE rules[q].is
                       /\ rules'[q].of = rules[q].of /\ rules'[q].time = rules[q].time /\ rules'[q].next = rules[q].next
                       /\ rules'[q].ran = rules[q].ran /\ rules'[q].status = rules[q].status
  BY <1>a, <1>b DEF InsightTyped
<1>3. /\ records' \in Seq(RecordRows) /\ DOMAIN records' = DOMAIN records /\ Len(records') = Len(records)
      /\ \A n \in DOMAIN records :
            /\ records'[n].rule = records[n].rule
            /\ records'[n].status = IF records[n].rule = r THEN "gone" ELSE records[n].status
  <2> DEFINE F(n) == IF records[n].rule = r THEN [records[n] EXCEPT !.status = "gone"] ELSE records[n]
  <2>1. \A n \in DOMAIN records : F(n) \in RecordRows /\ F(n).rule = records[n].rule
                /\ F(n).status = IF records[n].rule = r THEN "gone" ELSE records[n].status
    BY DEF RecordRows, Statuses
  <2>2. records' = [n \in 1 .. Len(records) |-> F(n)]
    BY DEF DeleteRule
  <2> HIDE DEF F
  <2>3. Len(records) \in Nat /\ \A n \in 1 .. Len(records) : F(n) \in RecordRows
    BY <2>1
  <2>4. records' \in Seq(RecordRows) /\ Len(records') = Len(records)
    BY <2>2, <2>3
  <2> QED
    BY <2>1, <2>2, <2>4
<1>4. /\ suggestions' \in [Suggestions -> SuggestionRows]
      /\ \A s \in Suggestions : /\ suggestions'[s].status = suggestions[s].status
                                /\ suggestions[s].rule # r => suggestions'[s].rule = suggestions[s].rule
  BY DEF DeleteRule, InsightTyped, SuggestionRows
<1>5. \A n \in DOMAIN records : records[n].rule \in Rules
  BY DEF RecordRows
<1>6. \A k \in Runners : runs[k].at = "working" => runs[k].rule \in Rules
  BY RunKinds DEF InsightWorking
<1>7. InsightTyped'
  BY <1>0, <1>1, <1>3, <1>4 DEF InsightTyped
<1>8. RecordsOwned'
  BY <1>0, <1>2, <1>3, <1>5 DEF RecordsOwned
<1>9. RulesOwned'
  BY <1>0, <1>2, <1>3, <1>6 DEF RulesOwned
<1>10. AnswersOwned'
  <2>1. \A s \in Suggestions : MadeOf(s)' = MadeOf(s) /\ MadeOf(s) \subseteq Rules
    BY <1>0, <1>2 DEF MadeOf
  <2> QED
    BY <1>0, <1>2, <1>4, <2>1 DEF AnswersOwned
<1>11. PublishedIsRecorded'
  BY <1>0, <1>3 DEF PublishedIsRecorded
<1>12. RunningIsWorked'
  BY <1>0, <1>3 DEF RunningIsWorked
<1>13. RuleIsCurrent'
  BY <1>0, <1>2, <1>3 DEF RuleIsCurrent, RulesOwned
<1> QED
  BY <1>7, <1>8, <1>9, <1>10, <1>11, <1>12, <1>13

\* What is appended changes none of the records before.
LEMMA RecordAdded ==
    ASSUME InsightTyped, NEW r \in Rules, NEW status \in Statuses,
           records' = Append(records, [rule |-> r, status |-> status])
    PROVE  /\ records' \in Seq(RecordRows) /\ DOMAIN records' = 1 .. Len(records) + 1
           /\ DOMAIN records \subseteq DOMAIN records'
           /\ \A n \in DOMAIN records : records'[n] = records[n]
           /\ records'[Len(records) + 1].rule = r /\ records'[Len(records) + 1].status = status
<1> DEFINE rec == [rule |-> r, status |-> status]
<1>1. rec \in RecordRows /\ rec.rule = r /\ rec.status = status /\ records \in Seq(RecordRows)
  BY DEF RecordRows, InsightTyped
<1>2. records' = Append(records, rec)
  OBVIOUS
<1> HIDE DEF rec
<1> QED
  BY <1>1, <1>2

\* A new record is pending for nobody, or running for the run that begins.
LEMMA NewRecordKept ==
    ASSUME InsightInv, NEW r \in Rules, RunNow(r) \/ \E k \in Runners : Begin(k, r)
    PROVE  InsightInv'
<1> USE RecordFacts DEF InsightInv
<1> DEFINE last == Len(records) + 1
<1>0. /\ rules[r].is = "there"
      /\ UNCHANGED <<rules, reports, notices, suggestions, torn, late, clashed>>
  BY DEF RunNow, Begin, NewRecord
<1>1. PICK status \in {"pending", "running"} :
         /\ records' = Append(records, [rule |-> r, status |-> status])
         /\ \/ status = "pending" /\ UNCHANGED runs
            \/ status = "running" /\ \E k \in Runners : Begin(k, r)
  BY DEF RunNow, Begin, NewRecord
<1>2. /\ records' \in Seq(RecordRows) /\ DOMAIN records' = 1 .. last
      /\ DOMAIN records \subseteq DOMAIN records'
      /\ \A n \in DOMAIN records : records'[n] = records[n]
      /\ records'[last].rule = r /\ records'[last].status = status
  BY <1>1, RecordAdded DEF Statuses
<1>3. /\ last \notin DOMAIN records /\ last \in DOMAIN records'
      /\ \A n \in DOMAIN records' : n \in DOMAIN records \/ n = last
  BY <1>2
<1> HIDE DEF last
<1>4. /\ runs' \in [Runners -> {NoRun} \cup InsightWorking \cup Telling \cup RunBroken \cup Answering]
      /\ \A k \in Runners :
            \/ /\ runs'[k].at = "working" /\ runs'[k].rule = r /\ runs'[k].record = last
               /\ runs'[k].read = rules[r] /\ runs[k].at = "idle" /\ status = "running"
               /\ runs'[k].alone => AtWork(r) = {}
               /\ \A j \in Runners : j # k => /\ runs'[j].at = runs[j].at
                                              /\ j \in AtWork(r) => ~runs'[j].alone
            \/ /\ runs'[k].at = runs[k].at
               /\ runs[k].at \in {"working", "telling", "broken"} => runs'[k].record = runs[k].record
               /\ runs[k].at = "working" => /\ runs'[k].rule = runs[k].rule /\ runs'[k].read = runs[k].read
                                            /\ runs'[k].alone => runs[k].alone
               /\ runs[k].at \in {"telling", "read"} => runs'[k] = runs[k]
      /\ status = "running" => \E k \in Runners : runs'[k].at = "working" /\ runs'[k].record = last
  <2>1. CASE UNCHANGED runs /\ status = "pending"
    BY <2>1 DEF InsightTyped
  <2>2. ASSUME NEW k \in Runners, Begin(k, r), status = "running"
        PROVE <1>4!1 /\ <1>4!2 /\ <1>4!3
    <3> DEFINE lone == (AtWork(r) = {})
               new == [at |-> "working", rule |-> r, record |-> last, read |-> rules[r], alone |-> lone]
    <3>a. lone \in BOOLEAN /\ last \in Nat /\ rules[r] \in RuleRows
      BY RuleTyped DEF last
    <3>b. lone => AtWork(r) = {}
      OBVIOUS
    <3>c. runs' = [j \in Runners |-> IF j = k THEN new ELSE IF j \in AtWork(r) THEN [runs[j] EXCEPT !.alone = FALSE] ELSE runs[j]]
      BY <2>2 DEF Begin, last
    <3> HIDE DEF lone
    <3>1. /\ new \in InsightWorking /\ new.at = "working" /\ new.rule = r /\ new.record = last /\ new.read = rules[r]
          /\ new.alone => AtWork(r) = {}
      BY <3>a, <3>b DEF InsightWorking
    <3> DEFINE G(j) == [runs[j] EXCEPT !.alone = FALSE]
    <3>2. \A j \in AtWork(r) : /\ G(j) \in InsightWorking /\ G(j).at = runs[j].at /\ G(j).record = runs[j].record
                               /\ G(j).rule = runs[j].rule /\ G(j).read = runs[j].read /\ G(j).alone = FALSE
                               /\ runs[j].at = "working" /\ j \in Runners
      BY RunKinds DEF InsightWorking, AtWork
    <3>3. runs' = [j \in Runners |-> IF j = k THEN new ELSE IF j \in AtWork(r) THEN G(j) ELSE runs[j]]
      BY <3>c
    <3>4. runs[k].at = "idle" /\ k \notin AtWork(r)
      BY <2>2 DEF Begin, AtWork
    <3> HIDE DEF new, G
    <3>5. runs' \in [Runners -> {NoRun} \cup InsightWorking \cup Telling \cup RunBroken \cup Answering]
      BY <3>1, <3>2, <3>3 DEF InsightTyped
    <3>6. \A j \in Runners : j # k => /\ runs'[j].at = runs[j].at
                                      /\ j \in AtWork(r) => ~runs'[j].alone
      BY <3>2, <3>3
    <3>7. \A j \in Runners : j # k =>
             /\ runs[j].at \in {"working", "telling", "broken"} => runs'[j].record = runs[j].record
             /\ runs[j].at = "working" => /\ runs'[j].rule = runs[j].rule /\ runs'[j].read = runs[j].read
                                          /\ runs'[j].alone => runs[j].alone
             /\ runs[j].at \in {"telling", "read"} => runs'[j] = runs[j]
      BY <3>2, <3>3
    <3>8. runs'[k] = new
      BY <3>3
    <3> QED
      BY <2>2, <3>1, <3>4, <3>5, <3>6, <3>7, <3>8
  <2> QED
    BY <1>1, <2>1, <2>2
<1>5. InsightTyped'
  BY <1>0, <1>2, <1>4 DEF InsightTyped
<1>6. \A n \in DOMAIN records : records[n].rule \in Rules
  BY DEF RecordRows
<1>7. RecordsOwned'
  <2>1. \A k \in Runners : runs'[k].at \in {"working", "telling", "broken"} => runs'[k].record \in DOMAIN records'
    BY <1>2, <1>3, <1>4 DEF RecordsOwned
  <2>2. \A k, j \in Runners :
          /\ runs'[k].at \in {"working", "telling", "broken"} /\ runs'[j].at \in {"working", "telling", "broken"}
          /\ runs'[k].record = runs'[j].record
          => k = j
    BY <1>3, <1>4 DEF RecordsOwned
  <2>3. \A k \in Runners : runs'[k].at = "working" =>
          /\ records'[runs'[k].record].status \in {"running", "gone"}
          /\ records'[runs'[k].record].rule = runs'[k].rule
    BY <1>2, <1>4 DEF RecordsOwned
  <2>4. \A k \in Runners : runs'[k].at = "telling" => records'[runs'[k].record].status \in {runs'[k].status, "gone"}
    BY <1>2, <1>4 DEF RecordsOwned
  <2>5. \A n \in DOMAIN records' : /\ records'[n].status # "gone" <=> rules'[records'[n].rule].is = "there"
                                   /\ rules'[records'[n].rule].is # "unused"
    BY <1>0, <1>2, <1>3 DEF RecordsOwned
  <2> QED
    BY <2>1, <2>2, <2>3, <2>4, <2>5 DEF RecordsOwned
<1>8. RulesOwned'
  <2>1. \A q \in Rules : rules'[q].is = "there" /\ rules'[q].ran # 0 =>
          /\ rules'[q].ran \in DOMAIN records' /\ records'[rules'[q].ran].rule = q
          /\ records'[rules'[q].ran].status \in InsightEnded
    BY <1>0, <1>2 DEF RulesOwned
  <2>2. \A k, j \in Runners :
          runs'[k].at = "working" /\ runs'[j].at = "working" /\ runs'[k].rule = runs'[j].rule /\ k # j =>
             ~runs'[k].alone
    BY <1>4 DEF RulesOwned, AtWork
  <2>3. \A k \in Runners : runs'[k].at = "working" /\ runs'[k].alone /\ rules'[runs'[k].rule].is = "there" =>
          rules'[runs'[k].rule].status = runs'[k].read.status
    BY <1>0, <1>4 DEF RulesOwned
  <2> QED
    BY <2>1, <2>2, <2>3 DEF RulesOwned
<1>9. AnswersOwned'
  <2>1. \A s \in Suggestions : MadeOf(s)' = MadeOf(s)
    BY <1>0 DEF MadeOf
  <2>2. \A k \in Runners : runs'[k].at = "read" => runs'[k] = runs[k]
    BY <1>4
  <2> QED
    BY <1>0, <2>1, <2>2 DEF AnswersOwned
<1>10. PublishedIsRecorded'
  <2>1. last \notin reports /\ \A t \in notices : t[1] # last
    BY <1>3 DEF InsightTyped
  <2> QED
    BY <1>0, <1>1, <1>2, <1>3, <2>1 DEF PublishedIsRecorded
<1>11. RunningIsWorked'
  BY <1>2, <1>3, <1>4 DEF RunningIsWorked
<1>12. RuleIsCurrent'
  BY <1>0, <1>2 DEF RuleIsCurrent, RulesOwned
<1> QED
  BY <1>5, <1>7, <1>8, <1>9, <1>10, <1>11, <1>12

\* A run settles its own record and what it read of its rule differently.
LEMMA SettleKept ==
    ASSUME InsightInv, NEW k \in Runners, Succeed(k) \/ RunFails(k)
    PROVE  InsightInv'
<1> USE RecordFacts DEF InsightInv
<1> DEFINE run == runs[k]
           r == run.rule
           n == run.record
<1>0. PICK status \in InsightEnded :
         /\ Settle(k, status)
         /\ reports' = IF status = "success" THEN reports \cup {n} ELSE reports
  BY DEF Succeed, RunFails, InsightEnded
<1>1. /\ run.at = "working" /\ records[n].status # "gone"
      /\ records' = [records EXCEPT ![n].status = status]
      /\ torn' = IF run.alone THEN torn \ {r} ELSE torn \cup {r}
      /\ late' = IF run.read.time # rules[r].time THEN late \cup {r} ELSE late
      /\ runs' = [runs EXCEPT ![k] = [at |-> "telling", record |-> n, status |-> status]]
      /\ UNCHANGED <<notices, suggestions, clashed>>
  BY <1>0 DEF Settle
<1>2. /\ run \in InsightWorking /\ r \in Rules /\ n \in Nat /\ run.read \in RuleRows /\ run.alone \in BOOLEAN
      /\ n \in DOMAIN records /\ records[n].rule = r /\ records[n].status = "running"
  <2>1. run \in InsightWorking
    BY <1>1, RunKinds, SMTT(30)
  <2> QED
    BY <1>1, <2>1 DEF InsightWorking, RecordsOwned
<1>3. PICK newStatus \in InsightEnded \cup {"none"}, next \in Times \cup {"none"} :
         /\ rules' = [rules EXCEPT ![r].ran = n, ![r].status = newStatus, ![r].next = next]
         /\ newStatus = IF status = run.read.status THEN rules[r].status ELSE status
         /\ next \in {rules[r].next, run.read.time}
  <2>1. /\ rules[r].status \in InsightEnded \cup {"none"} /\ rules[r].next \in Times \cup {"none"}
        /\ run.read.time \in Times \cup {"none"}
    BY <1>2, RuleTyped, SMTT(30) DEF RuleRows
  <2>2. PICK moved \in BOOLEAN :
             rules' = [rules EXCEPT ![r].ran = n,
                         ![r].status = IF status = run.read.status THEN @ ELSE status,
                         ![r].next = IF NextRun(run.read, moved).of = "none" THEN @ ELSE run.read.time]
    BY <1>0 DEF Settle
  <2> DEFINE s1 == IF status = run.read.status THEN rules[r].status ELSE status
             n1 == IF NextRun(run.read, moved).of = "none" THEN rules[r].next ELSE run.read.time
  <2>3. s1 \in InsightEnded \cup {"none"} /\ n1 \in Times \cup {"none"}
    BY <2>1
  <2>4. rules' = [rules EXCEPT ![r].ran = n, ![r].status = s1, ![r].next = n1]
    BY <1>2, <2>2 DEF InsightTyped, RuleRows
  <2> QED
    BY <2>3, <2>4
<1> DEFINE new == [rules[r] EXCEPT !.ran = n, !.status = newStatus, !.next = next]
<1>4. /\ new \in RuleRows /\ new.is = rules[r].is /\ new.of = rules[r].of /\ new.time = rules[r].time
      /\ new.ran = n /\ new.status = newStatus /\ new.next = next
  <2>1. rules[r] \in RuleRows /\ n \in Nat
    BY <1>2, RuleTyped
  <2> HIDE DEF n
  <2> QED
    BY <2>1 DEF RuleRows
<1>5. rules' = [rules EXCEPT ![r] = new]
  BY <1>2, <1>3 DEF InsightTyped
<1> HIDE DEF new
<1>6. \A q \in Rules : rules'[q] = IF q = r THEN new ELSE rules[q]
  BY <1>5 DEF InsightTyped
<1>7. /\ records' \in Seq(RecordRows) /\ DOMAIN records' = DOMAIN records
      /\ \A m \in DOMAIN records :
            /\ records'[m].rule = records[m].rule
            /\ records'[m].status = IF m = n THEN status ELSE records[m].status
  <2> DEFINE rec == [records[n] EXCEPT !.status = status]
  <2>1. rec \in RecordRows /\ rec.rule = records[n].rule /\ rec.status = status
    BY <1>2 DEF RecordRows, InsightEnded, Statuses
  <2>2. records' = [records EXCEPT ![n] = rec]
    BY <1>1
  <2> HIDE DEF rec
  <2>3. records \in Seq(RecordRows)
    BY DEF InsightTyped
  <2> QED
    BY <1>2, <2>1, <2>2, <2>3
<1>8. /\ runs' \in [Runners -> {NoRun} \cup InsightWorking \cup Telling \cup RunBroken \cup Answering]
      /\ runs'[k].at = "telling" /\ runs'[k].record = n /\ runs'[k].status = status
      /\ \A j \in Runners : j # k => runs'[j] = runs[j]
  <2> DEFINE tell == [at |-> "telling", record |-> n, status |-> status]
  <2>1. tell \in Telling /\ tell.at = "telling" /\ tell.record = n /\ tell.status = status
    BY <1>2 DEF Telling
  <2>2. runs' = [runs EXCEPT ![k] = tell]
    BY <1>1
  <2> HIDE DEF tell
  <2> QED
    BY <2>1, <2>2 DEF InsightTyped
<1>9. /\ status # "gone" /\ rules[r].is = "there"
      /\ \A m \in DOMAIN records : records[m].rule \in Rules
  BY <1>2 DEF InsightEnded, RecordsOwned, RecordRows
<1>10. \A j \in Runners : runs[j].at = "working" => runs[j].rule \in Rules
  BY RunKinds DEF InsightWorking
<1> HIDE DEF run, r, n
<1>11. InsightTyped'
  <2>1. rules' \in [Rules -> RuleRows]
    BY <1>2, <1>4, <1>5 DEF InsightTyped
  <2>2. reports' \subseteq DOMAIN records
    BY <1>0, <1>2 DEF InsightTyped
  <2> QED
    BY <1>1, <1>7, <1>8, <2>1, <2>2 DEF InsightTyped
<1>12. RecordsOwned'
  <2>1. \A j \in Runners : runs'[j].at \in {"working", "telling", "broken"} =>
            runs[j].at \in {"working", "telling", "broken"} /\ runs'[j].record = runs[j].record
    BY <1>1, <1>8 DEF run, n
  <2>2. \A j \in Runners : j # k /\ runs[j].at \in {"working", "telling", "broken"} => runs[j].record # n
    BY <1>1, <1>2 DEF RecordsOwned, run, n
  <2>3. \A j \in Runners : runs'[j].at = "working" =>
          /\ records'[runs'[j].record].status \in {"running", "gone"}
          /\ records'[runs'[j].record].rule = runs'[j].rule
    BY <1>7, <1>8, <2>2 DEF RecordsOwned
  <2>4. \A j \in Runners : runs'[j].at = "telling" => records'[runs'[j].record].status \in {runs'[j].status, "gone"}
    BY <1>2, <1>7, <1>8, <2>2 DEF RecordsOwned
  <2>5. \A m \in DOMAIN records' : /\ records'[m].status # "gone" <=> rules'[records'[m].rule].is = "there"
                                   /\ rules'[records'[m].rule].is # "unused"
    BY <1>2, <1>4, <1>6, <1>7, <1>9 DEF RecordsOwned
  <2>6. \A i, j \in Runners :
          /\ runs'[i].at \in {"working", "telling", "broken"} /\ runs'[j].at \in {"working", "telling", "broken"}
          /\ runs'[i].record = runs'[j].record
          => i = j
    BY <2>1 DEF RecordsOwned
  <2> QED
    BY <1>7, <2>1, <2>3, <2>4, <2>5, <2>6 DEF RecordsOwned
<1>13. RulesOwned'
  <2>1. \A q \in Rules : rules'[q].is = "there" /\ rules'[q].ran # 0 =>
          /\ rules'[q].ran \in DOMAIN records' /\ records'[rules'[q].ran].rule = q
          /\ records'[rules'[q].ran].status \in InsightEnded
    BY <1>2, <1>4, <1>6, <1>7 DEF RulesOwned
  <2>2. \A i, j \in Runners :
          runs'[i].at = "working" /\ runs'[j].at = "working" /\ runs'[i].rule = runs'[j].rule /\ i # j =>
             ~runs'[i].alone
    BY <1>8 DEF RulesOwned
  <2>3. \A j \in Runners : j # k /\ runs[j].at = "working" /\ runs[j].alone => runs[j].rule # r
    BY <1>1 DEF RulesOwned, run, r
  <2>4. \A j \in Runners : runs'[j].at = "working" /\ runs'[j].alone /\ rules'[runs'[j].rule].is = "there" =>
          rules'[runs'[j].rule].status = runs'[j].read.status
    BY <1>6, <1>8, <1>10, <2>3 DEF RulesOwned
  <2> QED
    BY <2>1, <2>2, <2>4 DEF RulesOwned
<1>14. AnswersOwned'
  <2>1. \A s \in Suggestions : MadeOf(s)' = MadeOf(s) /\ MadeOf(s) \subseteq Rules
    BY <1>4, <1>6 DEF MadeOf
  <2>2. \A q \in Rules : rules'[q].is = rules[q].is
    BY <1>4, <1>6
  <2>3. \A j \in Runners : runs'[j].at = "read" => runs'[j] = runs[j]
    BY <1>8
  <2> QED
    BY <1>1, <2>1, <2>2, <2>3 DEF AnswersOwned
<1>15. PublishedIsRecorded'
  <2>1. n \notin reports /\ \A t \in notices : t[1] # n
    BY <1>2 DEF PublishedIsRecorded, InsightTyped, InsightEnded
  <2>2. \A m \in DOMAIN records : m \in reports' <=> m \in reports \/ (m = n /\ status = "success")
    BY <1>0 DEF n, run
  <2> QED
    BY <1>1, <1>7, <2>1, <2>2 DEF PublishedIsRecorded
<1>16. RunningIsWorked'
  <2>1. status # "running"
    BY DEF InsightEnded
  <2>2. ASSUME NEW m \in DOMAIN records, m # n, records[m].status = "running"
        PROVE  \E j \in Runners : runs'[j].at \in {"working", "broken"} /\ runs'[j].record = m
    <3>1. PICK j \in Runners : runs[j].at \in {"working", "broken"} /\ runs[j].record = m
      BY <2>2 DEF RunningIsWorked
    <3>2. j # k
      BY <2>2, <3>1 DEF n, run
    <3> QED
      BY <1>8, <3>1, <3>2
  <2> QED
    BY <1>7, <2>1, <2>2 DEF RunningIsWorked
<1>17. RuleIsCurrent'
  <2>1. \A q \in Rules : q # r => /\ rules'[q] = rules[q] /\ (q \in torn' <=> q \in torn) /\ (q \in late' <=> q \in late)
    BY <1>1, <1>6
  <2>2. \A q \in Rules : q # r /\ rules[q].is = "there" /\ rules[q].ran # 0 =>
           rules[q].ran # n /\ rules[q].ran \in DOMAIN records
    BY <1>2 DEF RulesOwned
  <2>3. r \notin torn' => newStatus = status
    <3>1. r \notin torn' => run.alone
      BY <1>1
    <3>2. run.alone => rules[r].status = run.read.status
      BY <1>1, <1>9 DEF RulesOwned, run, r
    <3> QED
      BY <1>3, <3>1, <3>2
  <2>4. r \notin late' => next = rules[r].time
    BY <1>1, <1>2, <1>3, <1>9 DEF RuleIsCurrent
  <2> QED
    BY <1>2, <1>4, <1>6, <1>7, <2>1, <2>2, <2>3, <2>4 DEF RuleIsCurrent
<1> QED
  BY <1>11, <1>12, <1>13, <1>14, <1>15, <1>16, <1>17

\* What is told of a run is what its record says.
LEMMA RunEndsKept ==
    ASSUME InsightInv, NEW k \in Runners, Break(k) \/ TellRun(k) \/ NoticeFails(k)
    PROVE  InsightInv'
<1> USE RecordFacts DEF InsightInv
<1>0. UNCHANGED <<rules, records, reports, suggestions, torn, late, clashed>>
  BY DEF Break, TellRun, NoticeFails
<1>1. \/ runs[k].at = "working" /\ runs' = [runs EXCEPT ![k] = [at |-> "broken", record |-> runs[k].record]]
      \/ runs[k].at = "telling" /\ runs' = [runs EXCEPT ![k] = NoRun]
  BY DEF Break, TellRun, NoticeFails
<1>2. /\ runs' \in [Runners -> {NoRun} \cup InsightWorking \cup Telling \cup RunBroken \cup Answering]
      /\ \A j \in Runners : j # k => runs'[j] = runs[j]
      /\ \/ runs[k].at = "working" /\ runs'[k].at = "broken" /\ runs'[k].record = runs[k].record
         \/ runs[k].at = "telling" /\ runs'[k].at = "idle"
  <2>1. CASE runs[k].at = "working" /\ runs' = [runs EXCEPT ![k] = [at |-> "broken", record |-> runs[k].record]]
    <3>1. [at |-> "broken", record |-> runs[k].record] \in RunBroken
      BY <2>1, RunKinds DEF InsightWorking, RunBroken
    <3> QED
      BY <2>1, <3>1 DEF InsightTyped
  <2>2. CASE runs[k].at = "telling" /\ runs' = [runs EXCEPT ![k] = NoRun]
    BY <2>2 DEF InsightTyped, NoRun
  <2> QED
    BY <1>1, <2>1, <2>2
<1>3. \/ notices' = notices
      \/ /\ runs[k].at = "telling" /\ runs[k].record \in DOMAIN records /\ runs[k].status \in InsightEnded
         /\ notices' = notices \cup {<<runs[k].record, runs[k].status>>}
         /\ records[runs[k].record].status \in {runs[k].status, "gone"}
  BY RunKinds DEF Break, TellRun, NoticeFails, Telling, RecordsOwned
<1>4. InsightTyped'
  <2>1. notices' \subseteq (DOMAIN records) \X InsightEnded
    BY <1>3 DEF InsightTyped
  <2> QED
    BY <1>0, <1>2, <2>1 DEF InsightTyped
<1>5. RecordsOwned'
  BY <1>0, <1>2 DEF RecordsOwned
<1>6. RulesOwned'
  BY <1>0, <1>2 DEF RulesOwned
<1>7. AnswersOwned'
  <2>1. \A s \in Suggestions : MadeOf(s)' = MadeOf(s)
    BY <1>0 DEF MadeOf
  <2>2. \A j \in Runners : runs'[j].at = "read" => runs'[j] = runs[j]
    BY <1>2
  <2> QED
    BY <1>0, <2>1, <2>2 DEF AnswersOwned
<1>8. PublishedIsRecorded'
  BY <1>0, <1>3 DEF PublishedIsRecorded
<1>9. RunningIsWorked' /\ RuleIsCurrent'
  <2>1. RunningIsWorked'
    <3> SUFFICES ASSUME NEW m \in DOMAIN records, records[m].status = "running"
                 PROVE  \E j \in Runners : runs'[j].at \in {"working", "broken"} /\ runs'[j].record = m
      BY <1>0 DEF RunningIsWorked
    <3>1. PICK j \in Runners : runs[j].at \in {"working", "broken"} /\ runs[j].record = m
      BY DEF RunningIsWorked
    <3>2. runs'[j].at \in {"working", "broken"} /\ runs'[j].record = m
      BY <1>2, <3>1
    <3> QED
      BY <3>2
  <2> QED
    BY <1>0, <2>1 DEF RuleIsCurrent
<1> QED
  BY <1>4, <1>5, <1>6, <1>7, <1>8, <1>9

\* Who answers what another is answering clashes with him.
LEMMA InsightAnswerKept ==
    ASSUME InsightInv, NEW c \in Runners, NEW s \in Suggestions, NEW act \in {"accept", "dismiss"}, Answer(c, s, act)
    PROVE  InsightInv'
<1> USE DEF InsightInv
<1> DEFINE new == [at |-> "read", suggestion |-> s, act |-> act]
<1>0. /\ UNCHANGED <<rules, records, reports, notices, suggestions, torn, late>>
      /\ runs[c].at = "idle" /\ suggestions[s].status = "pending"
      /\ runs' = [runs EXCEPT ![c] = new]
      /\ clashed' = IF \E d \in Runners : runs[d].at = "read" /\ runs[d].suggestion = s
                    THEN clashed \cup {s} ELSE clashed
  BY DEF Answer, Answerable
<1>1. new \in Answering /\ new.at = "read" /\ new.suggestion = s
  BY DEF Answering
<1> HIDE DEF new
<1>2. /\ runs' \in [Runners -> {NoRun} \cup InsightWorking \cup Telling \cup RunBroken \cup Answering]
      /\ \A j \in Runners : j # c => runs'[j] = runs[j]
      /\ runs'[c].at = "read" /\ runs'[c].suggestion = s
  BY <1>0, <1>1 DEF InsightTyped
<1>3. InsightTyped'
  BY <1>0, <1>2 DEF InsightTyped
<1>4. RecordsOwned'
  BY <1>0, <1>2 DEF RecordsOwned
<1>5. RulesOwned'
  BY <1>0, <1>2 DEF RulesOwned
<1>6. AnswersOwned'
  <2>1. \A t \in Suggestions : MadeOf(t)' = MadeOf(t)
    BY <1>0 DEF MadeOf
  <2>2. \A t \in Suggestions \ clashed' : t \notin clashed
    BY <1>0
  <2>3. s \notin clashed' => \A d \in Runners : ~(runs[d].at = "read" /\ runs[d].suggestion = s)
    BY <1>0
  <2> QED
    BY <1>0, <1>2, <2>1, <2>2, <2>3 DEF AnswersOwned
<1>7. RunningIsWorked'
  BY <1>0, <1>2 DEF RunningIsWorked
<1>8. PublishedIsRecorded' /\ RuleIsCurrent'
  BY <1>0 DEF PublishedIsRecorded, RuleIsCurrent
<1> QED
  BY <1>3, <1>4, <1>5, <1>6, <1>7, <1>8

LEMMA DismissKept ==
    ASSUME InsightInv, NEW c \in Runners, Dismiss(c)
    PROVE  InsightInv'
<1> USE DEF InsightInv
<1> DEFINE s == runs[c].suggestion
<1>0. /\ UNCHANGED <<rules, records, reports, notices, torn, late, clashed>>
      /\ runs[c].at = "read" /\ runs' = [runs EXCEPT ![c] = NoRun]
      /\ suggestions' = [suggestions EXCEPT ![s].status = "dismissed"]
  BY DEF Dismiss
<1>1. s \in Suggestions
  BY <1>0, RunKinds DEF Answering
<1>2. /\ runs' \in [Runners -> {NoRun} \cup InsightWorking \cup Telling \cup RunBroken \cup Answering]
      /\ \A j \in Runners : j # c => runs'[j] = runs[j]
      /\ runs'[c].at = "idle"
  BY <1>0 DEF InsightTyped, NoRun
<1>3. /\ suggestions' \in [Suggestions -> SuggestionRows]
      /\ \A t \in Suggestions : t # s => suggestions'[t] = suggestions[t]
      /\ suggestions'[s].status = "dismissed"
  BY <1>0, <1>1 DEF InsightTyped, SuggestionRows
<1>4. InsightTyped'
  BY <1>0, <1>2, <1>3 DEF InsightTyped
<1>5. RecordsOwned'
  BY <1>0, <1>2 DEF RecordsOwned
<1>6. RulesOwned'
  BY <1>0, <1>2 DEF RulesOwned
<1>7. AnswersOwned'
  <2>1. \A t \in Suggestions : MadeOf(t)' = MadeOf(t)
    BY <1>0 DEF MadeOf
  <2>2. s \notin clashed => MadeOf(s) = {} /\ \A j \in Runners : runs'[j].at = "read" => runs'[j].suggestion # s
    BY <1>0, <1>1, <1>2 DEF AnswersOwned
  <2> HIDE DEF s
  <2>3. ASSUME NEW t \in Suggestions \ clashed'
        PROVE  /\ \A i, d \in Runners :
                     runs'[i].at = "read" /\ runs'[i].suggestion = t /\ runs'[d].at = "read" /\ runs'[d].suggestion = t => i = d
               /\ \A i \in Runners : runs'[i].at = "read" /\ runs'[i].suggestion = t => suggestions'[t].status = "pending"
               /\ suggestions'[t].status \in {"absent", "pending"} => MadeOf(t)' = {}
               /\ \A q, r \in MadeOf(t)' : q = r
               /\ MadeOf(t)' # {} => suggestions'[t].status = "accepted"
               /\ \A r \in MadeOf(t)' : rules'[r].is = "there" => suggestions'[t].rule = r
    <3>1. CASE t = s
      BY <1>0, <1>2, <1>3, <2>1, <2>2, <3>1
    <3>2. CASE t # s
      BY <1>0, <1>2, <1>3, <2>1, <3>2 DEF AnswersOwned
    <3> QED
      BY <3>1, <3>2
  <2> QED
    BY <2>3 DEF AnswersOwned
<1>8. RunningIsWorked'
  BY <1>0, <1>2 DEF RunningIsWorked
<1>9. PublishedIsRecorded' /\ RuleIsCurrent'
  BY <1>0 DEF PublishedIsRecorded, RuleIsCurrent
<1> QED
  BY <1>4, <1>5, <1>6, <1>7, <1>8, <1>9

LEMMA ScanKept ==
    ASSUME InsightInv, NEW s \in Suggestions, Scan(s)
    PROVE  InsightInv'
<1> USE DEF InsightInv
<1>0. /\ UNCHANGED <<rules, records, reports, notices, runs, torn, late, clashed>>
      /\ suggestions[s].status = "absent" /\ suggestions' = [suggestions EXCEPT ![s].status = "pending"]
  BY DEF Scan
<1>1. /\ suggestions' \in [Suggestions -> SuggestionRows]
      /\ \A t \in Suggestions : t # s => suggestions'[t] = suggestions[t]
      /\ suggestions'[s].status = "pending"
  BY <1>0 DEF InsightTyped, SuggestionRows
<1>2. AnswersOwned'
  <2>1. \A t \in Suggestions : MadeOf(t)' = MadeOf(t)
    BY <1>0 DEF MadeOf
  <2>2. s \notin clashed => MadeOf(s) = {}
    BY <1>0 DEF AnswersOwned
  <2> QED
    BY <1>0, <1>1, <2>1, <2>2 DEF AnswersOwned
<1> QED
  BY <1>0, <1>1, <1>2 DEF InsightTyped, RecordsOwned, RulesOwned, PublishedIsRecorded, RunningIsWorked, RuleIsCurrent

LEMMA InsightStep == ASSUME InsightInv, [InsightNext]_insightVars PROVE InsightInv'
<1>1. ASSUME NEW r \in Rules, NEW time \in Times, CreateRule(r, time) \/ \E c \in Runners : Accept(c, r, time)
      PROVE  InsightInv'
  BY <1>1, NewRuleKept
<1>2. ASSUME NEW r \in Rules, RunNow(r) \/ \E k \in Runners : Begin(k, r) PROVE InsightInv'
  BY <1>2, NewRecordKept
<1>3. ASSUME NEW k \in Runners, Succeed(k) \/ RunFails(k) PROVE InsightInv'
  BY <1>3, SettleKept
<1>4. ASSUME NEW k \in Runners, Break(k) \/ TellRun(k) \/ NoticeFails(k) PROVE InsightInv'
  BY <1>4, RunEndsKept
<1>5. CASE UNCHANGED insightVars
  <2>1. UNCHANGED <<rules, records, reports, notices, suggestions, runs, torn, late, clashed>>
    BY <1>5 DEF insightVars
  <2>2. AnswersOwned'
    BY <2>1 DEF InsightInv, AnswersOwned, MadeOf
  <2> QED
    BY <2>1, <2>2 DEF InsightInv, InsightTyped, RecordsOwned, RulesOwned, PublishedIsRecorded, RunningIsWorked, RuleIsCurrent
<1> QED
  BY <1>1, <1>2, <1>3, <1>4, <1>5, RescheduleKept, DeleteKept, ScanKept, InsightAnswerKept, DismissKept DEF InsightNext

LEMMA InsightStart == InsightInit => InsightInv
<1> SUFFICES ASSUME InsightInit PROVE InsightInv
  OBVIOUS
<1>1. Unused \in RuleRows /\ Unused.is = "unused"
  BY DEF Unused, RuleRows
<1>2. [status |-> "absent", rule |-> NoRule] \in SuggestionRows
  BY DEF SuggestionRows
<1>3. records = <<>> /\ records \in Seq(RecordRows) /\ DOMAIN records = {}
  BY DEF InsightInit
<1>4. InsightTyped
  BY <1>1, <1>2, <1>3 DEF InsightInit, InsightTyped
<1>5. \A s \in Suggestions : MadeOf(s) = {}
  BY <1>1 DEF InsightInit, MadeOf
<1>6. \A k \in Runners : runs[k].at = "idle"
  BY DEF InsightInit, NoRun
<1>7. \A r \in Rules : rules[r].is = "unused"
  BY <1>1 DEF InsightInit
<1> QED
  BY <1>3, <1>4, <1>5, <1>6, <1>7
     DEF InsightInv, RecordsOwned, RulesOwned, AnswersOwned, PublishedIsRecorded, RunningIsWorked, RuleIsCurrent

LEMMA OneRule == InsightInv => AnsweredOnce
<1> SUFFICES ASSUME InsightInv, NEW s \in Suggestions \ clashed
             PROVE  /\ Cardinality(MadeOf(s)) <= 1
                    /\ MadeOf(s) # {} => suggestions[s].status = "accepted"
                    /\ \A r \in MadeOf(s) : rules[r].is = "there" => suggestions[s].rule = r
  BY DEF AnsweredOnce, MadeOf
<1>1. MadeOf(s) = {} \/ \E r \in Rules : MadeOf(s) = {r}
  <2>1. \A q, r \in MadeOf(s) : q = r
    BY DEF InsightInv, AnswersOwned
  <2> QED
    BY <2>1 DEF MadeOf
<1>2. Cardinality(MadeOf(s)) \in {0, 1}
  BY <1>1, FS_EmptySet, FS_Singleton
<1> QED
  BY <1>2 DEF InsightInv, AnswersOwned

THEOREM RunsAreTold == InsightSpec => []InsightSound
<1>1. InsightInit => InsightInv
  BY InsightStart
<1>2. InsightInv /\ [InsightNext]_insightVars => InsightInv'
  BY InsightStep
<1>3. InsightInv => InsightSound
  BY OneRule DEF InsightInv, InsightSound
<1> QED
  BY <1>1, <1>2, <1>3, PTL DEF InsightSpec


-----------------------------------------------------------------------------
(* The reports and canvases that are kept. *)

Row(n) == [is : {"unused", "there", "gone"}, status : RowStatuses, token : 0 .. n, title : Titles \cup {"none"}]
ItemReading(n) == [at : {"read"}, op : Operations, item : Items, read : Row(n)]

LibraryTyped ==
    /\ tokens \in Nat /\ rows \in [Items -> Row(tokens)]
    /\ requests \in [Askers -> {NoRequest} \cup ItemReading(tokens)]
    /\ titled \in [Items -> Titles \cup {"none"}] /\ contested \subseteq Items
    /\ links \subseteq Items \X (1 .. tokens)

\* What a token tells: of which report it is, and who has read it.
TokensTell ==
    /\ \A x, y \in Items : rows[x].token # 0 /\ rows[x].token = rows[y].token => x = y
    /\ \A link \in links : link[1] \notin contested => rows[link[1]].token = link[2]
    /\ \A k \in Askers : requests[k].at = "read" =>
          LET r == requests[k] IN
          /\ rows[r.item].is # "unused" /\ r.read.is = "there"
          /\ r.read.token # 0 /\ r.item \notin contested => rows[r.item].token = r.read.token
    /\ \A x \in Items : rows[x].is = "unused" => rows[x].token = 0

LibraryInv == LibraryTyped /\ TitlesKept /\ TokensTell

LEMMA RowKinds ==
    ASSUME NEW op \in Operations
    PROVE  /\ op.do = "title" => op.title \in Titles
           /\ op.do = "status" => op.status \in RowStatuses
           /\ op.do \in {"title", "status", "share", "delete", "restore", "purge"}
BY DEF Operations, RowStatuses

LEMMA RowGrows == ASSUME NEW n \in Nat, NEW m \in Nat, n <= m, NEW entry \in Row(n) PROVE entry \in Row(m)
BY DEF Row

\* What a request wants of a row is a row, whatever was read.
LEMMA WantedTyped ==
    ASSUME tokens \in Nat, NEW op \in Operations, NEW entry \in Row(tokens)
    PROVE  /\ WantedRow(op, entry) \in Row(tokens + 1)
           /\ WantedRow(op, entry).title = IF op.do = "title" THEN op.title ELSE entry.title
           /\ WantedRow(op, entry).token = IF op.do = "share" /\ entry.token = 0 THEN tokens + 1 ELSE entry.token
           /\ WantedRow(op, entry).is = IF op.do = "purge" THEN "gone" ELSE entry.is
<1> USE RowKinds DEF WantedRow
<1>1. CASE op.do = "title"
  BY <1>1 DEF Retitled, Row
<1>2. CASE op.do = "status"
  BY <1>2 DEF WithStatus, Row
<1>3. CASE op.do = "share"
  <2> DEFINE t == IF entry.token = 0 THEN tokens + 1 ELSE entry.token
             w == [entry EXCEPT !.status = "shared", !.token = t]
  <2>1. WantedRow(op, entry) = w
    BY <1>3 DEF WithLink
  <2>2. t \in 0 .. tokens + 1 /\ "shared" \in RowStatuses
    BY DEF Row, RowStatuses
  <2> HIDE DEF t
  <2>3. w \in Row(tokens + 1) /\ w.title = entry.title /\ w.token = t /\ w.is = entry.is
    BY <2>2 DEF Row
  <2> QED
    BY <1>3, <2>1, <2>3 DEF t
<1>4. CASE op.do = "delete"
  BY <1>4 DEF Trashed, Row, RowStatuses
<1>5. CASE op.do = "restore"
  BY <1>5 DEF Restored, Row, RowStatuses
<1>6. CASE op.do = "purge"
  BY <1>6 DEF Purged, Row
<1> QED
  BY <1>1, <1>2, <1>3, <1>4, <1>5, <1>6

LEMMA WrittenTyped ==
    ASSUME NEW n \in Nat, NEW now \in Row(n), NEW read \in Row(n), NEW new \in Row(n)
    PROVE  /\ Written(now, read, new) \in Row(n)
           /\ Written(now, read, new).title = IF new.title = read.title THEN now.title ELSE new.title
           /\ Written(now, read, new).token = IF new.token = read.token THEN now.token ELSE new.token
           /\ Written(now, read, new).is = IF new.is = read.is THEN now.is ELSE new.is
BY DEF Written, Row

LEMMA ItemReads ==
    ASSUME LibraryTyped, NEW k \in Askers, requests[k].at = "read"
    PROVE  requests[k] \in ItemReading(tokens)
BY DEF LibraryTyped, NoRequest, ItemReading

\* A new row has no link yet, and no request has read it.
LEMMA NewKept ==
    ASSUME LibraryInv, NEW x \in Items, NEW t \in Titles, NEW status \in RowStatuses, New(x, t, status)
    PROVE  LibraryInv'
<1> DEFINE entry == [NoRow EXCEPT !.is = "there", !.title = t, !.status = status]
<1>0. NoRow \in Row(tokens) /\ NoRow.token = 0 /\ tokens \in Nat
  BY DEF NoRow, Row, RowStatuses, LibraryInv, LibraryTyped
<1>1. entry \in Row(tokens) /\ entry.token = 0 /\ entry.is = "there" /\ entry.title = t
  BY <1>0 DEF Row
<1>2. rows' = [rows EXCEPT ![x] = entry] /\ rows[x].is = "unused"
  BY DEF New
<1> HIDE DEF entry
<1>3. LibraryTyped'
  BY <1>1, <1>2 DEF New, LibraryInv, LibraryTyped
<1>4. TitlesKept'
  BY <1>1, <1>2 DEF New, LibraryInv, LibraryTyped, TitlesKept
<1>5. TokensTell'
  <2> USE DEF New, LibraryInv, LibraryTyped
  <2>1. \A y \in Items : rows'[y].token = rows[y].token /\ (rows[y].is # "unused" => rows'[y] = rows[y])
    BY <1>1, <1>2 DEF TokensTell
  <2>2. \A y \in Items : rows'[y].is = "unused" => rows[y].is = "unused"
    BY <1>1, <1>2
  <2>3. \A link \in links : link[1] \in Items
    OBVIOUS
  <2>4. \A k \in Askers : requests[k].at = "read" => requests[k].item \in Items
    BY ItemReads DEF ItemReading
  <2> QED
    BY <2>1, <2>2, <2>3, <2>4 DEF TokensTell
<1> QED
  BY <1>3, <1>4, <1>5 DEF LibraryInv

LEMMA ReadKept ==
    ASSUME LibraryInv, NEW k \in Askers, NEW op \in Operations, NEW x \in Items, ReadRow(k, op, x)
    PROVE  LibraryInv'
<1> DEFINE q == [at |-> "read", op |-> op, item |-> x, read |-> rows[x]]
<1>1. q \in ItemReading(tokens) /\ rows[x].is = "there"
  BY DEF ReadRow, Finds, ItemReading, LibraryInv, LibraryTyped
<1>2. requests' = [requests EXCEPT ![k] = q]
  BY DEF ReadRow
<1>3. q.at = "read" /\ q.item = x /\ q.read = rows[x]
  OBVIOUS
<1> HIDE DEF q
<1>4. LibraryTyped'
  BY <1>1, <1>2 DEF ReadRow, LibraryInv, LibraryTyped
<1>5. TitlesKept'
  BY DEF ReadRow, LibraryInv, TitlesKept
<1>6. TokensTell'
  BY <1>1, <1>2, <1>3 DEF ReadRow, LibraryInv, LibraryTyped, TokensTell
<1> QED
  BY <1>4, <1>5, <1>6 DEF LibraryInv

LEMMA UntouchedKept ==
    ASSUME LibraryInv, NEW k \in Askers, RowUntouched(k)
    PROVE  LibraryInv'
<1>1. LibraryTyped'
  BY DEF RowUntouched, LibraryInv, LibraryTyped
<1>2. TitlesKept'
  BY DEF RowUntouched, LibraryInv, TitlesKept
<1>3. TokensTell'
  <2>1. \A j \in Askers : requests'[j].at = "read" => requests'[j] = requests[j] /\ requests[j].at = "read"
    BY DEF RowUntouched, NoRequest, LibraryInv, LibraryTyped
  <2> QED
    BY <2>1 DEF RowUntouched, LibraryInv, TokensTell
<1> QED
  BY <1>1, <1>2, <1>3 DEF LibraryInv

\* The columns that are not named keep what another request made of them meanwhile.
LEMMA CommitKept ==
    ASSUME LibraryInv, NEW k \in Askers, Commit(k)
    PROVE  LibraryInv'
<1> DEFINE r == requests[k]
           x == r.item
           new == WantedRow(r.op, r.read)
           now == rows[x]
           written == Written(now, r.read, new)
           makesLink == r.op.do = "share" /\ r.read.token = 0
<1>1. r \in ItemReading(tokens) /\ x \in Items /\ r.op \in Operations /\ r.read \in Row(tokens) /\ tokens \in Nat
  BY ItemReads DEF Commit, ItemReading, LibraryInv, LibraryTyped
<1>2. /\ new \in Row(tokens + 1)
      /\ new.token = IF makesLink THEN tokens + 1 ELSE r.read.token
      /\ new.is = IF r.op.do = "purge" THEN "gone" ELSE r.read.is
  BY <1>1, WantedTyped
<1>3. now \in Row(tokens) /\ now.is = "there"
  BY <1>1 DEF Commit, LibraryInv, LibraryTyped
<1>4. /\ rows' = [rows EXCEPT ![x] = written]
      /\ requests' = [requests EXCEPT ![k] = NoRequest]
      /\ titled' = IF new.title = r.read.title THEN titled ELSE [titled EXCEPT ![x] = new.title]
      /\ tokens' = IF makesLink THEN tokens + 1 ELSE tokens
      /\ links' = IF r.op.do = "share" THEN links \cup {<<x, new.token>>} ELSE links
      /\ contested' = IF makesLink /\ now.token # 0 THEN contested \cup {x} ELSE contested
  BY DEF Commit
<1>5. tokens' \in Nat /\ tokens <= tokens' /\ tokens' <= tokens + 1
  BY <1>1, <1>4
<1>6. new \in Row(tokens')
  BY <1>1, <1>2, <1>4, <1>5 DEF Row
<1>7. /\ written \in Row(tokens')
      /\ written.title = IF new.title = r.read.title THEN now.title ELSE new.title
      /\ written.token = IF new.token = r.read.token THEN now.token ELSE new.token
      /\ written.is \in {"there", "gone"}
  <2>1. now \in Row(tokens') /\ r.read \in Row(tokens')
    BY <1>1, <1>3, <1>5, RowGrows
  <2>2. r.read.is = "there"
    BY <1>1 DEF LibraryInv, TokensTell, Commit
  <2> QED
    BY <1>2, <1>3, <1>5, <1>6, <2>1, <2>2, WrittenTyped
<1> HIDE DEF written, new
<1>8. /\ makesLink => written.token = tokens + 1 /\ new.token = tokens + 1
      /\ ~makesLink => written.token = now.token /\ new.token = r.read.token
  BY <1>1, <1>2, <1>7 DEF Row
<1>9. LibraryTyped'
  <2>1. rows' \in [Items -> Row(tokens')]
    BY <1>1, <1>4, <1>5, <1>7, RowGrows DEF LibraryInv, LibraryTyped
  <2>2. requests' \in [Askers -> {NoRequest} \cup ItemReading(tokens')]
    <3>1. \A j \in Askers : requests[j] \in {NoRequest} \cup ItemReading(tokens')
      BY <1>1, <1>5, RowGrows DEF LibraryInv, LibraryTyped, ItemReading
    <3> QED
      BY <1>4, <3>1 DEF LibraryInv, LibraryTyped
  <2>3. titled' \in [Items -> Titles \cup {"none"}]
    BY <1>1, <1>2, <1>4 DEF LibraryInv, LibraryTyped, Row
  <2>4. contested' \subseteq Items
    BY <1>1, <1>4 DEF LibraryInv, LibraryTyped
  <2>5. links' \subseteq Items \X (1 .. tokens')
    <3>1. r.op.do = "share" => new.token \in 1 .. tokens'
      BY <1>1, <1>4, <1>8 DEF Row
    <3> QED
      BY <1>1, <1>4, <1>5, <3>1 DEF LibraryInv, LibraryTyped
  <2> QED
    BY <1>5, <2>1, <2>2, <2>3, <2>4, <2>5 DEF LibraryTyped
<1>10. TitlesKept'
  BY <1>1, <1>4, <1>7 DEF LibraryInv, LibraryTyped, TitlesKept
<1>11. TokensTell'
  <2>0. \A y \in Items : rows[y] \in Row(tokens) /\ rows[y].token \in 0 .. tokens
    BY DEF LibraryInv, LibraryTyped, Row
  <2>1. \A y \in Items : rows'[y] = IF y = x THEN written ELSE rows[y]
    BY <1>1, <1>4 DEF LibraryInv, LibraryTyped
  <2>2. \A j \in Askers : requests'[j].at = "read" => requests'[j] = requests[j] /\ requests[j].at = "read" /\ requests[j].item \in Items
    BY <1>4, ItemReads DEF NoRequest, ItemReading, LibraryInv, LibraryTyped
  <2>3. \A link \in links : link[1] \in Items /\ link[2] # 0
    BY DEF LibraryInv, LibraryTyped
  <2>4. ASSUME NEW y \in Items, NEW z \in Items, rows'[y].token # 0, rows'[y].token = rows'[z].token PROVE y = z
    BY <1>1, <1>8, <2>0, <2>1, <2>4 DEF LibraryInv, TokensTell
  <2>5. x \notin contested' => x \notin contested /\ (makesLink => now.token = 0)
    BY <1>4
  <2>6. ASSUME NEW link \in links', link[1] \notin contested' PROVE rows'[link[1]].token = link[2]
    <3>1. CASE link \in links
      BY <1>4, <1>8, <2>1, <2>3, <2>5, <2>6, <3>1 DEF LibraryInv, TokensTell
    <3>2. CASE link \notin links
      <4>1. link = <<x, new.token>> /\ r.op.do = "share"
        BY <1>4, <2>6, <3>2
      <4>2. link[1] = x /\ link[2] = new.token
        BY <4>1
      <4>3. CASE makesLink
        BY <1>1, <1>8, <2>1, <4>2, <4>3
      <4>4. CASE ~makesLink
        BY <1>1, <1>8, <2>1, <2>5, <2>6, <4>1, <4>2, <4>4 DEF LibraryInv, TokensTell, Commit
      <4> QED
        BY <4>3, <4>4
    <3> QED
      BY <3>1, <3>2
  <2>7. ASSUME NEW j \in Askers, requests'[j].at = "read"
        PROVE  LET p == requests'[j] IN
               /\ rows'[p.item].is # "unused" /\ p.read.is = "there"
               /\ p.read.token # 0 /\ p.item \notin contested' => rows'[p.item].token = p.read.token
    BY <1>4, <1>7, <1>8, <2>1, <2>2, <2>5, <2>7 DEF LibraryInv, TokensTell
  <2>8. ASSUME NEW y \in Items, rows'[y].is = "unused" PROVE rows'[y].token = 0
    BY <1>7, <2>1, <2>8 DEF LibraryInv, TokensTell
  <2> QED
    BY <2>4, <2>6, <2>7, <2>8 DEF TokensTell
<1> QED
  BY <1>9, <1>10, <1>11 DEF LibraryInv

LEMMA LibraryStep == ASSUME LibraryInv, [LibraryNext]_libraryVars PROVE LibraryInv'
<1>1. ASSUME NEW x \in Items, NEW t \in Titles, CreateCanvas(x, t) \/ CreateReport(x, t) PROVE LibraryInv'
  BY <1>1, NewKept DEF CreateCanvas, CreateReport, RowStatuses
<1>2. ASSUME NEW x \in Items, NEW t \in Titles, NEW s \in RowStatuses, SaveAsReport(x, t, s) PROVE LibraryInv'
  BY <1>2, NewKept DEF SaveAsReport
<1>3. CASE UNCHANGED libraryVars
  BY <1>3 DEF libraryVars, LibraryInv, LibraryTyped, TitlesKept, TokensTell
<1> QED
  BY <1>1, <1>2, <1>3, CommitKept, UntouchedKept, ReadKept DEF LibraryNext

\* The token of a link opens the report of the link, and no other.
LEMMA LinksOpen == LibraryInv => LinksLive
<1> SUFFICES ASSUME LibraryInv, NEW link \in links, link[1] \notin contested, rows[link[1]].is = "there"
             PROVE  Opens(link[2]) = {link[1]}
  BY DEF LinksLive
<1>1. link[1] \in Items /\ link[2] # 0 /\ rows[link[1]].token = link[2]
  BY DEF LibraryInv, LibraryTyped, TokensTell
<1> QED
  BY <1>1 DEF LibraryInv, TokensTell, Opens

LEMMA LibraryStart == LibraryInit => LibraryInv
<1> SUFFICES ASSUME LibraryInit PROVE LibraryInv
  OBVIOUS
<1>1. NoRow \in Row(0) /\ NoRow.token = 0 /\ NoRow.title = "none"
  BY DEF NoRow, Row, RowStatuses
<1>2. LibraryTyped
  BY <1>1 DEF LibraryInit, LibraryTyped
<1>3. TitlesKept /\ TokensTell
  BY <1>1 DEF LibraryInit, TitlesKept, TokensTell, NoRequest
<1> QED
  BY <1>2, <1>3 DEF LibraryInv

\* Titles and links.
THEOREM KeptIsWhole == LibrarySpec => []LibrarySound
<1>1. LibraryInit => LibraryInv
  BY LibraryStart
<1>2. LibraryInv /\ [LibraryNext]_libraryVars => LibraryInv'
  BY LibraryStep
<1>3. LibraryInv => LibrarySound
  BY LinksOpen DEF LibraryInv, LibrarySound
<1> QED
  BY <1>1, <1>2, <1>3, PTL DEF LibrarySpec


-----------------------------------------------------------------------------
(* The pages that list them. *)

Lines == Papers \X (Names \cup {"trash"})
Changes == {"create", "rename", "delete", "restore", "purge"}
Asked == [at : {"asked"}, do : Changes, of : Papers, name : Names, heard : BOOLEAN]
Answered == [at : {"done"}, of : Papers, heard : BOOLEAN]
Listings == {[at |-> "asked"]} \cup [at : {"served"}, what : SUBSET Lines]

ListTyped ==
    /\ kept \in [Papers -> Names \cup Elsewhere] /\ calls \in [Calls -> {NoCall} \cup Asked \cup Answered]
    /\ page \in {"out", "center", "trash"} /\ onPage \subseteq Lines /\ listings \in Seq(Listings)
    /\ silent \subseteq Papers /\ overtaken \in BOOLEAN

\* A report that changed neither behind the page's back nor by a call whose answer the
\* page still waits for.
Settled(x) == x \notin silent /\ \A k \in Calls : calls[k].at = "done" /\ calls[k].heard => calls[k].of # x
TellsOf(x, lines) == \A v \in Names \cup {"trash"} : <<x, v>> \in lines <=> <<x, v>> \in Listed

\* One listing is under way at most; what it brings, or what is shown, is true of all
\* that is settled.
ListingsTell ==
    page # "out" /\ ~overtaken =>
        /\ Len(listings) <= 1
        /\ \A x \in Papers : Settled(x) =>
              /\ listings = <<>> => TellsOf(x, onPage)
              /\ listings # <<>> /\ listings[1].at = "served" => TellsOf(x, listings[1].what)

\* The trash asks for its list once, strikes off nothing before it came, and what it
\* strikes off is not there.
TrashWaits ==
    page = "trash" =>
        /\ ~overtaken /\ (onPage # {} => listings = <<>>)
        /\ \A k \in Calls : calls[k].at \in {"asked", "done"} /\ calls[k].heard =>
              /\ listings = <<>>
              /\ calls[k].at = "asked" => calls[k].do \in {"restore", "purge"}
              /\ calls[k].at = "done" /\ calls[k].of \notin silent => kept[calls[k].of] # "trash"

ListInv == ListTyped /\ ListingsTell /\ TrashWaits

LEMMA CallKinds ==
    ASSUME ListTyped, NEW k \in Calls
    PROVE  /\ calls[k].at = "idle" => calls[k] = NoCall
           /\ calls[k].at = "asked" => calls[k] \in Asked
           /\ calls[k].at = "done" => calls[k] \in Answered
           /\ calls[k].at \in {"idle", "asked", "done"}
BY DEF ListTyped, NoCall, Asked, Answered

LEMMA ListedLines ==
    ASSUME NEW x \in Papers, NEW v
    PROVE  <<x, v>> \in Listed <=> IF page = "trash" THEN kept[x] = "trash" /\ v = "trash"
                                    ELSE kept[x] \in Names /\ v = kept[x]
<1>1. <<x, v>> \in CenterList <=> kept[x] \in Names /\ v = kept[x]
  BY DEF CenterList
<1>2. <<x, v>> \in TrashList <=> kept[x] = "trash" /\ v = "trash"
  BY DEF TrashList
<1> QED
  BY <1>1, <1>2 DEF Listed

LEMMA ListedTyped == Listed \subseteq Lines
BY DEF Listed, CenterList, TrashList, Lines

\* Where a call is taken off, the others stay.
LEMMA CallTaken ==
    ASSUME ListTyped, NEW k \in Calls, calls' = [calls EXCEPT ![k] = NoCall]
    PROVE  /\ calls' \in [Calls -> {NoCall} \cup Asked \cup Answered]
           /\ calls'[k].at = "idle" /\ \A j \in Calls : j # k => calls'[j] = calls[j]
BY DEF ListTyped, NoCall

\* The page asks for its list: what it knows starts anew.
LEMMA AskTells ==
    ASSUME ListTyped, Ask, UNCHANGED <<kept, onPage>>, page' = page, calls' \in [Calls -> {NoCall} \cup Asked \cup Answered]
    PROVE  ListTyped' /\ ListingsTell'
<1> DEFINE new == [at |-> "asked"]
<1>1. new \in Listings /\ new.at = "asked" /\ listings \in Seq(Listings)
  BY DEF Listings, ListTyped
<1>2. listings' = Append(listings, new) /\ silent' = {} /\ overtaken' = (listings # <<>>)
  BY DEF Ask
<1> HIDE DEF new
<1>3. listings' \in Seq(Listings)
  BY <1>1, <1>2
<1>4. overtaken' \in BOOLEAN /\ (~overtaken' => listings = <<>>)
  BY <1>2
<1>5. listings = <<>> => Len(listings') = 1 /\ listings'[1].at = "asked" /\ listings' # <<>>
  BY <1>1, <1>2
<1>6. ListTyped'
  BY <1>2, <1>3, <1>4 DEF ListTyped
<1>7. ListingsTell'
  <2> SUFFICES ASSUME ~overtaken' PROVE ListingsTell'
    BY DEF ListingsTell
  <2>1. Len(listings') = 1 /\ listings'[1].at = "asked" /\ listings' # <<>>
    BY <1>4, <1>5
  <2> QED
    BY <2>1 DEF ListingsTell
<1> QED
  BY <1>6, <1>7

LEMMA VisitKept == ASSUME ListInv, NEW p \in {"center", "trash"}, Visit(p) PROVE ListInv'
<1> DEFINE new == [at |-> "asked"]
           Unheard(k) == IF calls[k].at = "idle" THEN NoCall ELSE [calls[k] EXCEPT !.heard = FALSE]
<1>1. /\ page' = p /\ onPage' = {} /\ silent' = {} /\ overtaken' = FALSE /\ listings' = <<new>>
      /\ calls' = [k \in Calls |-> Unheard(k)] /\ kept' = kept
  BY DEF Visit
<1>2. new \in Listings /\ new.at = "asked"
  BY DEF Listings
<1>3. \A k \in Calls : /\ Unheard(k) \in {NoCall} \cup Asked \cup Answered
                       /\ Unheard(k).at \in {"asked", "done"} => Unheard(k).heard = FALSE
  BY CallKinds DEF ListInv, NoCall, Asked, Answered
<1> HIDE DEF new, Unheard
<1>4. listings' \in Seq(Listings) /\ Len(listings') = 1 /\ listings'[1].at = "asked" /\ listings' # <<>>
  BY <1>1, <1>2
<1>5. ListTyped'
  BY <1>1, <1>3, <1>4 DEF ListInv, ListTyped
<1>6. ListingsTell'
  BY <1>4 DEF ListingsTell
<1>7. TrashWaits'
  BY <1>1, <1>3 DEF TrashWaits
<1> QED
  BY <1>5, <1>6, <1>7 DEF ListInv

LEMMA ListAskKept == ASSUME ListInv, ChooseTab \/ \E k \in Calls : CenterHears(k) PROVE ListInv'
<1>1. page = "center" /\ Ask /\ UNCHANGED <<kept, page, onPage>>
  BY DEF ChooseTab, CenterHears
<1>2. calls' \in [Calls -> {NoCall} \cup Asked \cup Answered]
  BY CallTaken DEF ChooseTab, CenterHears, ListInv, ListTyped
<1>3. ListTyped' /\ ListingsTell'
  BY <1>1, <1>2, AskTells DEF ListInv
<1> QED
  BY <1>1, <1>3 DEF ListInv, TrashWaits

LEMMA ServeListKept == ASSUME ListInv, NEW n \in Nat, ServeList(n) PROVE ListInv'
<1> DEFINE new == [at |-> "served", what |-> Listed]
<1>1. /\ n \in DOMAIN listings /\ listings[n].at = "asked" /\ listings' = [listings EXCEPT ![n] = new]
      /\ UNCHANGED <<kept, calls, page, onPage, silent, overtaken>>
  BY DEF ServeList
<1>2. new \in Listings /\ new.at = "served" /\ new.what = Listed
  BY ListedTyped DEF Listings
<1> HIDE DEF new
<1>3. /\ listings' \in Seq(Listings) /\ Len(listings') = Len(listings) /\ Len(listings) \in Nat /\ listings # <<>> /\ listings' # <<>>
      /\ listings'[n] = new /\ n \in 1 .. Len(listings)
  BY <1>1, <1>2 DEF ListInv, ListTyped
<1>4. Listed' = Listed /\ \A x \in Papers : Settled(x)' = Settled(x)
  BY <1>1 DEF Listed, CenterList, TrashList, Settled
<1>5. ListTyped'
  BY <1>1, <1>3 DEF ListInv, ListTyped
<1>6. ListingsTell'
  BY <1>1, <1>2, <1>3, <1>4 DEF ListInv, ListingsTell, TellsOf
<1>7. TrashWaits'
  BY <1>1, <1>3 DEF ListInv, TrashWaits
<1> QED
  BY <1>5, <1>6, <1>7 DEF ListInv

\* One listing less.
LEMMA WithoutLists ==
    ASSUME ListTyped, NEW n \in DOMAIN listings
    PROVE  /\ Without(n) \in Seq(Listings) /\ listings # <<>>
           /\ Len(listings) <= 1 => Without(n) = <<>> /\ n = 1
<1>1. listings \in Seq(Listings) /\ Len(listings) \in Nat /\ n \in 1 .. Len(listings)
  BY DEF ListTyped
<1>2. \A m \in 1 .. Len(listings) - 1 : (IF m < n THEN listings[m] ELSE listings[m + 1]) \in Listings
  BY <1>1
<1>3. Len(listings) - 1 \in Nat
  BY <1>1
<1>4. Without(n) \in Seq(Listings) /\ Len(Without(n)) = Len(listings) - 1
  BY <1>2, <1>3 DEF Without
<1> QED
  BY <1>1, <1>4

LEMMA ShowKept == ASSUME ListInv, NEW n \in Nat, ShowList(n) \/ ListingFails(n) PROVE ListInv'
<1>1. /\ n \in DOMAIN listings /\ listings' = Without(n) /\ UNCHANGED <<kept, calls, page, overtaken>>
      /\ \/ listings[n].at = "served" /\ onPage' = listings[n].what /\ silent' = silent
         \/ onPage' \subseteq onPage /\ silent' = Papers
  BY DEF ShowList, ListingFails
<1>2. /\ listings' \in Seq(Listings) /\ listings # <<>>
      /\ Len(listings) <= 1 => listings' = <<>> /\ n = 1
  BY <1>1, WithoutLists DEF ListInv
<1>3. listings[n].at = "served" => listings[n].what \subseteq Lines
  <2>1. listings[n] \in Listings
    BY <1>1 DEF ListInv, ListTyped
  <2> QED
    BY <2>1 DEF Listings
<1>4. Listed' = Listed
  BY <1>1 DEF Listed, CenterList, TrashList
<1>5. \A x \in Papers : Settled(x)' => Settled(x) /\ listings[n].at = "served" /\ onPage' = listings[n].what
  BY <1>1 DEF Settled
<1>6. ListTyped'
  BY <1>1, <1>2, <1>3 DEF ListInv, ListTyped
<1>7. ListingsTell'
  BY <1>1, <1>2, <1>4, <1>5, <1>6 DEF ListInv, ListingsTell, TellsOf
<1>8. TrashWaits'
  BY <1>1, <1>2 DEF ListInv, TrashWaits, ListingsTell
<1> QED
  BY <1>6, <1>7, <1>8 DEF ListInv

LEMMA CallKept ==
    ASSUME ListInv, NEW k \in Calls, NEW do \in Changes, NEW x \in Papers, NEW name \in Names, NEW heard \in BOOLEAN,
           Call(k, do, x, name, heard)
    PROVE  ListInv'
<1> DEFINE new == [at |-> "asked", do |-> do, of |-> x, name |-> name, heard |-> heard]
<1>1. /\ calls' = [calls EXCEPT ![k] = new] /\ calls[k].at = "idle"
      /\ UNCHANGED <<kept, page, onPage, listings, silent, overtaken>>
      /\ heard /\ page = "trash" => do \in {"restore", "purge"} /\ onPage # {}
  BY DEF Call
<1>2. new \in Asked /\ new.at = "asked" /\ new.do = do
  BY DEF Asked
<1>2a. new.heard => heard
  OBVIOUS
<1> HIDE DEF new
<1>3. calls' \in [Calls -> {NoCall} \cup Asked \cup Answered] /\ calls'[k] = new /\ \A j \in Calls : j # k => calls'[j] = calls[j]
  BY <1>1, <1>2 DEF ListInv, ListTyped
<1>4. Listed' = Listed /\ \A y \in Papers : Settled(y)' => Settled(y)
  BY <1>1, <1>3 DEF Listed, CenterList, TrashList, Settled
<1>5. ListTyped'
  BY <1>1, <1>3 DEF ListInv, ListTyped
<1>6. ListingsTell'
  BY <1>1, <1>4 DEF ListInv, ListingsTell, TellsOf
<1>7. TrashWaits'
  <2> SUFFICES ASSUME page = "trash", NEW j \in Calls, calls'[j].at \in {"asked", "done"}, calls'[j].heard
               PROVE  /\ listings = <<>>
                      /\ calls'[j].at = "asked" => calls'[j].do \in {"restore", "purge"}
                      /\ calls'[j].at = "done" /\ calls'[j].of \notin silent => kept[calls'[j].of] # "trash"
    BY <1>1 DEF ListInv, TrashWaits
  <2>1. CASE j = k
    BY <1>1, <1>2, <1>2a, <1>3, <2>1 DEF ListInv, TrashWaits
  <2>2. CASE j # k
    BY <1>3, <2>2 DEF ListInv, TrashWaits
  <2> QED
    BY <2>1, <2>2
<1> QED
  BY <1>5, <1>6, <1>7 DEF ListInv

\* What the server changes is not settled before the page hears of it.
LEMMA ServeKept == ASSUME ListInv, NEW k \in Calls, ServeCall(k) PROVE ListInv'
<1> DEFINE c == calls[k]
           new == [at |-> "done", of |-> c.of, heard |-> c.heard]
           res == Result(c.do, c.name)
<1>1. /\ c \in Asked /\ c.at = "asked" /\ c.of \in Papers /\ c.heard \in BOOLEAN /\ c.do \in Changes /\ c.name \in Names
  BY CallKinds DEF ServeCall, ListInv, Asked
<1>2. UNCHANGED <<page, onPage, listings, overtaken>>
  BY DEF ServeCall
<1>3. CASE ~Allowed(c.do, kept[c.of])
  <2>1. calls' = [calls EXCEPT ![k] = NoCall] /\ UNCHANGED <<kept, silent>>
    BY <1>3 DEF ServeCall
  <2>2. /\ calls' \in [Calls -> {NoCall} \cup Asked \cup Answered]
        /\ calls'[k].at = "idle" /\ \A j \in Calls : j # k => calls'[j] = calls[j]
    BY <2>1, CallTaken DEF ListInv
  <2>3. Listed' = Listed /\ \A y \in Papers : Settled(y)' => Settled(y)
    BY <1>1, <1>2, <2>1, <2>2 DEF Listed, CenterList, TrashList, Settled
  <2>4. ListTyped'
    BY <1>2, <2>1, <2>2 DEF ListInv, ListTyped
  <2>5. ListingsTell'
    BY <1>2, <2>3 DEF ListInv, ListingsTell, TellsOf
  <2>6. TrashWaits'
    BY <1>2, <2>1, <2>2 DEF ListInv, TrashWaits
  <2> QED
    BY <2>4, <2>5, <2>6 DEF ListInv
<1>4. CASE Allowed(c.do, kept[c.of])
  <2>1. /\ kept' = [kept EXCEPT ![c.of] = res] /\ calls' = [calls EXCEPT ![k] = new]
        /\ silent' = IF c.heard THEN silent ELSE silent \cup {c.of}
    BY <1>4 DEF ServeCall
  <2>2. /\ new \in Answered /\ new.at = "done" /\ new.of = c.of
    BY <1>1 DEF Answered
  <2>2a. (new.heard => c.heard) /\ (c.heard => new.heard)
    OBVIOUS
  <2>3. /\ res \in Names \cup {"trash", "gone"}
        /\ c.do \in {"restore", "purge"} => res # "trash"
    BY <1>1, ListPagesAssumption DEF Result, Changes
  <2> HIDE DEF new, res
  <2>4. calls' \in [Calls -> {NoCall} \cup Asked \cup Answered] /\ calls'[k] = new /\ \A j \in Calls : j # k => calls'[j] = calls[j]
    BY <2>1, <2>2 DEF ListInv, ListTyped
  <2>5. /\ kept' \in [Papers -> Names \cup Elsewhere]
        /\ kept'[c.of] = res /\ \A y \in Papers : y # c.of => kept'[y] = kept[y]
    BY <1>1, <2>1, <2>3 DEF ListInv, ListTyped, Elsewhere
  <2>6. \A y \in Papers : Settled(y)' => Settled(y) /\ y # c.of
    BY <1>1, <2>1, <2>2, <2>2a, <2>4 DEF Settled
  <2>7. \A y \in Papers : y # c.of => \A v \in Names \cup {"trash"} : (<<y, v>> \in Listed)' <=> <<y, v>> \in Listed
    <3>1. \A y \in Papers, v \in Names \cup {"trash"} :
             (<<y, v>> \in Listed)' <=> IF page' = "trash" THEN kept'[y] = "trash" /\ v = "trash"
                                       ELSE kept'[y] \in Names /\ v = kept'[y]
      BY DEF Listed, CenterList, TrashList
    <3> QED
      BY <1>2, <2>5, <3>1, ListedLines
  <2>8. ListTyped'
    BY <1>1, <1>2, <2>1, <2>4, <2>5 DEF ListInv, ListTyped
  <2>9. ListingsTell'
    BY <1>2, <2>6, <2>7 DEF ListInv, ListingsTell, TellsOf
  <2>10. TrashWaits'
    <3> SUFFICES ASSUME page = "trash", NEW j \in Calls, calls'[j].at \in {"asked", "done"}, calls'[j].heard
                 PROVE  /\ listings = <<>>
                        /\ calls'[j].at = "asked" => calls'[j].do \in {"restore", "purge"}
                        /\ calls'[j].at = "done" /\ calls'[j].of \notin silent' => kept'[calls'[j].of] # "trash"
      BY <1>2 DEF ListInv, TrashWaits
    <3>0. c.heard => c.do \in {"restore", "purge"} /\ listings = <<>>
      BY <1>1 DEF ListInv, TrashWaits
    <3>1. CASE j = k
      BY <1>1, <2>1, <2>2, <2>2a, <2>3, <2>4, <2>5, <3>0, <3>1
    <3>2. CASE j # k
      <4>1. calls'[j] = calls[j] /\ listings = <<>> /\ (calls[j].at = "asked" => calls[j].do \in {"restore", "purge"})
            /\ (calls[j].at = "done" => calls[j].of \in Papers)
        BY <2>4, <3>2, CallKinds DEF ListInv, TrashWaits, Answered
      <4>2. calls[j].at = "done" /\ calls[j].of \notin silent' => kept'[calls[j].of] # "trash"
        <5> SUFFICES ASSUME calls[j].at = "done", calls[j].of \notin silent' PROVE kept'[calls[j].of] # "trash"
          OBVIOUS
        <5>1. calls[j].of \notin silent /\ kept[calls[j].of] # "trash"
          BY <2>1, <4>1 DEF ListInv, TrashWaits
        <5>2. calls[j].of = c.of => c.heard
          BY <2>1
        <5> QED
          BY <2>3, <2>5, <3>0, <4>1, <5>1, <5>2
      <4> QED
        BY <4>1, <4>2
    <3> QED
      BY <3>1, <3>2
  <2> QED
    BY <2>8, <2>9, <2>10 DEF ListInv
<1> QED
  BY <1>3, <1>4

LEMMA TrashHearsKept == ASSUME ListInv, NEW k \in Calls, TrashHears(k) PROVE ListInv'
<1> DEFINE x == calls[k].of
<1>1. /\ calls[k].at = "done" /\ calls[k].heard /\ page = "trash" /\ calls' = [calls EXCEPT ![k] = NoCall]
      /\ onPage' = {s \in onPage : s[1] # x} /\ UNCHANGED <<kept, page, listings, silent, overtaken>>
  BY DEF TrashHears
<1>2. /\ calls' \in [Calls -> {NoCall} \cup Asked \cup Answered]
      /\ calls'[k].at = "idle" /\ \A j \in Calls : j # k => calls'[j] = calls[j]
  BY <1>1, CallTaken DEF ListInv
<1>3. /\ listings = <<>> /\ ~overtaken /\ (x \notin silent => kept[x] # "trash")
      /\ x \in Papers
  BY <1>1, CallKinds DEF ListInv, TrashWaits, Answered
<1>4. Listed' = Listed /\ \A y \in Papers : y # x /\ Settled(y)' => Settled(y)
  BY <1>1, <1>2 DEF Listed, CenterList, TrashList, Settled
<1>5. ListTyped'
  BY <1>1, <1>2 DEF ListInv, ListTyped
<1>6. ListingsTell'
  <2>1. ASSUME NEW y \in Papers, Settled(y)', NEW v \in Names \cup {"trash"}
        PROVE  <<y, v>> \in onPage' <=> <<y, v>> \in Listed
    <3>1. CASE y = x
      <4>1. <<y, v>> \notin onPage'
        BY <1>1, <3>1
      <4>2. kept[x] # "trash"
        BY <1>1, <1>3, <2>1, <3>1 DEF Settled
      <4> QED
        BY <1>1, <3>1, <4>1, <4>2, ListedLines
    <3>2. CASE y # x
      BY <1>1, <1>3, <1>4, <2>1, <3>2 DEF ListInv, ListingsTell, TellsOf
    <3> QED
      BY <3>1, <3>2
  <2> QED
    BY <1>1, <1>3, <1>4, <2>1 DEF ListInv, ListingsTell, TellsOf
<1>7. TrashWaits'
  BY <1>1, <1>2, <1>3 DEF ListInv, TrashWaits
<1> QED
  BY <1>5, <1>6, <1>7 DEF ListInv

LEMMA NobodyHearsKept == ASSUME ListInv, NEW k \in Calls, NobodyHears(k) PROVE ListInv'
<1>1. /\ calls[k].at = "done" /\ calls' = [calls EXCEPT ![k] = NoCall]
      /\ silent' = IF calls[k].heard THEN silent \cup {calls[k].of} ELSE silent
      /\ UNCHANGED <<kept, page, onPage, listings, overtaken>> /\ calls[k].of \in Papers
  BY CallKinds DEF NobodyHears, ListInv, Answered
<1>2. /\ calls' \in [Calls -> {NoCall} \cup Asked \cup Answered]
      /\ calls'[k].at = "idle" /\ \A j \in Calls : j # k => calls'[j] = calls[j]
  BY <1>1, CallTaken DEF ListInv
<1>3. Listed' = Listed /\ \A y \in Papers : Settled(y)' => Settled(y)
  BY <1>1, <1>2 DEF Listed, CenterList, TrashList, Settled
<1>4. ListTyped'
  BY <1>1, <1>2 DEF ListInv, ListTyped
<1>5. ListingsTell'
  BY <1>1, <1>3 DEF ListInv, ListingsTell, TellsOf
<1>6. TrashWaits'
  BY <1>1, <1>2 DEF ListInv, TrashWaits
<1> QED
  BY <1>4, <1>5, <1>6 DEF ListInv

LEMMA ListStep == ASSUME ListInv, [ListNext]_listVars PROVE ListInv'
<1>1. ASSUME NEW n \in 1 .. MaxListings, ServeList(n) \/ ShowList(n) \/ ListingFails(n) PROVE ListInv'
  <2>1. n \in Nat
    BY ListPagesAssumption
  <2> QED
    BY <1>1, <2>1, ServeListKept, ShowKept
<1>2. CASE UNCHANGED listVars
  BY <1>2 DEF listVars, ListInv, ListTyped, ListingsTell, TrashWaits, Settled, TellsOf, Listed, CenterList, TrashList
<1>3. ASSUME NEW k \in Calls, ServeCall(k) \/ CenterHears(k) \/ TrashHears(k) \/ NobodyHears(k) PROVE ListInv'
  BY <1>3, ServeKept, ListAskKept, TrashHearsKept, NobodyHearsKept
<1>4. ASSUME NEW k \in Calls, NEW do \in Changes, NEW x \in Papers, NEW name \in Names, NEW heard \in BOOLEAN,
             Call(k, do, x, name, heard)
      PROVE  ListInv'
  BY <1>4, CallKept
<1> QED
  BY <1>1, <1>2, <1>3, <1>4, VisitKept, ListAskKept DEF ListNext, Changes

LEMMA ListStart == ListInit => ListInv
<1> SUFFICES ASSUME ListInit PROVE ListInv
  OBVIOUS
<1>1. ListTyped
  <2>1. kept \in [Papers -> Names \cup Elsewhere] /\ calls \in [Calls -> {NoCall} \cup Asked \cup Answered]
    BY DEF ListInit, Elsewhere
  <2>2. listings = <<>> /\ overtaken = FALSE
    BY DEF ListInit
  <2>3. listings \in Seq(Listings)
    BY <2>2
  <2> QED
    BY <2>1, <2>2, <2>3 DEF ListInit, ListTyped
<1> QED
  BY <1>1 DEF ListInit, ListInv, ListingsTell, TrashWaits, NoCall

\* A page at rest.
LEMMA RestTells == ListInv => PageTrue
<1> SUFFICES ASSUME ListInv, page # "out", ~overtaken, listings = <<>>, \A k \in Calls : calls[k].at = "idle"
             PROVE  {s \in onPage : s[1] \notin silent} = {s \in Listed : s[1] \notin silent}
  BY DEF PageTrue
<1>1. \A x \in Papers : x \notin silent => TellsOf(x, onPage)
  BY DEF ListInv, ListingsTell, Settled
<1>2. onPage \subseteq Lines /\ Listed \subseteq Lines
  BY ListedTyped DEF ListInv, ListTyped
<1>3. \A s \in Lines : s[1] \notin silent => (s \in onPage <=> s \in Listed)
  BY <1>1 DEF Lines, TellsOf
<1> QED
  BY <1>2, <1>3

THEOREM PagesTell == ListSpec => []PageTrue
<1>1. ListInit => ListInv
  BY ListStart
<1>2. ListInv /\ [ListNext]_listVars => ListInv'
  BY ListStep
<1>3. ListInv => PageTrue
  BY RestTells
<1> QED
  BY <1>1, <1>2, <1>3, PTL DEF ListSpec


-----------------------------------------------------------------------------
(* What the canvas page opens with. *)

Sheetlike == [canvas : Sheets \cup {NoSheet}, of : Sheets \cup {"none", "copy"}, v : Nat, torn : BOOLEAN]
PageRows == [shows : Sheetlike, open : BOOLEAN, hydrated : BOOLEAN, timer : BOOLEAN]
Doings == {"create", "open", "new", "reset", "trash", "clone"}
Errands ==
    [do : Doings, tab : Tabs, sheet : Sheets \cup {NoSheet}, was : Sheets \cup {NoSheet}, gone : BOOLEAN]

PagesTyped ==
    /\ pages \in [Tabs -> PageRows] /\ (draft = NoDraft \/ draft \in Sheetlike)

\* A canvas is opened that there is.
ErrandsTyped ==
    /\ errands \in Seq(Errands) /\ made \subseteq Sheets
    /\ \A k \in DOMAIN errands : errands[k].do = "open" => errands[k].sheet \in Sheets

\* A report that lies in the browser has not been counted yet.
HandedInv ==
    /\ handed \in [given : Nat, taken : Nat] /\ handed.taken <= handed.given
    /\ transfer = "put" => handed.taken < handed.given

MountInv == PagesTyped /\ ErrandsTyped /\ HandedInv /\ ShownIsKept /\ BlocksApart

\* What a page may be set to: it writes its draft later, if at all.
Fresh(p) == p \in PageRows /\ Whole(p.shows) /\ (p.hydrated => p.timer)

LEMMA Sheetlikes ==
    /\ BlankSheet \in Sheetlike /\ Whole(BlankSheet)
    /\ Copied \in Sheetlike /\ Whole(Copied)
    /\ \A c \in Sheets : /\ Of(c) \in Sheetlike /\ Whole(Of(c))
                         /\ Emptied(Of(c)) \in Sheetlike /\ Whole(Emptied(Of(c)))
<1>1. BlankSheet \in Sheetlike /\ BlankSheet.of = "none" /\ BlankSheet.canvas = NoSheet
  BY DEF BlankSheet, Sheetlike
<1>2. Copied \in Sheetlike /\ Copied.of = "copy" /\ Copied.canvas = NoSheet
  BY <1>1 DEF Copied, Sheetlike
<1>3. ASSUME NEW c \in Sheets
      PROVE  /\ Of(c) \in Sheetlike /\ Of(c).of = c /\ Of(c).canvas = c
             /\ Emptied(Of(c)) \in Sheetlike /\ Emptied(Of(c)).of = "none"
  <2>1. Of(c) \in Sheetlike /\ Of(c).of = c /\ Of(c).canvas = c
    BY <1>1 DEF Of, Sheetlike
  <2> QED
    BY <2>1 DEF Emptied, Sheetlike
<1> QED
  BY <1>1, <1>2, <1>3 DEF Whole

LEMMA EmptiedIsWhole == ASSUME NEW s \in Sheetlike PROVE Emptied(s) \in Sheetlike /\ Whole(Emptied(s))
<1>1. Emptied(s) \in Sheetlike /\ Emptied(s).of = "none"
  BY DEF Emptied, Sheetlike
<1> QED
  BY <1>1 DEF Whole

\* Blocks that were of none are of the canvas they are put on.
LEMMA NamedIsWhole ==
    ASSUME NEW s \in Sheetlike, Whole(s), NEW c \in Sheets
    PROVE  Named(s, c) \in Sheetlike /\ Whole(Named(s, c))
<1> DEFINE of == IF s.canvas = NoSheet /\ s.of = "copy" THEN c ELSE s.of
           ripped == s.torn \/ (s.canvas # NoSheet /\ s.of # "none")
           new == [s EXCEPT !.canvas = c, !.of = of, !.torn = ripped]
<1>1. of \in Sheets \cup {"none", "copy"}
  BY DEF Sheetlike
<1>2. ripped \in BOOLEAN
  BY DEF Sheetlike
<1>3. ripped \/ of = "none" \/ of = c
  BY MountAssumption DEF Sheetlike, Whole
<1>4. Named(s, c) = new
  BY DEF Named
<1> HIDE DEF of, ripped
<1>5. new \in Sheetlike
  BY <1>1, <1>2 DEF Sheetlike
<1>6. new.of = of /\ new.canvas = c /\ new.torn = ripped
  BY DEF Sheetlike
<1>7. Whole(new)
  BY <1>3, <1>6 DEF Whole
<1> QED
  BY <1>4, <1>5, <1>7

LEMMA RenderedIsFresh ==
    ASSUME NEW p \in PageRows, NEW s \in Sheetlike, Whole(s)
    PROVE  /\ Fresh(Rendered(p, s)) /\ Fresh(Hydrated(p, s))
           /\ Fresh([Hydrated(p, s) EXCEPT !.open = TRUE])
<1>1. ASSUME NEW q \in PageRows
      PROVE  /\ Rendered(q, s) \in PageRows /\ Rendered(q, s).shows = s
             /\ Rendered(q, s).timer = Rendered(q, s).hydrated
  BY DEF Rendered, PageRows
<1>2. [p EXCEPT !.hydrated = TRUE] \in PageRows
  BY DEF PageRows
<1> DEFINE h == Hydrated(p, s)
<1>3. h \in PageRows /\ h.shows = s /\ h.timer = h.hydrated
  BY <1>1, <1>2 DEF Hydrated
<1> HIDE DEF h
<1>4. [h EXCEPT !.open = TRUE] \in PageRows /\ [h EXCEPT !.open = TRUE].shows = s
      /\ ([h EXCEPT !.open = TRUE].hydrated => [h EXCEPT !.open = TRUE].timer)
  BY <1>3 DEF PageRows
<1> QED
  BY <1>1, <1>3, <1>4 DEF Fresh, h

LEMMA NoPageIsFresh == NoPage \in PageRows /\ Fresh(NoPage) /\ Fresh([NoPage EXCEPT !.open = TRUE])
<1>1. NoPage \in PageRows /\ NoPage.shows = BlankSheet /\ NoPage.hydrated = FALSE
  BY Sheetlikes DEF NoPage, PageRows
<1>2. /\ [NoPage EXCEPT !.open = TRUE] \in PageRows /\ [NoPage EXCEPT !.open = TRUE].shows = BlankSheet
      /\ [NoPage EXCEPT !.open = TRUE].hydrated = FALSE
  BY <1>1 DEF PageRows
<1> QED
  BY <1>1, <1>2, Sheetlikes DEF Fresh

\* A page that is set anew keeps its draft waiting; a draft that is removed is removed
\* for the others.
LEMMA PageSet ==
    ASSUME MountInv, NEW t \in Tabs, NEW p, Fresh(p), pages' = [pages EXCEPT ![t] = p],
           UNCHANGED <<draft, robbed>> \/ RemoveDraft({t})
    PROVE  PagesTyped' /\ ShownIsKept' /\ BlocksApart'
<1>1. /\ pages' \in [Tabs -> PageRows] /\ pages'[t] = p
      /\ \A u \in Tabs : u # t => pages'[u] = pages[u]
  BY DEF MountInv, PagesTyped, Fresh
<1>2. PagesTyped'
  BY <1>1 DEF MountInv, PagesTyped, RemoveDraft
<1>3. ShownIsKept'
  BY <1>1 DEF MountInv, ShownIsKept, Fresh, RemoveDraft
<1>4. BlocksApart'
  BY <1>1 DEF MountInv, BlocksApart, Fresh, RemoveDraft
<1> QED
  BY <1>2, <1>3, <1>4

LEMMA PageLeft ==
    ASSUME MountInv, UNCHANGED pages, UNCHANGED <<draft, robbed>> \/ RemoveDraft({})
    PROVE  PagesTyped' /\ ShownIsKept' /\ BlocksApart'
BY DEF MountInv, PagesTyped, ShownIsKept, BlocksApart, RemoveDraft

LEMMA PageOf == ASSUME MountInv, NEW t \in Tabs
                PROVE  pages[t] \in PageRows /\ pages[t].shows \in Sheetlike /\ Whole(pages[t].shows)
BY DEF MountInv, PagesTyped, BlocksApart, PageRows

-----------------------------------------------------------------------------
(* Requests. *)

LEMMA ErrandOf ==
    ASSUME MountInv, NEW k \in DOMAIN errands
    PROVE  /\ errands[k] \in Errands /\ errands[k].tab \in Tabs /\ errands[k].do \in Doings
           /\ errands[k].do = "open" => errands[k].sheet \in Sheets
<1>1. errands \in Seq(Errands) /\ (errands[k].do = "open" => errands[k].sheet \in Sheets)
  BY DEF MountInv, ErrandsTyped
<1>2. errands[k] \in Errands
  BY <1>1
<1> QED
  BY <1>1, <1>2 DEF Errands

LEMMA BeginsKept ==
    ASSUME MountInv, NEW do \in Doings, NEW t \in Tabs, NEW c \in Sheets \cup {NoSheet},
           do = "open" => c \in Sheets, Begins(do, t, c), made' = made
    PROVE  ErrandsTyped'
<1> DEFINE e == Errand(do, t, c)
<1>1. e \in Errands /\ e.do = do /\ e.sheet = c
  BY PageOf DEF Errand, Errands, Sheetlike
<1>2. errands' = Append(errands, e) /\ errands \in Seq(Errands)
  BY DEF Begins, MountInv, ErrandsTyped
<1> HIDE DEF e
<1>3. /\ errands' \in Seq(Errands) /\ DOMAIN errands' = 1 .. Len(errands) + 1
      /\ \A k \in 1 .. Len(errands) : errands'[k] = errands[k]
      /\ errands'[Len(errands) + 1] = e /\ DOMAIN errands = 1 .. Len(errands) /\ Len(errands) \in Nat
  BY <1>1, <1>2
<1>4. \A k \in DOMAIN errands' : (k \in DOMAIN errands /\ errands'[k] = errands[k]) \/ errands'[k] = e
  <2>1. ASSUME NEW n \in Nat, NEW k \in 1 .. n + 1 PROVE k \in 1 .. n \/ k = n + 1
    OBVIOUS
  <2> SUFFICES ASSUME NEW k \in DOMAIN errands' PROVE (k \in DOMAIN errands /\ errands'[k] = errands[k]) \/ errands'[k] = e
    OBVIOUS
  <2>2. k \in 1 .. Len(errands) \/ k = Len(errands) + 1
    BY <1>3, <2>1
  <2> QED
    BY <1>3, <2>2
<1>5. \A k \in DOMAIN errands' : errands'[k].do = "open" => errands'[k].sheet \in Sheets
  BY <1>1, <1>4 DEF MountInv, ErrandsTyped
<1> QED
  BY <1>3, <1>5 DEF MountInv, ErrandsTyped

LEMMA AwaitedKept ==
    ASSUME MountInv, NEW k \in DOMAIN errands, errands' = RemoveAt(errands, k), made' \subseteq Sheets
    PROVE  ErrandsTyped'
<1>1. errands \in Seq(Errands) /\ k \in 1 .. Len(errands) /\ DOMAIN errands = 1 .. Len(errands) /\ Len(errands) \in Nat
  BY SMTT(30) DEF MountInv, ErrandsTyped
<1>2. /\ errands' \in Seq(Errands) /\ Len(errands') = Len(errands) - 1
      /\ \A j \in 1 .. Len(errands) - 1 : errands'[j] = IF j < k THEN errands[j] ELSE errands[j + 1]
  BY <1>1, RemovedFrom
<1>3. \A j \in DOMAIN errands' : \E i \in DOMAIN errands : errands'[j] = errands[i]
  BY <1>1, <1>2
<1> QED
  BY <1>2, <1>3 DEF MountInv, ErrandsTyped

-----------------------------------------------------------------------------
(* Steps of a page. *)

LEMMA EditKept ==
    ASSUME MountInv, NEW t \in Tabs, ChangeBlocks(t) \/ ClearBlocks(t) \/ ResetDraft(t)
    PROVE  MountInv'
<1> DEFINE sheet == pages[t].shows
<1>1. pages[t] \in PageRows /\ sheet \in Sheetlike /\ Whole(sheet)
  BY PageOf
<1>2. \E s \in Sheetlike : Whole(s) /\ pages' = [pages EXCEPT ![t] = Rendered(@, s)]
  <2>1. CASE ChangeBlocks(t)
    <3> DEFINE mine == IF sheet.canvas = NoSheet THEN "copy" ELSE sheet.canvas
               of == IF sheet.of = "none" THEN mine ELSE sheet.of
               s == [sheet EXCEPT !.of = of, !.v = sheet.v + 1]
    <3>1. of \in Sheets \cup {"none", "copy"} /\ sheet.v + 1 \in Nat
      BY <1>1 DEF Sheetlike
    <3>2. sheet.torn \/ (of = "copy" /\ sheet.canvas = NoSheet) \/ of = sheet.canvas
      BY <1>1 DEF Sheetlike, Whole
    <3>3. pages' = [pages EXCEPT ![t] = Rendered(@, s)]
      BY <1>1, <2>1 DEF ChangeBlocks, Sheetlike
    <3> HIDE DEF of
    <3>4. s \in Sheetlike /\ s.of = of /\ s.canvas = sheet.canvas /\ s.torn = sheet.torn
      BY <1>1, <3>1 DEF Sheetlike
    <3>5. Whole(s)
      BY <3>2, <3>4 DEF Whole
    <3> QED
      BY <3>3, <3>4, <3>5
  <2>2. CASE ClearBlocks(t)
    <3>1. pages' = [pages EXCEPT ![t] = Rendered(@, Emptied(sheet))]
      BY <2>2 DEF ClearBlocks
    <3> QED
      BY <1>1, <3>1, EmptiedIsWhole
  <2>3. CASE ResetDraft(t)
    BY <2>3, Sheetlikes DEF ResetDraft
  <2> QED
    BY <2>1, <2>2, <2>3
<1>3. PICK s \in Sheetlike : Whole(s) /\ pages' = [pages EXCEPT ![t] = Rendered(pages[t], s)]
  BY <1>2
<1>4. Fresh(Rendered(pages[t], s))
  BY <1>1, <1>3, RenderedIsFresh
<1>5. UNCHANGED <<draft, robbed>> \/ RemoveDraft({t})
  BY DEF ChangeBlocks, ClearBlocks, ResetDraft
<1>6. PagesTyped' /\ ShownIsKept' /\ BlocksApart'
  BY <1>3, <1>4, <1>5, PageSet
<1>7. UNCHANGED <<transfer, errands, made, handed>>
  BY DEF ChangeBlocks, ClearBlocks, ResetDraft
<1> QED
  BY <1>6, <1>7 DEF MountInv, ErrandsTyped, HandedInv

\* Whoever writes the draft writes it for himself.
LEMMA WriteKept == ASSUME MountInv, NEW t \in Tabs, WriteDraft(t) PROVE MountInv'
<1> DEFINE p == [pages[t] EXCEPT !.timer = FALSE]
<1>1. /\ p \in PageRows /\ p.shows = pages[t].shows
      /\ pages[t].shows \in Sheetlike /\ Whole(pages[t].shows)
  BY PageOf DEF PageRows
<1>2. /\ pages' = [pages EXCEPT ![t] = p] /\ draft' = pages[t].shows /\ robbed' = (robbed \ {t}) \cup (Tabs \ {t})
      /\ UNCHANGED <<transfer, errands, made, spent, handed>>
  BY DEF WriteDraft
<1> HIDE DEF p
<1>3. /\ pages' \in [Tabs -> PageRows] /\ pages'[t] = p
      /\ \A u \in Tabs : u # t => pages'[u] = pages[u]
  BY <1>1, <1>2 DEF MountInv, PagesTyped
<1>4. PagesTyped'
  BY <1>1, <1>2, <1>3 DEF PagesTyped
<1>5. ShownIsKept'
  BY <1>1, <1>2, <1>3 DEF ShownIsKept
<1>6. BlocksApart'
  BY <1>1, <1>2, <1>3 DEF MountInv, BlocksApart
<1> QED
  BY <1>2, <1>4, <1>5, <1>6 DEF MountInv, ErrandsTyped, HandedInv

LEMMA OpenKept ==
    ASSUME MountInv, NEW t \in Tabs,
           \/ OpenSystemTemplate(t) \/ OpenDraft(t) \/ OpenUnknownTemplate(t)
           \/ \E unknown \in BOOLEAN : OpenTransfer(t, unknown)
           \/ \E c \in Sheets : OpenUserTemplate(t, c)
    PROVE  MountInv'
<1>1. UNCHANGED <<draft, robbed>> \/ RemoveDraft({t})
  BY DEF OpenSystemTemplate, OpenDraft, OpenUnknownTemplate, OpenTransfer, OpenUserTemplate
<1>2. \E p : Fresh(p) /\ pages' = [pages EXCEPT ![t] = p]
  <2>1. CASE OpenSystemTemplate(t) \/ \E unknown \in BOOLEAN : OpenTransfer(t, unknown)
    <3>1. pages' = [pages EXCEPT ![t] = [Hydrated(NoPage, Copied) EXCEPT !.open = TRUE]]
      BY <2>1 DEF OpenSystemTemplate, OpenTransfer, OpensAs
    <3> QED
      BY <3>1, NoPageIsFresh, Sheetlikes, RenderedIsFresh
  <2>2. CASE OpenUnknownTemplate(t)
    <3>1. pages' = [pages EXCEPT ![t] = [Hydrated(NoPage, BlankSheet) EXCEPT !.open = TRUE]]
      BY <2>2 DEF OpenUnknownTemplate, OpensAs
    <3> QED
      BY <3>1, NoPageIsFresh, Sheetlikes, RenderedIsFresh
  <2>3. CASE OpenDraft(t)
    <3> DEFINE s == IF draft = NoDraft THEN BlankSheet ELSE draft
    <3>1. pages' = [pages EXCEPT ![t] = [Hydrated(NoPage, s) EXCEPT !.open = TRUE]]
      BY <2>3 DEF OpenDraft, OpensAs, DraftShown
    <3>2. s \in Sheetlike /\ Whole(s)
      BY Sheetlikes DEF MountInv, PagesTyped, BlocksApart
    <3> HIDE DEF s
    <3> QED
      BY <3>1, <3>2, NoPageIsFresh, RenderedIsFresh
  <2>4. CASE \E c \in Sheets : OpenUserTemplate(t, c)
    BY <2>4, NoPageIsFresh DEF OpenUserTemplate, OpensAs
  <2> QED
    BY <2>1, <2>2, <2>3, <2>4
<1>3. PagesTyped' /\ ShownIsKept' /\ BlocksApart'
  BY <1>1, <1>2, PageSet
<1>4. ErrandsTyped'
  <2>1. CASE \E c \in Sheets : OpenUserTemplate(t, c)
    <3>1. PICK c \in Sheets : Begins("clone", t, c) /\ made' = made
      BY <2>1 DEF OpenUserTemplate
    <3> QED
      BY <3>1, BeginsKept DEF Doings
  <2>2. CASE Begins("create", t, NoSheet) /\ made' = made
    BY <2>2, BeginsKept DEF Doings
  <2>3. CASE UNCHANGED <<errands, made>>
    BY <2>3 DEF MountInv, ErrandsTyped
  <2> QED
    BY <2>1, <2>2, <2>3 DEF OpenSystemTemplate, OpenDraft, OpenUnknownTemplate, OpenTransfer
<1>5. HandedInv'
  <2>1. transfer' = "none"
    BY DEF OpenSystemTemplate, OpenDraft, OpenUnknownTemplate, OpenTransfer, OpenUserTemplate, Opening, TakeTransfer
  <2>2. CASE \E unknown \in BOOLEAN : OpenTransfer(t, unknown)
    <3>1. transfer = "put" /\ handed' = [handed EXCEPT !.taken = @ + 1]
      BY <2>2 DEF OpenTransfer, Taken
    <3>2. handed \in [given : Nat, taken : Nat] /\ handed.taken < handed.given
      BY <3>1 DEF MountInv, HandedInv
    <3>3. handed' \in [given : Nat, taken : Nat] /\ handed'.taken <= handed'.given
      BY <3>1, <3>2
    <3> QED
      BY <2>1, <3>3 DEF HandedInv
  <2>3. CASE handed' = handed
    BY <2>1, <2>3 DEF MountInv, HandedInv
  <2> QED
    BY <2>2, <2>3 DEF OpenSystemTemplate, OpenDraft, OpenUnknownTemplate, OpenUserTemplate
<1> QED
  BY <1>3, <1>4, <1>5 DEF MountInv

LEMMA LeaveKept == ASSUME MountInv, NEW t \in Tabs, LeaveSheet(t) PROVE MountInv'
<1>1. pages' = [pages EXCEPT ![t] = NoPage] /\ UNCHANGED <<draft, transfer, made, spent, handed, robbed>>
  BY DEF LeaveSheet
<1>2. PagesTyped' /\ ShownIsKept' /\ BlocksApart'
  BY <1>1, NoPageIsFresh, PageSet
<1>3. ErrandsTyped'
  <2> DEFINE F(k) == IF errands[k].tab = t THEN [errands[k] EXCEPT !.gone = TRUE] ELSE errands[k]
  <2>1. errands \in Seq(Errands) /\ DOMAIN errands = 1 .. Len(errands) /\ Len(errands) \in Nat
    BY DEF MountInv, ErrandsTyped
  <2>2. ASSUME NEW k \in 1 .. Len(errands)
        PROVE  F(k) \in Errands /\ F(k).do = errands[k].do /\ F(k).sheet = errands[k].sheet
    <3>1. errands[k] \in Errands
      BY <2>1
    <3>2. ASSUME NEW e \in Errands
          PROVE  /\ [e EXCEPT !.gone = TRUE] \in Errands /\ [e EXCEPT !.gone = TRUE].do = e.do
                 /\ [e EXCEPT !.gone = TRUE].sheet = e.sheet
      BY DEF Errands
    <3> QED
      BY <3>1, <3>2
  <2>3. errands' = [k \in 1 .. Len(errands) |-> F(k)]
    BY <2>1 DEF LeaveSheet
  <2> HIDE DEF F
  <2>4. errands' \in Seq(Errands) /\ DOMAIN errands' = 1 .. Len(errands)
    BY <2>1, <2>2, <2>3
  <2> QED
    BY <1>1, <2>1, <2>2, <2>3, <2>4 DEF MountInv, ErrandsTyped
<1> QED
  BY <1>1, <1>2, <1>3 DEF MountInv, HandedInv

LEMMA HandKept == ASSUME MountInv, HandReport PROVE MountInv'
<1>1. /\ transfer' \in {"put", "empty"} /\ handed' = [handed EXCEPT !.given = @ + 1]
      /\ UNCHANGED <<pages, draft, errands, made, robbed>>
  BY DEF HandReport
<1>2. handed \in [given : Nat, taken : Nat] /\ handed.taken <= handed.given
  BY DEF MountInv, HandedInv
<1>3. HandedInv'
  BY <1>1, <1>2 DEF HandedInv
<1>4. PagesTyped' /\ ShownIsKept' /\ BlocksApart'
  BY <1>1, PageLeft
<1> QED
  BY <1>1, <1>3, <1>4 DEF MountInv, ErrandsTyped

LEMMA MountAskKept == ASSUME MountInv, NEW t \in Tabs, AskFor(t) PROVE MountInv'
<1>1. UNCHANGED <<pages, draft, transfer, made, handed, robbed>>
  BY DEF AskFor
<1>2. PICK do \in Doings, c \in Sheets \cup {NoSheet} : (do = "open" => c \in Sheets) /\ Begins(do, t, c)
  <2>1. pages[t].shows.canvas \in Sheets \cup {NoSheet}
    BY PageOf DEF Sheetlike
  <2>2. \A c \in made : c \in Sheets
    BY DEF MountInv, ErrandsTyped
  <2> QED
    BY <2>1, <2>2 DEF AskFor, Doings
<1>3. ErrandsTyped'
  BY <1>1, <1>2, BeginsKept
<1>4. PagesTyped' /\ ShownIsKept' /\ BlocksApart'
  BY <1>1, PageLeft
<1> QED
  BY <1>1, <1>3, <1>4 DEF MountInv, HandedInv

-----------------------------------------------------------------------------
(* Answers. *)

LEMMA ReplacesKept ==
    ASSUME MountInv, NEW k \in DOMAIN errands, NEW p, Fresh(p), Replaces(k, p)
    PROVE  PagesTyped' /\ ShownIsKept' /\ BlocksApart'
BY ErrandOf, PageSet, PageLeft DEF Replaces

\* An answer changes nothing but the page that asked, if it is still there.
LEMMA MountAnswerKept ==
    ASSUME MountInv, NEW k \in DOMAIN errands, NEW doing, Awaited(k, doing), made' \subseteq Sheets,
           PagesTyped' /\ ShownIsKept' /\ BlocksApart'
    PROVE  MountInv'
<1>1. errands' = RemoveAt(errands, k) /\ UNCHANGED <<transfer, spent, handed>>
  BY DEF Awaited
<1>2. ErrandsTyped'
  BY <1>1, AwaitedKept
<1> QED
  BY <1>1, <1>2 DEF MountInv, HandedInv

LEMMA CreateAnswerKept ==
    ASSUME MountInv, NEW k \in DOMAIN errands, NEW c \in Sheets, CreateAnswer(k, c) PROVE MountInv'
<1> DEFINE t == errands[k].tab
           p == Rendered(pages[t], Named(pages[t].shows, c))
<1>1. /\ Awaited(k, {"create"}) /\ made' = made \cup {c} /\ UNCHANGED <<draft, robbed>>
      /\ pages' = IF Alive(k) THEN [pages EXCEPT ![t] = p] ELSE pages
  BY DEF CreateAnswer
<1>2. t \in Tabs
  BY ErrandOf
<1>3. Fresh(p)
  BY <1>2, PageOf, NamedIsWhole, RenderedIsFresh
<1> HIDE DEF p, t
<1>4. PagesTyped' /\ ShownIsKept' /\ BlocksApart'
  BY <1>1, <1>2, <1>3, PageSet, PageLeft
<1>5. made' \subseteq Sheets
  BY <1>1 DEF MountInv, ErrandsTyped
<1> QED
  BY <1>1, <1>4, <1>5, MountAnswerKept

LEMMA OpenAnswerKept ==
    ASSUME MountInv, NEW k \in DOMAIN errands, OpenAnswer(k) PROVE MountInv'
<1> DEFINE e == errands[k]
<1>1. PICK s \in {Of(e.sheet), Emptied(Of(e.sheet))} : Replaces(k, Hydrated(pages[e.tab], s))
  BY DEF OpenAnswer
<1>2. Awaited(k, {"open"}) /\ made' = made /\ e.sheet \in Sheets /\ e.tab \in Tabs
  BY ErrandOf DEF OpenAnswer, Awaited
<1>3. s \in Sheetlike /\ Whole(s)
  BY <1>1, <1>2, Sheetlikes
<1>4. Fresh(Hydrated(pages[e.tab], s))
  BY <1>2, <1>3, PageOf, RenderedIsFresh
<1>5. PagesTyped' /\ ShownIsKept' /\ BlocksApart'
  BY <1>1, <1>4, ReplacesKept
<1> QED
  BY <1>2, <1>5, MountAnswerKept DEF MountInv, ErrandsTyped

LEMMA NewAnswerKept ==
    ASSUME MountInv, NEW k \in DOMAIN errands, NEW c \in Sheets, NewAnswer(k, c) PROVE MountInv'
<1>1. Awaited(k, {"new"}) /\ made' \subseteq Sheets /\ Replaces(k, Hydrated(pages[errands[k].tab], Emptied(Of(c))))
  BY DEF NewAnswer, MountInv, ErrandsTyped
<1>2. Fresh(Hydrated(pages[errands[k].tab], Emptied(Of(c))))
  BY ErrandOf, PageOf, Sheetlikes, RenderedIsFresh
<1>3. PagesTyped' /\ ShownIsKept' /\ BlocksApart'
  BY <1>1, <1>2, ReplacesKept
<1> QED
  BY <1>1, <1>3, MountAnswerKept

LEMMA DeleteAnswerKept ==
    ASSUME MountInv, NEW k \in DOMAIN errands, DeleteAnswer(k) PROVE MountInv'
<1>1. /\ Awaited(k, {"reset", "trash"}) /\ made' \subseteq Sheets
      /\ Replaces(k, Rendered(pages[errands[k].tab], BlankSheet)) \/ UNCHANGED <<pages, draft, robbed>>
  BY DEF DeleteAnswer, MountInv, ErrandsTyped
<1>2. Fresh(Rendered(pages[errands[k].tab], BlankSheet))
  BY ErrandOf, PageOf, Sheetlikes, RenderedIsFresh
<1>3. PagesTyped' /\ ShownIsKept' /\ BlocksApart'
  BY <1>1, <1>2, ReplacesKept, PageLeft
<1> QED
  BY <1>1, <1>3, MountAnswerKept

LEMMA CloneAnswerKept ==
    ASSUME MountInv, NEW k \in DOMAIN errands, CloneAnswer(k) \/ ErrandFails(k) PROVE MountInv'
<1> DEFINE t == errands[k].tab
<1>0. t \in Tabs /\ pages[t] \in PageRows /\ pages[t].shows \in Sheetlike /\ Whole(pages[t].shows)
  BY ErrandOf, PageOf
<1>1. /\ made' \subseteq Sheets /\ UNCHANGED <<draft, robbed>>
      /\ \E doing : Awaited(k, doing)
  BY DEF CloneAnswer, ErrandFails, MountInv, ErrandsTyped
<1>2. pages' = pages \/ \E s \in Sheetlike : Whole(s) /\ pages' = [pages EXCEPT ![t] = Hydrated(pages[t], s)]
  BY <1>0, Sheetlikes DEF CloneAnswer, ErrandFails, Cloned
<1> HIDE DEF t
<1>3. PagesTyped' /\ ShownIsKept' /\ BlocksApart'
  BY <1>0, <1>1, <1>2, RenderedIsFresh, PageSet, PageLeft
<1> QED
  BY <1>1, <1>3, MountAnswerKept

LEMMA MountStep == ASSUME MountInv, [MountNext]_mountVars PROVE MountInv'
<1>1. ASSUME NEW t \in Tabs,
             \/ WriteDraft(t) \/ ChangeBlocks(t) \/ ClearBlocks(t) \/ LeaveSheet(t) \/ ResetDraft(t) \/ AskFor(t)
      PROVE  MountInv'
  BY <1>1, WriteKept, EditKept, LeaveKept, MountAskKept
<1>2. ASSUME NEW t \in Tabs,
             \/ OpenSystemTemplate(t) \/ OpenDraft(t) \/ OpenUnknownTemplate(t)
             \/ \E unknown \in BOOLEAN : OpenTransfer(t, unknown)
             \/ \E c \in Sheets : OpenUserTemplate(t, c)
      PROVE  MountInv'
  BY <1>2, OpenKept
<1>3. ASSUME NEW k \in DOMAIN errands, OpenAnswer(k) \/ DeleteAnswer(k) \/ CloneAnswer(k) \/ ErrandFails(k)
      PROVE  MountInv'
  BY <1>3, OpenAnswerKept, DeleteAnswerKept, CloneAnswerKept
<1>4. ASSUME NEW k \in DOMAIN errands, NEW c \in Sheets, CreateAnswer(k, c) \/ NewAnswer(k, c) PROVE MountInv'
  BY <1>4, CreateAnswerKept, NewAnswerKept
<1>5. CASE UNCHANGED mountVars
  BY <1>5 DEF mountVars, MountInv, PagesTyped, ErrandsTyped, HandedInv, ShownIsKept, BlocksApart
<1> QED
  BY <1>1, <1>2, <1>3, <1>4, <1>5, HandKept DEF MountNext

LEMMA MountStart == MountInit => MountInv
<1> SUFFICES ASSUME MountInit PROVE MountInv
  OBVIOUS
<1>1. PagesTyped /\ ShownIsKept /\ BlocksApart
  BY NoPageIsFresh DEF MountInit, PagesTyped, ShownIsKept, BlocksApart, Fresh
<1>2. errands = <<>> /\ made \subseteq Sheets
  BY DEF MountInit
<1>3. ErrandsTyped
  BY <1>2 DEF ErrandsTyped
<1>4. HandedInv
  BY DEF MountInit, HandedInv
<1> QED
  BY <1>1, <1>3, <1>4 DEF MountInv

THEOREM SheetsAreKept == MountSpec => []MountSound
<1>1. MountInit => MountInv
  BY MountStart
<1>2. MountInv /\ [MountNext]_mountVars => MountInv'
  BY MountStep
<1>3. MountInv => MountSound
  BY DEF MountInv, MountSound, HandedOnce, HandedInv
<1> QED
  BY <1>1, <1>2, <1>3, PTL DEF MountSpec


-----------------------------------------------------------------------------
(* The charts of a canvas. *)

Sets == [fields : Fields \cup {"absent", "blank"}, cuts : SUBSET (Cuts \cup {NoCut})]
Idlers == [at : {"idle"}, scope : SUBSET Charts, alone : SUBSET Charts]
Loops ==
    [at : {"loop"}, scope : SUBSET Charts, alone : SUBSET Charts, cutting : BOOLEAN,
     cut : Cuts \cup {NoCut}, seen : [Charts -> Sets], asking : SUBSET Charts]
Applications ==
    [at : {"apply"}, scope : SUBSET Charts, alone : SUBSET Charts, chart : Charts, config : Sets]
Sweeps == [at : {"refresh", "switch"}, scope : SUBSET Charts, alone : SUBSET Charts, seen : [Charts -> Sets]]
JobRows == Idlers \cup Loops \cup Applications \cup Sweeps

DeskTyped ==
    /\ configs \in [Charts -> Sets] /\ results \in [Charts -> Sets] /\ jobs \in [Jobs -> JobRows]
    /\ {cut, lastSig} \subseteq Cuts \cup {NoCut} /\ off \subseteq Charts /\ fresh \subseteq Charts
    /\ stuck \in BOOLEAN
    /\ \A b \in Charts : configs[b].fields = "absent" => configs[b] = NotThere

Looping(k) == jobs[k].at = "loop"

\* What each that is under way has before it.
JobHolds(k) ==
    /\ Looping(k) =>
          /\ jobs[k].asking = {} \/ \E b \in jobs[k].scope : jobs[k].asking = {b}
          /\ \A b \in jobs[k].scope : jobs[k].seen[b].fields # "absent"
    /\ jobs[k].at = "apply" => jobs[k].scope = {jobs[k].chart} /\ jobs[k].config.fields # "absent"
    /\ jobs[k].at = "switch" => jobs[k].scope = Charts

\* A chart one of them has alone no other has, and is as that one left it; a chart two
\* of them have is set down.
AloneHolds(k) ==
    /\ \A b \in jobs[k].alone, h \in Jobs \ {k} : b \notin jobs[h].scope
    /\ \A b \in jobs[k].scope \ jobs[k].alone : b \in off /\ b \in fresh
    /\ \A b \in jobs[k].scope \cap jobs[k].alone :
          /\ Looping(k) => configs[b] = IF b \in jobs[k].asking THEN Wanted(jobs[k], b) ELSE jobs[k].seen[b]
          /\ jobs[k].at = "refresh" => configs[b] = jobs[k].seen[b]
          /\ jobs[k].at = "apply" => jobs[k].config.cuts = configs[b].cuts

DeskTold == \A b \in Charts \ off :
    results[b] \in {NotThere, configs[b]} \/ \E k \in Jobs : Looping(k) /\ b \in jobs[k].asking

InLoop(b) == \E k \in Jobs : Looping(k) /\ b \in jobs[k].scope
CutsHold ==
    /\ cut # NoCut => lastSig = cut
    /\ ~stuck => \A b \in Configured \ fresh : InLoop(b) \/ configs[b].cuts = {cut} \ {NoCut}
    /\ ~stuck => \A k \in Jobs : Looping(k) => \A b \in jobs[k].scope \ fresh :
          /\ IF jobs[k].cutting THEN jobs[k].cut = cut /\ cut # NoCut ELSE cut = NoCut
          /\ \A d \in jobs[k].seen[b].cuts : d[1] = jobs[k].cut[1]

DeskInv ==
    DeskTyped /\ (\A k \in Jobs : JobHolds(k)) /\ (\A k \in Jobs : AloneHolds(k)) /\ DeskTold /\ CutsHold

LEMMA RowTypes ==
    ASSUME NEW j \in JobRows
    PROVE  /\ j.at \in {"idle", "loop", "apply", "refresh", "switch"}
           /\ j.scope \in SUBSET Charts /\ j.alone \in SUBSET Charts
           /\ j.at = "loop" => j \in Loops
           /\ j.at = "apply" => j \in Applications
           /\ j.at \in {"refresh", "switch"} => j \in Sweeps
<1>1. CASE j \in Idlers
  BY <1>1 DEF Idlers
<1>2. CASE j \in Loops
  BY <1>2 DEF Loops
<1>3. CASE j \in Applications
  BY <1>3 DEF Applications
<1>4. CASE j \in Sweeps
  BY <1>4 DEF Sweeps
<1> QED
  BY <1>1, <1>2, <1>3, <1>4 DEF JobRows

\* Two that do the same, whatever they have alone.
Same(i, j) ==
    /\ i.at = j.at /\ i.scope = j.scope
    /\ i.at = "loop" => /\ i.cutting = j.cutting /\ i.cut = j.cut
                        /\ i.seen = j.seen /\ i.asking = j.asking
    /\ i.at = "apply" => i.chart = j.chart /\ i.config = j.config
    /\ i.at \in {"refresh", "switch"} => i.seen = j.seen

LEMMA AloneChanges ==
    ASSUME NEW j \in JobRows, NEW A \in SUBSET Charts
    PROVE  /\ [j EXCEPT !.alone = A] \in JobRows /\ Same([j EXCEPT !.alone = A], j)
           /\ [j EXCEPT !.alone = A].alone = A
<1>1. CASE j \in Idlers
  BY <1>1 DEF Idlers, JobRows, Same
<1>2. CASE j \in Loops
  BY <1>2 DEF Loops, JobRows, Same
<1>3. CASE j \in Applications
  BY <1>3 DEF Applications, JobRows, Same
<1>4. CASE j \in Sweeps
  BY <1>4 DEF Sweeps, JobRows, Same
<1> QED
  BY <1>1, <1>2, <1>3, <1>4 DEF JobRows

\* What is wanted of a chart depends on what the two do alone.
LEMMA WantedSame == ASSUME NEW i, NEW j, NEW b, Same(i, j), i.at = "loop" PROVE Wanted(i, b) = Wanted(j, b)
BY DEF Same, Wanted

LEMMA DeskWantedRow ==
    ASSUME NEW j \in Loops, NEW b \in Charts
    PROVE  /\ Wanted(j, b) \in Sets /\ Wanted(j, b).fields = j.seen[b].fields
           /\ Wanted(j, b).cuts = {d \in j.seen[b].cuts : d[1] # j.cut[1]} \cup (IF j.cutting THEN {j.cut} ELSE {})
<1>1. j.cutting \in BOOLEAN /\ j.cut \in Cuts \cup {NoCut} /\ j.seen[b] \in Sets
  BY DEF Loops
<1> DEFINE r == j.seen[b]
           others == {d \in r.cuts : d[1] # j.cut[1]}
<1>2. r \in Sets
  BY <1>1
<1> HIDE DEF r
<1>3. others \in SUBSET (Cuts \cup {NoCut}) /\ others \cup {j.cut} \in SUBSET (Cuts \cup {NoCut})
  BY <1>1, <1>2 DEF Sets
<1>4. Wanted(j, b) = [r EXCEPT !.cuts = IF j.cutting THEN others \cup {j.cut} ELSE others]
  BY <1>1, <1>2 DEF Wanted, WithCut, WithoutCut, r, Sets
<1> HIDE DEF others
<1>5. /\ [r EXCEPT !.cuts = others \cup {j.cut}] \in Sets /\ [r EXCEPT !.cuts = others] \in Sets
      /\ [r EXCEPT !.cuts = others \cup {j.cut}].fields = r.fields
      /\ [r EXCEPT !.cuts = others].fields = r.fields
      /\ [r EXCEPT !.cuts = others \cup {j.cut}].cuts = others \cup {j.cut}
      /\ [r EXCEPT !.cuts = others].cuts = others
  BY <1>2, <1>3 DEF Sets
<1>6. /\ Wanted(j, b) \in Sets /\ Wanted(j, b).fields = r.fields
      /\ Wanted(j, b).cuts = others \cup (IF j.cutting THEN {j.cut} ELSE {})
  <2>1. CASE j.cutting
    BY <1>4, <1>5, <2>1
  <2>2. CASE ~j.cutting
    BY <1>4, <1>5, <2>2
  <2> QED
    BY <2>1, <2>2
<1> QED
  BY <1>6 DEF r, others

\* Where the cut was not on, taking it back changes nothing.
LEMMA WantedSeen ==
    ASSUME NEW j \in Loops, NEW b \in Charts, j.cutting = FALSE, \A d \in j.seen[b].cuts : d[1] # j.cut[1]
    PROVE  Wanted(j, b) = j.seen[b]
<1>1. j.seen[b] \in Sets
  BY DEF Loops
<1>2. /\ Wanted(j, b) \in Sets /\ Wanted(j, b).fields = j.seen[b].fields
      /\ Wanted(j, b).cuts = {d \in j.seen[b].cuts : d[1] # j.cut[1]} \cup (IF j.cutting THEN {j.cut} ELSE {})
  BY DeskWantedRow
<1>3. Wanted(j, b).cuts = j.seen[b].cuts
  BY <1>2
<1> QED
  BY <1>1, <1>2, <1>3 DEF Sets

-----------------------------------------------------------------------------
(* What begins. *)

\* Those that begin, N, have S among them, and M are the charts that two now have.
Began(N, S, M) ==
    /\ jobs' \in [Jobs -> JobRows]
    /\ \A i \in Jobs \ N : Same(jobs'[i], jobs[i]) /\ jobs'[i].alone = jobs[i].alone \ S
    /\ \A i \in N :
          /\ jobs'[i].scope \subseteq S
          /\ \A b \in jobs'[i].alone, h \in Jobs \ {i} : b \notin jobs'[h].scope
          /\ \A b \in jobs'[i].scope \ jobs'[i].alone : b \in M
          /\ jobs'[i].at = "loop" =>
                jobs'[i].asking = {} /\ jobs'[i].seen = configs /\ jobs'[i].scope \subseteq Configured
          /\ jobs'[i].at = "apply" => /\ jobs'[i].scope = {jobs'[i].chart}
                                      /\ jobs'[i].config.fields # "absent"
                                      /\ jobs'[i].config.cuts = configs[jobs'[i].chart].cuts
          /\ jobs'[i].at = "refresh" => jobs'[i].seen = configs
          /\ jobs'[i].at = "switch" => jobs'[i].scope = Charts
    /\ \A i \in Jobs \ N : \A b \in jobs[i].scope \cap S : b \in M
    /\ \A i \in N : jobs[i].at = "idle"
    /\ off' = off \cup M /\ fresh \ S \subseteq fresh' /\ M \subseteq fresh' /\ M \subseteq Charts
    /\ fresh' \subseteq Charts

LEMMA BegunKept ==
    ASSUME DeskInv, NEW N \in SUBSET Jobs, NEW S \in SUBSET Charts, NEW M, Began(N, S, M),
           UNCHANGED <<configs, results>>, {cut', lastSig'} \subseteq Cuts \cup {NoCut}, stuck' \in BOOLEAN
    PROVE  DeskTyped' /\ (\A k \in Jobs : JobHolds(k)') /\ (\A k \in Jobs : AloneHolds(k)') /\ DeskTold'
<1>1. DeskTyped'
  BY DEF Began, DeskInv, DeskTyped
<1>2. ASSUME NEW k \in Jobs PROVE JobHolds(k)'
  <2>1. CASE k \notin N
    <3>1. Same(jobs'[k], jobs[k]) /\ JobHolds(k)
      BY <2>1 DEF Began, DeskInv
    <3> QED
      BY <3>1 DEF Same, JobHolds, Looping
  <2>2. CASE k \in N
    <3>1. \A b \in Configured : configs[b].fields # "absent"
      BY DEF DeskInv, DeskTyped, Configured
    <3> QED
      BY <2>2, <3>1 DEF Began, JobHolds, Looping
  <2> QED
    BY <2>1, <2>2
<1>3. ASSUME NEW k \in Jobs PROVE AloneHolds(k)'
  <2>1. CASE k \notin N
    <3>1. Same(jobs'[k], jobs[k]) /\ AloneHolds(k) /\ jobs'[k].alone = jobs[k].alone \ S
      BY <2>1 DEF Began, DeskInv
    <3>2. \A b \in jobs'[k].alone, h \in Jobs \ {k} : b \notin jobs'[h].scope
      <4> SUFFICES ASSUME NEW b \in jobs'[k].alone, NEW h \in Jobs \ {k} PROVE b \notin jobs'[h].scope
        OBVIOUS
      <4>1. CASE h \in N
        BY <3>1, <4>1 DEF Began
      <4>2. CASE h \notin N
        <5>1. Same(jobs'[h], jobs[h])
          BY <4>2 DEF Began
        <5> QED
          BY <3>1, <5>1 DEF AloneHolds, Same
      <4> QED
        BY <4>1, <4>2
    <3>3. \A b \in jobs'[k].scope \ jobs'[k].alone : b \in off' /\ b \in fresh'
      <4> SUFFICES ASSUME NEW b \in jobs'[k].scope \ jobs'[k].alone PROVE b \in off' /\ b \in fresh'
        OBVIOUS
      <4>1. b \in jobs[k].scope
        BY <3>1 DEF Same
      <4>2. CASE b \in S
        BY <2>1, <4>1, <4>2 DEF Began
      <4>3. CASE b \notin S
        BY <3>1, <4>1, <4>3 DEF AloneHolds, Began
      <4> QED
        BY <4>2, <4>3
    <3>4. ASSUME NEW b \in jobs'[k].scope \cap jobs'[k].alone
          PROVE  /\ Looping(k)' => configs'[b] = IF b \in jobs'[k].asking THEN Wanted(jobs'[k], b) ELSE jobs'[k].seen[b]
                 /\ jobs'[k].at = "refresh" => configs'[b] = jobs'[k].seen[b]
                 /\ jobs'[k].at = "apply" => jobs'[k].config.cuts = configs'[b].cuts
      <4>1. b \in jobs[k].scope \cap jobs[k].alone
        BY <3>1 DEF Same
      <4>2. Looping(k)' => Wanted(jobs'[k], b) = Wanted(jobs[k], b)
        BY <3>1, WantedSame DEF Looping
      <4> QED
        BY <3>1, <4>1, <4>2 DEF AloneHolds, Same, Looping
    <3> QED
      BY <3>2, <3>3, <3>4 DEF AloneHolds
  <2>2. CASE k \in N
    <3>1. ASSUME NEW b \in jobs'[k].scope \cap jobs'[k].alone
          PROVE  /\ Looping(k)' => configs'[b] = IF b \in jobs'[k].asking THEN Wanted(jobs'[k], b) ELSE jobs'[k].seen[b]
                 /\ jobs'[k].at = "refresh" => configs'[b] = jobs'[k].seen[b]
                 /\ jobs'[k].at = "apply" => jobs'[k].config.cuts = configs'[b].cuts
      BY <2>2, <3>1 DEF Began, Looping
    <3>2. /\ \A b \in jobs'[k].alone, h \in Jobs \ {k} : b \notin jobs'[h].scope
          /\ \A b \in jobs'[k].scope \ jobs'[k].alone : b \in off' /\ b \in fresh'
      BY <2>2 DEF Began
    <3> QED
      BY <3>1, <3>2 DEF AloneHolds
  <2> QED
    BY <2>1, <2>2
<1>4. DeskTold'
  <2> SUFFICES ASSUME NEW b \in Charts \ off'
               PROVE  results'[b] \in {NotThere, configs'[b]} \/ \E k \in Jobs : Looping(k)' /\ b \in jobs'[k].asking
    BY DEF DeskTold
  <2>1. b \notin off
    BY DEF Began
  <2>2. CASE results[b] \in {NotThere, configs[b]}
    BY <2>2
  <2>3. ASSUME NEW k \in Jobs, Looping(k), b \in jobs[k].asking
        PROVE  Looping(k)' /\ b \in jobs'[k].asking
    <3>1. k \notin N
      BY <2>3 DEF Began, Looping
    <3> QED
      BY <2>3, <3>1 DEF Began, Same, Looping
  <2> QED
    BY <2>1, <2>2, <2>3 DEF DeskInv, DeskTold
<1> QED
  BY <1>1, <1>2, <1>3, <1>4

\* One that sets out begins.
LEMMA SetsOut ==
    ASSUME DeskInv, NEW k \in Jobs, NEW job \in JobRows, NEW beside \in SUBSET Charts,
           SetOut(k, job, beside), fresh \ job.scope \subseteq beside,
           job.at = "loop" => job.asking = {} /\ job.seen = configs /\ job.scope \subseteq Configured,
           job.at = "apply" => /\ job.scope = {job.chart} /\ job.config.fields # "absent"
                               /\ job.config.cuts = configs[job.chart].cuts,
           job.at = "refresh" => job.seen = configs,
           job.at = "switch" => job.scope = Charts
    PROVE  /\ Began({k}, job.scope, {b \in job.scope : \E i \in Jobs : b \in jobs[i].scope})
           /\ Same(jobs'[k], job)
           /\ fresh' = beside \cup {b \in job.scope : \E i \in Jobs : b \in jobs[i].scope}
<1> DEFINE M == {b \in job.scope : \E i \in Jobs : b \in jobs[i].scope}
           A == {b \in job.scope : \A h \in Jobs \ {k} : b \notin jobs[h].scope}
<1>1. job.scope \in SUBSET Charts /\ M \in SUBSET Charts /\ A \in SUBSET Charts
  BY RowTypes
<1>2. jobs \in [Jobs -> JobRows] /\ fresh \in SUBSET Charts
  BY DEF DeskInv, DeskTyped
<1>3. /\ jobs[k].at = "idle" /\ off' = off \cup M /\ fresh' = beside \cup M
      /\ jobs' = [i \in Jobs |-> IF i = k THEN [job EXCEPT !.alone = A]
                                 ELSE [jobs[i] EXCEPT !.alone = @ \ job.scope]]
  BY DEF SetOut, Meeting
<1>4. /\ jobs'[k] \in JobRows /\ Same(jobs'[k], job) /\ jobs'[k].alone = A
  <2>1. jobs'[k] = [job EXCEPT !.alone = A]
    BY <1>3
  <2> HIDE DEF A
  <2> QED
    BY <1>1, <2>1, AloneChanges
<1>5. ASSUME NEW i \in Jobs \ {k}
      PROVE  /\ jobs'[i] \in JobRows /\ Same(jobs'[i], jobs[i])
             /\ jobs'[i].alone = jobs[i].alone \ job.scope
  <2>1. jobs[i] \in JobRows /\ jobs[i].alone \ job.scope \in SUBSET Charts
    BY <1>2, RowTypes
  <2>2. jobs'[i] = [jobs[i] EXCEPT !.alone = jobs[i].alone \ job.scope]
    BY <1>3
  <2> QED
    BY <2>1, <2>2, AloneChanges
<1>6. jobs' \in [Jobs -> JobRows]
  BY <1>3, <1>4, <1>5
<1>7. \A b \in jobs'[k].alone, h \in Jobs \ {k} : b \notin jobs'[h].scope
  BY <1>4, <1>5 DEF Same
<1>8. /\ jobs'[k].at = "loop" =>
            jobs'[k].asking = {} /\ jobs'[k].seen = configs /\ jobs'[k].scope \subseteq Configured
      /\ jobs'[k].at = "apply" => /\ jobs'[k].scope = {jobs'[k].chart}
                                  /\ jobs'[k].config.fields # "absent"
                                  /\ jobs'[k].config.cuts = configs[jobs'[k].chart].cuts
      /\ jobs'[k].at = "refresh" => jobs'[k].seen = configs
      /\ jobs'[k].at = "switch" => jobs'[k].scope = Charts
      /\ jobs'[k].scope = job.scope
  BY <1>4 DEF Same
<1>9. /\ \A b \in jobs'[k].scope \ jobs'[k].alone : b \in M
      /\ \A i \in Jobs \ {k} : \A b \in jobs[i].scope \cap job.scope : b \in M
  BY <1>4, <1>8
<1>10. M \subseteq fresh' /\ fresh' \subseteq Charts /\ fresh \ job.scope \subseteq fresh'
  BY <1>1, <1>3
<1> HIDE DEF M, A
<1>11. Began({k}, job.scope, M)
  <2>1. \A i \in Jobs \ {k} : Same(jobs'[i], jobs[i]) /\ jobs'[i].alone = jobs[i].alone \ job.scope
    BY <1>5
  <2>2. ASSUME NEW i \in {k}
        PROVE  /\ jobs'[i].scope \subseteq job.scope
               /\ \A b \in jobs'[i].alone, h \in Jobs \ {i} : b \notin jobs'[h].scope
               /\ \A b \in jobs'[i].scope \ jobs'[i].alone : b \in M
               /\ jobs'[i].at = "loop" =>
                     jobs'[i].asking = {} /\ jobs'[i].seen = configs /\ jobs'[i].scope \subseteq Configured
               /\ jobs'[i].at = "apply" => /\ jobs'[i].scope = {jobs'[i].chart}
                                           /\ jobs'[i].config.fields # "absent"
                                           /\ jobs'[i].config.cuts = configs[jobs'[i].chart].cuts
               /\ jobs'[i].at = "refresh" => jobs'[i].seen = configs
               /\ jobs'[i].at = "switch" => jobs'[i].scope = Charts
    <3>1. i = k
      OBVIOUS
    <3> QED
      BY <1>7, <1>8, <1>9, <3>1
  <2>3. \A i \in {k} : jobs[i].at = "idle"
    BY <1>3
  <2> QED
    BY <1>1, <1>3, <1>6, <1>9, <1>10, <2>1, <2>2, <2>3 DEF Began
<1> QED
  BY <1>3, <1>4, <1>11 DEF M

LEMMA LoopRow ==
    ASSUME DeskTyped, NEW x \in BOOLEAN, NEW c \in Cuts \cup {NoCut}
    PROVE  /\ Loop(x, c) \in JobRows /\ Loop(x, c).at = "loop" /\ Loop(x, c).scope = Configured
           /\ Loop(x, c).asking = {} /\ Loop(x, c).seen = configs
           /\ Loop(x, c).cutting = x /\ Loop(x, c).cut = c
<1>1. Configured \in SUBSET Charts /\ configs \in [Charts -> Sets]
  BY DEF Configured, DeskTyped
<1>2. Loop(x, c) \in Loops
  BY <1>1 DEF Loop, Loops
<1> QED
  BY <1>2 DEF Loop, JobRows

\* A chart that a loop has before it, and that is not set down, is there.
LEMMA ScopeThere ==
    ASSUME DeskInv, NEW k \in Jobs, Looping(k), NEW b \in jobs[k].scope \ fresh
    PROVE  b \in Configured /\ b \in jobs[k].alone
<1>1. jobs[k] \in Loops /\ b \in Charts
  BY RowTypes DEF DeskInv, DeskTyped, Looping
<1>2. b \in jobs[k].alone /\ configs[b] \in {Wanted(jobs[k], b), jobs[k].seen[b]}
  BY DEF DeskInv, AloneHolds
<1>3. jobs[k].seen[b].fields # "absent"
  BY DEF DeskInv, JobHolds
<1>4. configs[b].fields # "absent"
  BY <1>1, <1>2, <1>3, DeskWantedRow
<1> QED
  BY <1>1, <1>2, <1>4 DEF Configured, NotThere

\* And what is wanted of it has the cut and no other.
LEMMA WantedCuts ==
    ASSUME DeskInv, NEW k \in Jobs, Looping(k), NEW b \in jobs[k].scope \ fresh, stuck = FALSE
    PROVE  Wanted(jobs[k], b).cuts = {cut} \ {NoCut}
<1> DEFINE j == jobs[k]
<1>1. j \in Loops /\ b \in Charts
  BY RowTypes DEF DeskInv, DeskTyped, Looping
<1>2. /\ IF j.cutting THEN j.cut = cut /\ cut # NoCut ELSE cut = NoCut
      /\ \A d \in j.seen[b].cuts : d[1] = j.cut[1]
  BY DEF DeskInv, CutsHold
<1>3. Wanted(j, b).cuts = {d \in j.seen[b].cuts : d[1] # j.cut[1]} \cup (IF j.cutting THEN {j.cut} ELSE {})
  BY <1>1, DeskWantedRow
<1>4. {d \in j.seen[b].cuts : d[1] # j.cut[1]} = {}
  BY <1>2
<1> HIDE DEF j
<1>5. CASE j.cutting
  <2>1. Wanted(j, b).cuts = {j.cut}
    BY <1>3, <1>4, <1>5
  <2>2. {cut} \ {NoCut} = {j.cut}
    BY <1>2, <1>5
  <2> QED
    BY <2>1, <2>2 DEF j
<1>6. CASE ~j.cutting
  <2>1. Wanted(j, b).cuts = {}
    BY <1>3, <1>4, <1>6
  <2>2. {cut} \ {NoCut} = {}
    BY <1>2, <1>6
  <2> QED
    BY <2>1, <2>2 DEF j
<1> QED
  BY <1>5, <1>6

\* A loop over the charts sets out: the charts are cut as it says when it is through.
LEMMA LoopBegins ==
    ASSUME DeskInv, NEW k \in Jobs, NEW x \in BOOLEAN, NEW c \in Cuts \cup {NoCut},
           SetOut(k, Loop(x, c), fresh \ Only(c)), UNCHANGED <<configs, results>>,
           IF x THEN cut' = c /\ c # NoCut ELSE cut' = NoCut,
           cut' # NoCut => lastSig' = cut', lastSig' \in Cuts \cup {NoCut},
           stuck' \in BOOLEAN, stuck' = FALSE => stuck = FALSE /\ (cut = NoCut \/ cut[1] = c[1])
    PROVE  DeskInv'
<1> DEFINE job == Loop(x, c)
           M == {b \in job.scope : \E i \in Jobs : b \in jobs[i].scope}
<1>1. /\ job \in JobRows /\ job.at = "loop" /\ job.scope = Configured /\ job.asking = {}
      /\ job.seen = configs /\ job.cutting = x /\ job.cut = c
  BY LoopRow DEF DeskInv
<1>2. Only(c) \subseteq Configured /\ Configured \subseteq Charts /\ fresh \ Only(c) \in SUBSET Charts
  BY DEF Only, Configured, DeskInv, DeskTyped
<1>3. /\ Began({k}, job.scope, M) /\ Same(jobs'[k], job) /\ fresh' = (fresh \ Only(c)) \cup M
  <2>1. fresh \ job.scope \subseteq fresh \ Only(c)
    BY <1>1, <1>2
  <2>2. SetOut(k, job, fresh \ Only(c))
    OBVIOUS
  <2> HIDE DEF job
  <2> QED
    BY <1>1, <1>2, <2>1, <2>2, SetsOut
<1> HIDE DEF job
<1>4. cut' \in Cuts \cup {NoCut}
  BY <1>1
<1>5. DeskTyped' /\ (\A h \in Jobs : JobHolds(h)') /\ (\A h \in Jobs : AloneHolds(h)') /\ DeskTold'
  <2>1. job.scope \in SUBSET Charts /\ {k} \in SUBSET Jobs
    BY <1>1, <1>2
  <2> HIDE DEF M
  <2> QED
    BY <1>3, <1>4, <2>1, BegunKept
<1>6. ASSUME stuck' = FALSE, NEW b \in Configured' \ fresh'
      PROVE  InLoop(b)'
  BY <1>1, <1>3 DEF Same, InLoop, Looping, Configured
<1>7. ASSUME stuck' = FALSE, NEW h \in Jobs, Looping(h)', NEW b \in jobs'[h].scope \ fresh'
      PROVE  /\ IF jobs'[h].cutting THEN jobs'[h].cut = cut' /\ cut' # NoCut ELSE cut' = NoCut
             /\ \A d \in jobs'[h].seen[b].cuts : d[1] = jobs'[h].cut[1]
  <2>1. CASE h = k
    <3>1. /\ jobs'[k].cutting = x /\ jobs'[k].cut = c /\ jobs'[k].seen = configs
          /\ jobs'[k].scope = Configured
      BY <1>1, <1>3 DEF Same
    <3>2. b \in Configured /\ \A i \in Jobs : b \notin jobs[i].scope
      BY <1>1, <1>3, <1>7, <2>1, <3>1
    <3>3. \A d \in configs[b].cuts : d[1] = c[1]
      <4>1. CASE b \in Only(c)
        BY <4>1 DEF Only
      <4>2. CASE b \notin Only(c)
        <5>1. b \notin fresh
          BY <1>3, <1>7, <4>2
        <5>2. configs[b].cuts = {cut} \ {NoCut}
          BY <1>7, <3>2, <5>1 DEF DeskInv, CutsHold, InLoop
        <5> QED
          BY <1>7, <5>2
      <4> QED
        BY <4>1, <4>2
    <3> QED
      BY <2>1, <3>1, <3>3
  <2>2. CASE h # k
    <3>1. Same(jobs'[h], jobs[h])
      BY <1>3, <2>2 DEF Began
    <3>2. b \in jobs[h].scope /\ Looping(h)
      BY <1>7, <3>1 DEF Same, Looping
    <3>3. b \notin Configured
      BY <1>1, <1>3, <1>7, <3>2
    <3>4. b \notin fresh
      BY <1>2, <1>3, <1>7, <3>3
    <3> QED
      BY <3>2, <3>3, <3>4, ScopeThere
  <2> QED
    BY <2>1, <2>2
<1>8. CutsHold'
  <2>1. ~stuck' => stuck' = FALSE
    BY DEF DeskInv
  <2> QED
    BY <1>6, <1>7, <2>1 DEF CutsHold
<1> QED
  BY <1>5, <1>8 DEF DeskInv

LEMMA ClickKept == ASSUME DeskInv, NEW k \in Jobs, NEW c \in Cuts, Click(k, c) PROVE DeskInv'
<1>1. /\ SetOut(k, Loop(TRUE, c), fresh \ Only(c)) /\ UNCHANGED <<configs, results>>
      /\ cut' = c /\ lastSig' = c /\ stuck' = (stuck \/ (cut # NoCut /\ cut[1] # c[1]))
  BY DEF Click
<1>2. c \in Cuts \cup {NoCut} /\ c # NoCut /\ stuck \in BOOLEAN
  BY DeskAssumption DEF DeskInv, DeskTyped
<1>3. stuck' \in BOOLEAN /\ (stuck' = FALSE => stuck = FALSE /\ (cut = NoCut \/ cut[1] = c[1]))
  BY <1>1, <1>2
<1> QED
  BY <1>1, <1>2, <1>3, LoopBegins

\* Where no more is under way, only the cut, or what is left of it, may change.
LEMMA RestKept ==
    ASSUME DeskInv, UNCHANGED <<configs, results, jobs, off, fresh>>,
           cut' \in Cuts \cup {NoCut}, lastSig' \in Cuts \cup {NoCut}, stuck' \in BOOLEAN,
           \/ UNCHANGED <<cut, lastSig, stuck>>
           \/ cut' = NoCut /\ (stuck' = TRUE \/ Configured = {})
    PROVE  DeskInv'
<1>1. DeskTyped' /\ (\A h \in Jobs : JobHolds(h)') /\ (\A h \in Jobs : AloneHolds(h)') /\ DeskTold'
  <2>1. DeskTyped'
    BY DEF DeskInv, DeskTyped
  <2>2. \A h \in Jobs : JobHolds(h)'
    BY DEF DeskInv, JobHolds, Looping
  <2>3. \A h \in Jobs, b \in Charts : Wanted(jobs'[h], b) = Wanted(jobs[h], b)
    OBVIOUS
  <2>4. \A h \in Jobs : AloneHolds(h)'
    BY DEF DeskInv, AloneHolds, Looping
  <2>5. DeskTold'
    BY DEF DeskInv, DeskTold, Looping
  <2> QED
    BY <2>1, <2>2, <2>4, <2>5
<1>2. CASE UNCHANGED <<cut, lastSig, stuck>>
  BY <1>1, <1>2 DEF DeskInv, CutsHold, InLoop, Looping, Configured
<1>3. CASE cut' = NoCut /\ stuck' = TRUE
  BY <1>1, <1>3 DEF DeskInv, CutsHold
<1>4. CASE cut' = NoCut /\ Configured = {}
  <2>1. Configured' = {}
    BY <1>4 DEF Configured
  <2>2. \A h \in Jobs : Looping(h)' => jobs'[h].scope \ fresh' = {}
    BY <1>4, ScopeThere DEF Looping
  <2> QED
    BY <1>1, <1>4, <2>1, <2>2 DEF DeskInv, CutsHold
<1> QED
  BY <1>2, <1>3, <1>4

LEMMA TakeBackKept == ASSUME DeskInv, NEW k \in Jobs, TakeBack(k) PROVE DeskInv'
<1>1. cut # NoCut /\ cut' = NoCut /\ lastSig' = NoCut /\ UNCHANGED <<configs, results>>
  BY DEF TakeBack
<1>2. lastSig = cut /\ lastSig \in Cuts \cup {NoCut} /\ NoCut \in Cuts \cup {NoCut} /\ stuck \in BOOLEAN
  BY <1>1 DEF DeskInv, CutsHold, DeskTyped
<1>3. CASE stuck' = TRUE /\ UNCHANGED <<jobs, off, fresh>>
  BY <1>1, <1>2, <1>3, RestKept
<1>4. CASE Configured = {} /\ UNCHANGED <<jobs, off, fresh, stuck>>
  BY <1>1, <1>2, <1>4, RestKept
<1>5. CASE SetOut(k, Loop(FALSE, lastSig), fresh \ Only(lastSig)) /\ UNCHANGED stuck
  <2>1. FALSE \in BOOLEAN /\ (stuck' = FALSE => stuck = FALSE /\ (cut = NoCut \/ cut[1] = lastSig[1]))
        /\ stuck' \in BOOLEAN
    BY <1>2, <1>5
  <2>2. lastSig' \in Cuts \cup {NoCut} /\ (cut' # NoCut => lastSig' = cut')
    BY <1>1, <1>2
  <2> QED
    BY <1>1, <1>2, <1>5, <2>1, <2>2, LoopBegins
<1> QED
  BY <1>3, <1>4, <1>5 DEF TakeBack

\* One that sets out beside the cut.
LEMMA OtherBegins ==
    ASSUME DeskInv, NEW k \in Jobs, NEW job \in JobRows, SetOut(k, job, fresh), job.at # "loop",
           UNCHANGED <<configs, results>>,
           cut' \in Cuts \cup {NoCut}, lastSig' \in Cuts \cup {NoCut}, stuck' \in BOOLEAN,
           UNCHANGED <<cut, lastSig, stuck>> \/ (cut' = NoCut /\ stuck' = TRUE),
           job.at = "apply" => /\ job.scope = {job.chart} /\ job.config.fields # "absent"
                               /\ job.config.cuts = configs[job.chart].cuts,
           job.at = "refresh" => job.seen = configs,
           job.at = "switch" => job.scope = Charts
    PROVE  DeskInv'
<1> DEFINE M == {b \in job.scope : \E i \in Jobs : b \in jobs[i].scope}
<1>1. fresh \in SUBSET Charts /\ job.scope \in SUBSET Charts
  BY RowTypes DEF DeskInv, DeskTyped
<1>2. Began({k}, job.scope, M) /\ Same(jobs'[k], job) /\ fresh' = fresh \cup M
  <2>1. fresh \ job.scope \subseteq fresh
    OBVIOUS
  <2> QED
    BY <1>1, <2>1, SetsOut
<1>3. DeskTyped' /\ (\A h \in Jobs : JobHolds(h)') /\ (\A h \in Jobs : AloneHolds(h)') /\ DeskTold'
  <2>1. {k} \in SUBSET Jobs /\ {cut', lastSig'} \subseteq Cuts \cup {NoCut}
    OBVIOUS
  <2> HIDE DEF M
  <2> QED
    BY <1>1, <1>2, <2>1, BegunKept
<1>4. ASSUME NEW h \in Jobs
      PROVE  /\ Looping(h)' => Looping(h) /\ Same(jobs'[h], jobs[h])
             /\ Looping(h) => Looping(h)' /\ Same(jobs'[h], jobs[h])
  <2>1. CASE h = k
    BY <1>2, <2>1 DEF Same, Looping, Began
  <2>2. CASE h # k
    BY <1>2, <2>2 DEF Same, Looping, Began
  <2> QED
    BY <2>1, <2>2
<1> HIDE DEF M
<1>5. CutsHold'
  <2>1. CASE cut' = NoCut /\ stuck' = TRUE
    BY <2>1 DEF CutsHold
  <2>2. CASE UNCHANGED <<cut, lastSig, stuck>>
    <3>1. \A b : InLoop(b)' <=> InLoop(b)
      BY <1>4 DEF InLoop, Same
    <3>2. fresh \subseteq fresh'
      BY <1>2
    <3>3. ~stuck' => \A b \in Configured' \ fresh' : InLoop(b)' \/ configs'[b].cuts = {cut'} \ {NoCut}
      BY <2>2, <3>1, <3>2 DEF DeskInv, CutsHold, Configured
    <3>4. ASSUME ~stuck', NEW h \in Jobs, Looping(h)', NEW b \in jobs'[h].scope \ fresh'
          PROVE  /\ IF jobs'[h].cutting THEN jobs'[h].cut = cut' /\ cut' # NoCut ELSE cut' = NoCut
                 /\ \A d \in jobs'[h].seen[b].cuts : d[1] = jobs'[h].cut[1]
      <4>1. /\ Looping(h) /\ b \in jobs[h].scope \ fresh /\ jobs'[h].cutting = jobs[h].cutting
            /\ jobs'[h].cut = jobs[h].cut /\ jobs'[h].seen = jobs[h].seen
        BY <1>4, <3>2, <3>4 DEF Same, Looping
      <4>2. /\ IF jobs[h].cutting THEN jobs[h].cut = cut /\ cut # NoCut ELSE cut = NoCut
            /\ \A d \in jobs[h].seen[b].cuts : d[1] = jobs[h].cut[1]
        BY <2>2, <3>4, <4>1 DEF DeskInv, CutsHold
      <4> QED
        BY <2>2, <4>1, <4>2
    <3>5. cut' # NoCut => lastSig' = cut'
      BY <2>2 DEF DeskInv, CutsHold
    <3> QED
      BY <3>3, <3>4, <3>5 DEF CutsHold
  <2> QED
    BY <2>1, <2>2
<1> QED
  BY <1>3, <1>5 DEF DeskInv

LEMMA ApplyKept == ASSUME DeskInv, NEW k \in Jobs, NEW b \in Charts, NEW f \in Fields, Apply(k, b, f) PROVE DeskInv'
<1> DEFINE setting == [fields |-> f, cuts |-> configs[b].cuts]
           job == [at |-> "apply", scope |-> {b}, alone |-> {}, chart |-> b, config |-> setting]
<1>1. SetOut(k, job, fresh) /\ UNCHANGED <<configs, results, cut, lastSig, stuck>>
  BY DEF Apply
<1>2. f # "absent" /\ configs[b] \in Sets
  BY DeskAssumption DEF DeskInv, DeskTyped
<1>3. setting \in Sets /\ setting.fields = f /\ setting.cuts = configs[b].cuts
  BY <1>2 DEF Sets
<1> HIDE DEF setting
<1>4. /\ job \in JobRows /\ job.at = "apply" /\ job.scope = {b} /\ job.chart = b /\ job.config = setting
  BY <1>3 DEF JobRows, Applications
<1>5. cut' \in Cuts \cup {NoCut} /\ lastSig' \in Cuts \cup {NoCut} /\ stuck' \in BOOLEAN
  BY <1>1 DEF DeskInv, DeskTyped
<1> HIDE DEF job
<1> QED
  BY <1>1, <1>2, <1>3, <1>4, <1>5, OtherBegins

LEMMA SwitchKept == ASSUME DeskInv, NEW k \in Jobs, Switch(k) PROVE DeskInv'
<1> DEFINE job == [at |-> "switch", scope |-> Charts, alone |-> {}, seen |-> configs]
<1>1. SetOut(k, job, fresh) /\ UNCHANGED <<configs, results, cut, lastSig, stuck>>
  BY DEF Switch
<1>2. configs \in [Charts -> Sets] /\ cut \in Cuts \cup {NoCut} /\ lastSig \in Cuts \cup {NoCut} /\ stuck \in BOOLEAN
  BY DEF DeskInv, DeskTyped
<1>3. job \in JobRows /\ job.at = "switch" /\ job.scope = Charts
  BY <1>2 DEF JobRows, Sweeps
<1> HIDE DEF job
<1> QED
  BY <1>1, <1>2, <1>3, OtherBegins

LEMMA RefreshRow ==
    ASSUME DeskTyped
    PROVE  /\ Refreshing \in JobRows /\ Refreshing.at = "refresh" /\ Refreshing.scope = Configured
           /\ Refreshing.seen = configs
<1>1. Configured \in SUBSET Charts /\ configs \in [Charts -> Sets]
  BY DEF Configured, DeskTyped
<1> HIDE DEF Configured
<1>2. Refreshing \in Sweeps
  BY <1>1 DEF Refreshing, Sweeps
<1> QED
  BY <1>2 DEF Refreshing, JobRows

LEMMA RefreshKept == ASSUME DeskInv, NEW k \in Jobs, Refresh(k) PROVE DeskInv'
<1>1. SetOut(k, Refreshing, fresh) /\ UNCHANGED <<configs, results, cut, lastSig, stuck>>
  BY DEF Refresh
<1>2. cut \in Cuts \cup {NoCut} /\ lastSig \in Cuts \cup {NoCut} /\ stuck \in BOOLEAN
  BY DEF DeskInv, DeskTyped
<1>3. Refreshing \in JobRows /\ Refreshing.at = "refresh" /\ Refreshing.seen = configs
  BY RefreshRow DEF DeskInv
<1> QED
  BY <1>1, <1>2, <1>3, OtherBegins

\* The cut is taken back and a refresh begins: both have every chart.
LEMMA BothBegin ==
    ASSUME DeskInv, NEW k \in Jobs, NEW i \in Jobs, i # k, jobs[k].at = "idle", jobs[i].at = "idle",
           NEW c \in Cuts \cup {NoCut},
           jobs' = Meeting(i, Loop(FALSE, c), Meeting(k, Refreshing, jobs)),
           off' = off \cup Configured, fresh' = fresh \cup Configured, UNCHANGED <<configs, results, stuck>>,
           cut' = NoCut, lastSig' \in Cuts \cup {NoCut}
    PROVE  DeskInv'
<1> DEFINE S == Configured
           job == Loop(FALSE, c)
           first == Meeting(k, Refreshing, jobs)
           A == {b \in job.scope : \A h \in Jobs \ {i} : b \notin first[h].scope}
           B == {b \in Refreshing.scope : \A h \in Jobs \ {k} : b \notin jobs[h].scope}
<1>1. S \in SUBSET Charts /\ jobs \in [Jobs -> JobRows] /\ fresh \in SUBSET Charts /\ DeskTyped
  BY DEF DeskInv, DeskTyped, Configured
<1>2. /\ job \in JobRows /\ job.at = "loop" /\ job.scope = S /\ job.asking = {} /\ job.seen = configs
  <2>1. FALSE \in BOOLEAN
    OBVIOUS
  <2> QED
    BY <1>1, <2>1, LoopRow
<1>3. Refreshing \in JobRows /\ Refreshing.at = "refresh" /\ Refreshing.scope = S /\ Refreshing.seen = configs
  BY <1>1, RefreshRow
<1>4. /\ first[k] = [Refreshing EXCEPT !.alone = B]
      /\ \A h \in Jobs \ {k} : first[h] = [jobs[h] EXCEPT !.alone = jobs[h].alone \ S]
  BY <1>3 DEF Meeting
<1>5. /\ DOMAIN jobs' = Jobs /\ jobs'[i] = [job EXCEPT !.alone = A]
      /\ \A h \in Jobs \ {i} : jobs'[h] = [first[h] EXCEPT !.alone = first[h].alone \ S]
      /\ jobs' = [h \in Jobs |-> jobs'[h]]
  BY <1>2 DEF Meeting
<1>6. B \in SUBSET Charts /\ A \in SUBSET Charts
  BY <1>1, <1>2, <1>3
<1> HIDE DEF S, job, first, A, B, Refreshing
<1>7. first[k] \in JobRows /\ Same(first[k], Refreshing) /\ first[k].alone \in SUBSET Charts
  BY <1>3, <1>4, <1>6, AloneChanges
<1>8. ASSUME NEW h \in Jobs \ {k}
      PROVE  first[h] \in JobRows /\ Same(first[h], jobs[h]) /\ first[h].alone = jobs[h].alone \ S
  <2>1. jobs[h] \in JobRows /\ jobs[h].alone \ S \in SUBSET Charts
    BY <1>1, RowTypes
  <2>2. first[h] = [jobs[h] EXCEPT !.alone = jobs[h].alone \ S]
    BY <1>4
  <2> QED
    BY <2>1, <2>2, AloneChanges
<1>9. /\ jobs'[i] \in JobRows /\ Same(jobs'[i], job) /\ jobs'[i].alone = {}
  <2>1. A = {}
    <3>1. first[k].scope = S
      BY <1>3, <1>7 DEF Same
    <3> QED
      BY <1>2, <3>1 DEF A
  <2>2. jobs'[i] = [job EXCEPT !.alone = A]
    BY <1>5
  <2>3. [job EXCEPT !.alone = A] \in JobRows /\ Same([job EXCEPT !.alone = A], job)
        /\ [job EXCEPT !.alone = A].alone = A
    BY <1>2, <1>6, AloneChanges
  <2> QED
    BY <2>1, <2>2, <2>3
<1>10. ASSUME NEW h \in Jobs \ {i}
       PROVE  jobs'[h] \in JobRows /\ Same(jobs'[h], first[h]) /\ jobs'[h].alone = first[h].alone \ S
  <2> DEFINE x == first[h]
             Y == x.alone \ S
  <2>1. x \in JobRows
    BY <1>7, <1>8
  <2>2. Y \in SUBSET Charts
    BY <2>1, RowTypes
  <2>3. jobs'[h] = [x EXCEPT !.alone = Y]
    BY <1>5
  <2> HIDE DEF x, Y
  <2>4. /\ [x EXCEPT !.alone = Y] \in JobRows /\ Same([x EXCEPT !.alone = Y], x)
        /\ [x EXCEPT !.alone = Y].alone = Y
    BY <2>1, <2>2, AloneChanges
  <2>5. jobs'[h] \in JobRows /\ Same(jobs'[h], x) /\ jobs'[h].alone = Y
    BY <2>3, <2>4
  <2> QED
    BY <2>5 DEF x, Y
<1>11. /\ jobs'[k] \in JobRows /\ Same(jobs'[k], Refreshing) /\ jobs'[k].alone = {}
  <2>1. jobs'[k].alone = first[k].alone \ S /\ Same(jobs'[k], first[k]) /\ jobs'[k] \in JobRows
    BY <1>10
  <2>2. first[k].alone \subseteq S
    BY <1>3, <1>4, <1>6, AloneChanges DEF B
  <2> QED
    BY <1>7, <2>1, <2>2 DEF Same
<1>12. ASSUME NEW h \in Jobs \ {i, k}
       PROVE  jobs'[h] \in JobRows /\ Same(jobs'[h], jobs[h]) /\ jobs'[h].alone = jobs[h].alone \ S
  <2>1. first[h] \in JobRows /\ Same(first[h], jobs[h]) /\ first[h].alone = jobs[h].alone \ S
    BY <1>8
  <2>2. jobs'[h] \in JobRows /\ Same(jobs'[h], first[h]) /\ jobs'[h].alone = first[h].alone \ S
    BY <1>10
  <2>3. Same(jobs'[h], jobs[h])
    BY <2>1, <2>2 DEF Same
  <2> QED
    BY <2>1, <2>2, <2>3
<1>13. jobs' \in [Jobs -> JobRows]
  BY <1>5, <1>9, <1>11, <1>12
<1>14. Began({i, k}, S, S)
  <2>1. ASSUME NEW h \in {i, k}
        PROVE  /\ jobs'[h].scope \subseteq S
               /\ \A b \in jobs'[h].alone, o \in Jobs \ {h} : b \notin jobs'[o].scope
               /\ \A b \in jobs'[h].scope \ jobs'[h].alone : b \in S
               /\ jobs'[h].at = "loop" =>
                     jobs'[h].asking = {} /\ jobs'[h].seen = configs /\ jobs'[h].scope \subseteq Configured
               /\ jobs'[h].at = "apply" => /\ jobs'[h].scope = {jobs'[h].chart}
                                           /\ jobs'[h].config.fields # "absent"
                                           /\ jobs'[h].config.cuts = configs[jobs'[h].chart].cuts
               /\ jobs'[h].at = "refresh" => jobs'[h].seen = configs
               /\ jobs'[h].at = "switch" => jobs'[h].scope = Charts
               /\ jobs[h].at = "idle"
    <3>1. CASE h = i
      BY <1>2, <1>9, <3>1 DEF Same, S
    <3>2. CASE h = k
      BY <1>3, <1>11, <3>2 DEF Same
    <3> QED
      BY <3>1, <3>2
  <2>2. /\ \A h \in Jobs \ {i, k} : Same(jobs'[h], jobs[h]) /\ jobs'[h].alone = jobs[h].alone \ S
        /\ \A h \in Jobs \ {i, k} : \A b \in jobs[h].scope \cap S : b \in S
    BY <1>12
  <2>3. off' = off \cup S /\ fresh \ S \subseteq fresh' /\ S \subseteq fresh' /\ S \subseteq Charts /\ fresh' \subseteq Charts
    BY <1>1 DEF S
  <2> QED
    BY <1>13, <2>1, <2>2, <2>3 DEF Began
<1>15. DeskTyped' /\ (\A h \in Jobs : JobHolds(h)') /\ (\A h \in Jobs : AloneHolds(h)') /\ DeskTold'
  <2>1. {i, k} \in SUBSET Jobs /\ {cut', lastSig'} \subseteq Cuts \cup {NoCut} /\ stuck' \in BOOLEAN
    BY DEF DeskInv, DeskTyped
  <2> QED
    BY <1>1, <1>14, <2>1, BegunKept
<1>16. CutsHold'
  <2>1. Configured' = S /\ S \subseteq fresh' /\ fresh \subseteq fresh'
    BY DEF Configured, S
  <2>2. ASSUME NEW h \in Jobs, Looping(h)', NEW b \in jobs'[h].scope \ fresh' PROVE FALSE
    <3>1. CASE h \in {i, k}
      BY <1>14, <2>1, <2>2, <3>1 DEF Began
    <3>2. CASE h \notin {i, k}
      <4>1. Looping(h) /\ b \in jobs[h].scope \ fresh
        BY <1>12, <2>1, <2>2, <3>2 DEF Same, Looping
      <4> QED
        BY <2>1, <2>2, <4>1, ScopeThere DEF S
    <3> QED
      BY <3>1, <3>2
  <2> QED
    BY <2>1, <2>2 DEF CutsHold
<1> QED
  BY <1>15, <1>16 DEF DeskInv

LEMMA RefreshCutKept == ASSUME DeskInv, NEW k \in Jobs, NEW i \in Jobs, RefreshCut(k, i) PROVE DeskInv'
<1>1. /\ i # k /\ jobs[k].at = "idle" /\ jobs[i].at = "idle" /\ UNCHANGED <<configs, results>>
      /\ cut' = NoCut /\ lastSig' = NoCut
  BY DEF RefreshCut
<1>2. cut' \in Cuts \cup {NoCut} /\ lastSig' \in Cuts \cup {NoCut} /\ lastSig \in Cuts \cup {NoCut}
  BY <1>1 DEF DeskInv, DeskTyped
<1>3. CASE stuck' = TRUE /\ SetOut(k, Refreshing, fresh)
  <2>1. /\ Refreshing \in JobRows /\ Refreshing.at = "refresh" /\ Refreshing.scope = Configured
        /\ Refreshing.seen = configs
    BY RefreshRow DEF DeskInv
  <2>2. stuck' \in BOOLEAN
    BY <1>3
  <2> HIDE DEF Refreshing
  <2> QED
    BY <1>1, <1>2, <1>3, <2>1, <2>2, OtherBegins
<1>4. CASE /\ jobs' = Meeting(i, Loop(FALSE, lastSig), Meeting(k, Refreshing, jobs))
           /\ off' = off \cup Configured /\ fresh' = fresh \cup Configured /\ UNCHANGED stuck
  BY <1>1, <1>2, <1>4, BothBegin
<1> QED
  BY <1>3, <1>4 DEF RefreshCut

-----------------------------------------------------------------------------
(* What goes on, and what ends. *)

\* One goes on: it touches the charts it has, and the others keep what they know.
On(k, r) ==
    /\ jobs' = [jobs EXCEPT ![k] = r] /\ r.scope \subseteq jobs[k].scope /\ r.alone \subseteq jobs[k].alone
    /\ r.scope \ r.alone \subseteq jobs[k].scope \ jobs[k].alone
    /\ configs' \in [Charts -> Sets] /\ results' \in [Charts -> Sets]
    /\ \A b \in Charts \ jobs[k].scope : configs'[b] = configs[b]
    /\ \A b \in Charts : configs'[b].fields = "absent" => configs'[b] = NotThere
    /\ off' \subseteq Charts /\ off \ jobs[k].alone \subseteq off'
    /\ fresh' \subseteq Charts /\ fresh \subseteq fresh' /\ UNCHANGED <<cut, lastSig, stuck>>
    /\ r.at # "idle" =>
          /\ r.at = "loop" /\ Looping(k) /\ r.cutting = jobs[k].cutting /\ r.cut = jobs[k].cut
          /\ r.seen = jobs[k].seen /\ (r.asking = {} \/ \E b \in r.scope : r.asking = {b})
          /\ \A b \in r.scope \cap r.alone :
                configs'[b] = IF b \in r.asking THEN Wanted(r, b) ELSE r.seen[b]
    /\ \A b \in Charts \ off' :
          \/ /\ b \notin off /\ results'[b] = results[b] /\ configs'[b] = configs[b]
             /\ Looping(k) => b \notin jobs[k].asking
          \/ results'[b] \in {NotThere, configs'[b]}
          \/ r.at = "loop" /\ b \in r.asking
    /\ stuck = FALSE => \A b \in Configured' \ fresh' :
          \/ b \in Configured /\ configs'[b].cuts = configs[b].cuts /\ (Looping(k) => b \notin jobs[k].scope)
          \/ r.at = "loop" /\ b \in r.scope
          \/ configs'[b].cuts = {cut} \ {NoCut}

LEMMA WorkKept == ASSUME DeskInv, NEW k \in Jobs, NEW r \in JobRows, On(k, r) PROVE DeskInv'
<1> USE DEF On
<1>1. /\ jobs' \in [Jobs -> JobRows] /\ jobs'[k] = r /\ \A h \in Jobs \ {k} : jobs'[h] = jobs[h]
  BY DEF DeskInv, DeskTyped
<1>2. DeskTyped'
  BY <1>1 DEF DeskInv, DeskTyped
<1>3. ASSUME NEW h \in Jobs PROVE JobHolds(h)'
  <2>1. CASE h = k
    BY <1>1, <2>1 DEF DeskInv, JobHolds, Looping
  <2>2. CASE h # k
    BY <1>1, <2>2 DEF DeskInv, JobHolds, Looping
  <2> QED
    BY <2>1, <2>2
<1>4. ASSUME NEW h \in Jobs PROVE AloneHolds(h)'
  <2>0. AloneHolds(h) /\ AloneHolds(k)
    BY DEF DeskInv
  <2>1. CASE h = k
    <3>1. \A b \in r.alone, o \in Jobs \ {k} : b \notin jobs'[o].scope
      BY <1>1, <2>0 DEF AloneHolds
    <3>2. \A b \in r.scope \ r.alone : b \in off' /\ b \in fresh'
      BY <2>0 DEF AloneHolds
    <3>3. \A b \in r.scope \cap r.alone :
             /\ r.at = "loop" => configs'[b] = IF b \in r.asking THEN Wanted(r, b) ELSE r.seen[b]
             /\ r.at = "refresh" => configs'[b] = r.seen[b]
             /\ r.at = "apply" => r.config.cuts = configs'[b].cuts
      OBVIOUS
    <3> QED
      BY <1>1, <2>1, <3>1, <3>2, <3>3 DEF AloneHolds, Looping
  <2>2. CASE h # k
    <3>0. jobs'[h] = jobs[h] /\ jobs[h].alone \subseteq Charts
      BY <1>1, <2>2, RowTypes DEF DeskInv, DeskTyped
    <3>1. \A b \in jobs[h].alone, o \in Jobs \ {h} : b \notin jobs'[o].scope
      <4> SUFFICES ASSUME NEW b \in jobs[h].alone, NEW o \in Jobs \ {h} PROVE b \notin jobs'[o].scope
        OBVIOUS
      <4>1. b \notin jobs[o].scope
        BY <2>0 DEF AloneHolds
      <4> QED
        BY <1>1, <4>1
    <3>2. \A b \in jobs[h].scope \ jobs[h].alone : b \in off' /\ b \in fresh'
      BY <2>0, <2>2 DEF AloneHolds
    <3>3. ASSUME NEW b \in jobs[h].scope \cap jobs[h].alone PROVE configs'[b] = configs[b]
      BY <2>0, <2>2, <3>0 DEF AloneHolds
    <3>4. \A b \in jobs[h].scope \cap jobs[h].alone :
             /\ Looping(h) => configs'[b] = IF b \in jobs[h].asking THEN Wanted(jobs[h], b) ELSE jobs[h].seen[b]
             /\ jobs[h].at = "refresh" => configs'[b] = jobs[h].seen[b]
             /\ jobs[h].at = "apply" => jobs[h].config.cuts = configs'[b].cuts
      BY <2>0, <3>3 DEF AloneHolds
    <3> QED
      BY <3>0, <3>1, <3>2, <3>4 DEF AloneHolds, Looping
  <2> QED
    BY <2>1, <2>2
<1>5. DeskTold'
  <2> SUFFICES ASSUME NEW b \in Charts \ off'
               PROVE  results'[b] \in {NotThere, configs'[b]} \/ \E h \in Jobs : Looping(h)' /\ b \in jobs'[h].asking
    BY DEF DeskTold
  <2>1. CASE /\ b \notin off /\ results'[b] = results[b] /\ configs'[b] = configs[b]
             /\ Looping(k) => b \notin jobs[k].asking
    <3>1. results[b] \in {NotThere, configs[b]} \/ \E h \in Jobs \ {k} : Looping(h) /\ b \in jobs[h].asking
      BY <2>1 DEF DeskInv, DeskTold
    <3> QED
      BY <1>1, <2>1, <3>1 DEF Looping
  <2>2. CASE r.at = "loop" /\ b \in r.asking
    BY <1>1, <2>2 DEF Looping
  <2> QED
    BY <2>1, <2>2
<1>6. CutsHold'
  <2>1. stuck \in BOOLEAN
    BY DEF DeskInv, DeskTyped
  <2>2. ASSUME stuck = FALSE, NEW b \in Configured' \ fresh'
        PROVE  InLoop(b)' \/ configs'[b].cuts = {cut} \ {NoCut}
    <3>1. CASE b \in Configured /\ configs'[b].cuts = configs[b].cuts /\ (Looping(k) => b \notin jobs[k].scope)
      <4>1. InLoop(b) \/ configs[b].cuts = {cut} \ {NoCut}
        BY <2>2, <3>1 DEF DeskInv, CutsHold
      <4>2. ASSUME NEW h \in Jobs, Looping(h), b \in jobs[h].scope PROVE InLoop(b)'
        BY <1>1, <3>1, <4>2 DEF InLoop, Looping
      <4> QED
        BY <3>1, <4>1, <4>2 DEF InLoop
    <3>2. CASE r.at = "loop" /\ b \in r.scope
      BY <1>1, <3>2 DEF InLoop, Looping
    <3> QED
      BY <2>2, <3>1, <3>2
  <2>3. ASSUME stuck = FALSE, NEW h \in Jobs, Looping(h)', NEW b \in jobs'[h].scope \ fresh'
        PROVE  /\ IF jobs'[h].cutting THEN jobs'[h].cut = cut /\ cut # NoCut ELSE cut = NoCut
               /\ \A d \in jobs'[h].seen[b].cuts : d[1] = jobs'[h].cut[1]
    <3>1. /\ Looping(h) /\ jobs'[h].cutting = jobs[h].cutting /\ jobs'[h].cut = jobs[h].cut
          /\ jobs'[h].seen = jobs[h].seen /\ b \in jobs[h].scope \ fresh
      <4>1. CASE h = k
        BY <1>1, <2>3, <4>1 DEF Looping
      <4>2. CASE h # k
        BY <1>1, <2>3, <4>2 DEF Looping
      <4> QED
        BY <4>1, <4>2
    <3>2. /\ IF jobs[h].cutting THEN jobs[h].cut = cut /\ cut # NoCut ELSE cut = NoCut
          /\ \A d \in jobs[h].seen[b].cuts : d[1] = jobs[h].cut[1]
      BY <2>3, <3>1 DEF DeskInv, CutsHold
    <3> QED
      BY <3>1, <3>2
  <2>4. cut' # NoCut => lastSig' = cut'
    BY DEF DeskInv, CutsHold
  <2>5. UNCHANGED <<cut, lastSig, stuck>>
    OBVIOUS
  <2> HIDE DEF On
  <2>6. CASE stuck = TRUE
    BY <2>4, <2>5, <2>6 DEF CutsHold
  <2>7. CASE stuck = FALSE
    BY <2>2, <2>3, <2>4, <2>5, <2>7 DEF CutsHold
  <2> QED
    BY <2>1, <2>6, <2>7
<1> QED
  BY <1>2, <1>3, <1>4, <1>5, <1>6 DEF DeskInv

LEMMA NoJobRow == NoJob \in JobRows /\ NoJob.at = "idle" /\ NoJob.scope = {} /\ NoJob.alone = {}
BY DEF NoJob, JobRows, Idlers

LEMMA SpecialRows == NotThere \in Sets /\ ToChoose \in Sets /\ NotThere.fields = "absent" /\ ToChoose.fields = "blank"
BY DEF NotThere, ToChoose, Sets

LEMMA DeskFailureKept == ASSUME DeskInv, NEW k \in Jobs, JobFails(k) PROVE DeskInv'
<1>1. /\ jobs' = [jobs EXCEPT ![k] = NoJob] /\ jobs[k].at \in {"apply", "switch"}
      /\ UNCHANGED <<configs, results, cut, lastSig, off, fresh, stuck>>
  BY DEF JobFails, Ended, Goes
<1>2. /\ configs \in [Charts -> Sets] /\ results \in [Charts -> Sets] /\ off \subseteq Charts /\ fresh \subseteq Charts
      /\ \A b \in Charts : configs[b].fields = "absent" => configs[b] = NotThere
  BY DEF DeskInv, DeskTyped
<1>3. ~Looping(k) /\ Configured' = Configured /\ Configured \subseteq Charts
  BY <1>1 DEF Looping, Configured
<1>o. On(k, NoJob)
  BY <1>1, <1>2, <1>3, NoJobRow DEF On
<1> QED
  BY <1>o, NoJobRow, WorkKept

LEMMA ApplyAnswerKept == ASSUME DeskInv, NEW k \in Jobs, ApplyAnswer(k) PROVE DeskInv'
<1> DEFINE j == jobs[k]
           b == j.chart
<1>1. j \in Applications /\ j.at = "apply" /\ j.scope = {b} /\ j.config.fields # "absent"
  BY RowTypes DEF ApplyAnswer, DeskInv, DeskTyped, JobHolds
<1>2. b \in Charts /\ j.config \in Sets
  BY <1>1 DEF Applications
<1>3. /\ jobs' = [jobs EXCEPT ![k] = NoJob] /\ off' = off \ ({b} \cap j.alone)
      /\ results' = [results EXCEPT ![b] = j.config] /\ configs' = [configs EXCEPT ![b] = j.config]
      /\ fresh' = IF configs[b] = NotThere THEN fresh \cup {b} ELSE fresh
      /\ UNCHANGED <<cut, lastSig, stuck>>
  BY <1>1 DEF ApplyAnswer, Ended, Goes, Right
<1>4. /\ configs \in [Charts -> Sets] /\ results \in [Charts -> Sets] /\ off \subseteq Charts /\ fresh \subseteq Charts
      /\ \A x \in Charts : configs[x].fields = "absent" => configs[x] = NotThere
  BY DEF DeskInv, DeskTyped
<1>5. AloneHolds(k) /\ ~Looping(k)
  BY <1>1 DEF DeskInv, Looping
<1> HIDE DEF b
<1>6. /\ configs' \in [Charts -> Sets] /\ results' \in [Charts -> Sets]
      /\ configs'[b] = j.config /\ results'[b] = j.config
      /\ \A x \in Charts \ {b} : configs'[x] = configs[x] /\ results'[x] = results[x]
  BY <1>2, <1>3, <1>4
<1>7. \A x \in Configured' \ fresh' : x \in Configured /\ configs'[x].cuts = configs[x].cuts
  <2> SUFFICES ASSUME NEW x \in Configured' \ fresh'
               PROVE  x \in Configured /\ configs'[x].cuts = configs[x].cuts
    OBVIOUS
  <2>1. x \in Charts /\ configs'[x] # NotThere
    BY DEF Configured
  <2>2. CASE x = b
    <3>1. configs[b] # NotThere /\ b \notin fresh
      BY <1>3, <2>2
    <3>2. b \in j.alone /\ j.config.cuts = configs[b].cuts
      BY <1>1, <1>5, <3>1 DEF AloneHolds
    <3> QED
      BY <1>6, <2>1, <2>2, <3>1, <3>2 DEF Configured
  <2>3. CASE x # b
    BY <1>6, <2>1, <2>3 DEF Configured
  <2> QED
    BY <2>2, <2>3
<1>8. /\ \A x \in Charts : configs'[x].fields = "absent" => configs'[x] = NotThere
      /\ off' \subseteq Charts /\ off \ j.alone \subseteq off' /\ fresh' \subseteq Charts /\ fresh \subseteq fresh'
      /\ \A x \in Charts \ j.scope : configs'[x] = configs[x]
  BY <1>1, <1>2, <1>3, <1>4, <1>6
<1>9. \A x \in Charts \ off' :
         \/ x \notin off /\ results'[x] = results[x] /\ configs'[x] = configs[x]
         \/ results'[x] \in {NotThere, configs'[x]}
  BY <1>3, <1>6
<1>10. jobs' = [jobs EXCEPT ![k] = NoJob] /\ UNCHANGED <<cut, lastSig, stuck>>
  BY <1>3
<1>11. configs' \in [Charts -> Sets] /\ results' \in [Charts -> Sets] /\ ~Looping(k)
  BY <1>5, <1>6
<1>o. On(k, NoJob)
  BY <1>7, <1>8, <1>9, <1>10, <1>11, NoJobRow DEF On
<1> QED
  BY <1>o, NoJobRow, WorkKept

LEMMA RefreshAnswerKept ==
    ASSUME DeskInv, NEW k \in Jobs, NEW failed \in SUBSET Charts, RefreshAnswer(k, failed)
    PROVE  DeskInv'
<1> DEFINE j == jobs[k]
           answered == {b \in j.scope \ failed : j.seen[b].fields # "blank"}
<1>1. j \in Sweeps /\ j.at = "refresh" /\ j.scope \subseteq Charts
  BY RowTypes DEF RefreshAnswer, DeskInv, DeskTyped
<1>2. /\ jobs' = [jobs EXCEPT ![k] = NoJob] /\ off' = off \ (answered \cap j.alone)
      /\ results' = [b \in Charts |-> IF b \in answered THEN j.seen[b] ELSE results[b]]
      /\ UNCHANGED <<configs, cut, lastSig, fresh, stuck>>
  BY DEF RefreshAnswer, Ended, Goes, Right
<1>3. /\ configs \in [Charts -> Sets] /\ results \in [Charts -> Sets] /\ off \subseteq Charts /\ fresh \subseteq Charts
      /\ \A x \in Charts : configs[x].fields = "absent" => configs[x] = NotThere
      /\ j.seen \in [Charts -> Sets]
  BY <1>1 DEF DeskInv, DeskTyped, Sweeps
<1>4. AloneHolds(k) /\ ~Looping(k) /\ answered \subseteq j.scope
  BY <1>1 DEF DeskInv, Looping
<1> HIDE DEF answered
<1>5. results' \in [Charts -> Sets] /\ \A x \in Charts : results'[x] = IF x \in answered THEN j.seen[x] ELSE results[x]
  BY <1>2, <1>3
<1>6. ASSUME NEW x \in Charts \ off'
      PROVE  (x \notin off /\ results'[x] = results[x]) \/ results'[x] = configs[x]
  <2>1. CASE x \in answered
    <3>1. x \in j.alone
      BY <1>2, <1>4, <1>6, <2>1 DEF AloneHolds
    <3> QED
      BY <1>1, <1>4, <1>5, <2>1, <3>1 DEF AloneHolds
  <2>2. CASE x \notin answered
    BY <1>2, <1>5, <1>6, <2>2
  <2> QED
    BY <2>1, <2>2
<1>7. off' \subseteq Charts /\ off \ j.alone \subseteq off' /\ Configured' = Configured /\ Configured \subseteq Charts
  BY <1>2, <1>3 DEF Configured
<1>o. On(k, NoJob)
  BY <1>2, <1>3, <1>4, <1>5, <1>6, <1>7, NoJobRow DEF On
<1> QED
  BY <1>o, NoJobRow, WorkKept

LEMMA SwitchAnswerKept == ASSUME DeskInv, NEW k \in Jobs, SwitchAnswer(k) PROVE DeskInv'
<1> DEFINE j == jobs[k]
<1>1. j.at = "switch" /\ j.scope = Charts /\ ~Looping(k)
  BY DEF SwitchAnswer, DeskInv, JobHolds, Looping
<1>2. /\ jobs' = [jobs EXCEPT ![k] = NoJob] /\ off' = off \ (Charts \cap j.alone) /\ fresh' = Charts
      /\ configs' = [b \in Charts |-> IF j.seen[b] = NotThere THEN NotThere ELSE ToChoose]
      /\ results' = [b \in Charts |-> NotThere] /\ UNCHANGED <<cut, lastSig, stuck>>
  BY DEF SwitchAnswer, Ended, Goes, Right, Remapped
<1>3. off \subseteq Charts /\ fresh \subseteq Charts
  BY DEF DeskInv, DeskTyped
<1>4. /\ configs' \in [Charts -> Sets] /\ results' \in [Charts -> Sets]
      /\ \A x \in Charts : configs'[x].fields = "absent" => configs'[x] = NotThere
      /\ \A x \in Charts : results'[x] = NotThere
  BY <1>2, SpecialRows
<1>5. Configured' \ fresh' = {}
  BY <1>2 DEF Configured
<1>6. off' \subseteq Charts /\ off \ j.alone \subseteq off'
  BY <1>2, <1>3
<1>o. On(k, NoJob)
  BY <1>1, <1>2, <1>3, <1>4, <1>5, <1>6, NoJobRow DEF On
<1> QED
  BY <1>o, NoJobRow, WorkKept

LEMMA LoopNarrows ==
    ASSUME NEW j \in Loops, NEW S
    PROVE  [j EXCEPT !.scope = S] = [j EXCEPT !.scope = S, !.asking = j.asking]
           /\ [j EXCEPT !.asking = S] = [j EXCEPT !.scope = j.scope, !.asking = S]
BY DEF Loops

LEMMA LoopJob ==
    ASSUME DeskInv, NEW k \in Jobs, Looping(k)
    PROVE  /\ jobs[k] \in Loops /\ jobs[k].scope \subseteq Charts /\ jobs[k].alone \subseteq Charts
           /\ jobs[k].cutting \in BOOLEAN /\ AloneHolds(k) /\ JobHolds(k)
<1>1. jobs[k] \in JobRows /\ AloneHolds(k) /\ JobHolds(k)
  BY DEF DeskInv, DeskTyped
<1>2. jobs[k] \in Loops
  BY <1>1, RowTypes DEF Looping
<1> QED
  BY <1>1, <1>2 DEF Loops

\* What is wanted is put down, and is asked for or not.
LEMMA ConfigureKept ==
    ASSUME DeskInv, NEW k \in Jobs, NEW b \in Charts, Configure(k, b)
    PROVE  DeskInv'
<1> DEFINE j == jobs[k]
           w == Wanted(j, b)
<1>1. /\ Looping(k) /\ j.asking = {} /\ b \in j.scope /\ configs' = [configs EXCEPT ![b] = w]
      /\ UNCHANGED <<results, cut, lastSig, off, fresh, stuck>>
  BY DEF Configure, Looping
<1>2. /\ j \in Loops /\ j.scope \subseteq Charts /\ j.alone \subseteq Charts /\ j.cutting \in BOOLEAN
      /\ AloneHolds(k) /\ JobHolds(k)
  BY <1>1, LoopJob
<1>3. /\ configs \in [Charts -> Sets] /\ results \in [Charts -> Sets] /\ off \subseteq Charts /\ fresh \subseteq Charts
      /\ \A x \in Charts : configs[x].fields = "absent" => configs[x] = NotThere
      /\ stuck \in BOOLEAN
  BY DEF DeskInv, DeskTyped
<1>4. w \in Sets /\ w.fields # "absent"
  BY <1>1, <1>2, DeskWantedRow DEF JobHolds
<1>w. stuck = FALSE /\ b \notin fresh => w.cuts = {cut} \ {NoCut}
  BY <1>1, WantedCuts
<1>a. b \in j.alone => configs[b] = j.seen[b]
  BY <1>1, <1>2 DEF AloneHolds
<1>n. ~j.cutting /\ ~(\E d \in j.seen[b].cuts : d[1] = j.cut[1]) => w = j.seen[b]
  BY <1>2, WantedSeen
<1>g. \/ jobs' = [jobs EXCEPT ![k] = [j EXCEPT !.asking = {b}]]
      \/ /\ ~j.cutting /\ ~(\E d \in j.seen[b].cuts : d[1] = j.cut[1])
         /\ \/ j.scope \ {b} = {} /\ jobs' = [jobs EXCEPT ![k] = NoJob]
            \/ jobs' = [jobs EXCEPT ![k] = [j EXCEPT !.scope = j.scope \ {b}]]
  BY DEF Configure, Ended, Goes
<1> HIDE DEF w
<1>5. /\ configs' \in [Charts -> Sets] /\ configs'[b] = w /\ results' \in [Charts -> Sets]
      /\ \A x \in Charts \ {b} : configs'[x] = configs[x]
      /\ \A x \in Charts : configs'[x].fields = "absent" => configs'[x] = NotThere
      /\ \A x \in Charts \ j.scope : configs'[x] = configs[x]
      /\ off' \subseteq Charts /\ off \ j.alone \subseteq off' /\ fresh' \subseteq Charts /\ fresh \subseteq fresh'
  BY <1>1, <1>3, <1>4
<1>c. \A x \in (Configured' \ fresh') \ j.scope :
         x \in Configured /\ configs'[x].cuts = configs[x].cuts /\ x \notin j.scope
  BY <1>5 DEF Configured
<1>6. CASE jobs' = [jobs EXCEPT ![k] = [j EXCEPT !.asking = {b}]]
  <2> DEFINE r == [j EXCEPT !.scope = j.scope, !.asking = {b}]
  <2>1. /\ r \in JobRows /\ r.at = "loop" /\ r.scope = j.scope /\ r.asking = {b} /\ r.alone = j.alone
        /\ r.cutting = j.cutting /\ r.cut = j.cut /\ r.seen = j.seen
    <3>1. j.scope \in SUBSET Charts /\ {b} \in SUBSET Charts
      BY <1>2
    <3>2. r = [j EXCEPT !.scope = j.scope, !.asking = {b}]
      BY SMTT(30)
    <3> HIDE DEF r
    <3> QED
      BY <1>2, <3>1, <3>2 DEF Loops, JobRows
  <2>2. jobs' = [jobs EXCEPT ![k] = r]
    BY <1>2, <1>6, LoopNarrows
  <2> HIDE DEF r
  <2>3. Wanted(r, b) = w
    BY <2>1 DEF Wanted, w
  <2>4. \A x \in r.scope \cap r.alone : configs'[x] = IF x \in r.asking THEN Wanted(r, x) ELSE r.seen[x]
    BY <1>1, <1>2, <1>5, <2>1, <2>3 DEF AloneHolds
  <2>5. \A x \in Charts \ off' :
           \/ x \notin off /\ results'[x] = results[x] /\ configs'[x] = configs[x] /\ x \notin j.asking
           \/ r.at = "loop" /\ x \in r.asking
    BY <1>1, <1>5, <2>1
  <2>6. \A x \in Configured' \ fresh' :
           \/ x \in Configured /\ configs'[x].cuts = configs[x].cuts /\ x \notin j.scope
           \/ r.at = "loop" /\ x \in r.scope
    BY <1>c, <2>1
  <2>7. /\ r.at = "loop" /\ Looping(k) /\ r.cutting = j.cutting /\ r.cut = j.cut
        /\ r.seen = j.seen /\ (r.asking = {} \/ \E x \in r.scope : r.asking = {x})
    BY <1>1, <2>1
  <2>8. UNCHANGED <<cut, lastSig, stuck>>
    BY <1>1
  <2>o. On(k, r)
    BY <1>5, <2>1, <2>2, <2>4, <2>5, <2>6, <2>7, <2>8 DEF On
  <2> QED
    BY <2>o, <2>1, WorkKept
<1>7. CASE ~j.cutting /\ ~(\E d \in j.seen[b].cuts : d[1] = j.cut[1])
  <2>1. \A x \in Charts \ off' :
           x \notin off /\ results'[x] = results[x] /\ configs'[x] = configs[x] /\ x \notin j.asking
    <3>1. b \notin off => configs'[b] = configs[b]
      BY <1>1, <1>2, <1>5, <1>7, <1>a, <1>n DEF AloneHolds
    <3> QED
      BY <1>1, <1>5, <3>1
  <2>2. CASE j.scope \ {b} = {} /\ jobs' = [jobs EXCEPT ![k] = NoJob]
    <3>1. stuck = FALSE => \A x \in Configured' \ fresh' :
             \/ x \in Configured /\ configs'[x].cuts = configs[x].cuts /\ x \notin j.scope
             \/ configs'[x].cuts = {cut} \ {NoCut}
      BY <1>1, <1>5, <1>c, <1>w, <2>2
    <3>2. UNCHANGED <<cut, lastSig, stuck>>
      BY <1>1
    <3>o. On(k, NoJob)
      BY <1>5, <2>1, <2>2, <3>1, <3>2, NoJobRow DEF On
    <3> QED
      BY <3>o, NoJobRow, WorkKept
  <2>3. CASE jobs' = [jobs EXCEPT ![k] = [j EXCEPT !.scope = j.scope \ {b}]]
    <3> DEFINE r == [j EXCEPT !.scope = j.scope \ {b}, !.asking = j.asking]
    <3>1. /\ r \in JobRows /\ r.at = "loop" /\ r.scope = j.scope \ {b} /\ r.asking = {} /\ r.alone = j.alone
          /\ r.cutting = j.cutting /\ r.cut = j.cut /\ r.seen = j.seen
      <4>1. j.scope \ {b} \in SUBSET Charts /\ j.asking \in SUBSET Charts
        BY <1>1, <1>2
      <4>2. r = [j EXCEPT !.scope = j.scope \ {b}, !.asking = j.asking]
        OBVIOUS
      <4> HIDE DEF r
      <4> QED
        BY <1>1, <1>2, <4>1, <4>2 DEF Loops, JobRows
    <3>2. jobs' = [jobs EXCEPT ![k] = r]
      BY <1>2, <2>3, LoopNarrows
    <3> HIDE DEF r
    <3>3. \A x \in r.scope \cap r.alone : configs'[x] = IF x \in r.asking THEN Wanted(r, x) ELSE r.seen[x]
      BY <1>1, <1>2, <1>5, <3>1 DEF AloneHolds
    <3>4. stuck = FALSE => \A x \in Configured' \ fresh' :
             \/ x \in Configured /\ configs'[x].cuts = configs[x].cuts /\ x \notin j.scope
             \/ r.at = "loop" /\ x \in r.scope
             \/ configs'[x].cuts = {cut} \ {NoCut}
      BY <1>1, <1>5, <1>c, <1>w, <3>1
    <3>5. /\ r.at = "loop" /\ Looping(k) /\ r.cutting = j.cutting /\ r.cut = j.cut
          /\ r.seen = j.seen /\ (r.asking = {} \/ \E x \in r.scope : r.asking = {x})
      BY <1>1, <3>1
    <3>6. UNCHANGED <<cut, lastSig, stuck>> /\ r.scope \subseteq j.scope
          /\ r.scope \ r.alone \subseteq j.scope \ j.alone
      BY <1>1, <3>1
    <3>o. On(k, r)
      BY <1>5, <2>1, <3>1, <3>2, <3>3, <3>4, <3>5, <3>6 DEF On
    <3> QED
      BY <3>o, <3>1, WorkKept
  <2> QED
    BY <1>7, <1>g, <1>6, <2>2, <2>3
<1> QED
  BY <1>g, <1>6, <1>7

LEMMA LoopAnswerKept ==
    ASSUME DeskInv, NEW k \in Jobs, NEW b \in Charts, NEW well \in BOOLEAN, LoopAnswer(k, b, well)
    PROVE  DeskInv'
<1> DEFINE j == jobs[k]
           w == Wanted(j, b)
           rest == j.scope \ {b}
<1>1. /\ Looping(k) /\ b \in j.asking
      /\ results' = (IF well THEN [results EXCEPT ![b] = w] ELSE results)
      /\ UNCHANGED <<configs, cut, lastSig, fresh, stuck>>
  BY DEF LoopAnswer, Looping
<1>2. /\ j \in Loops /\ j.scope \subseteq Charts /\ j.alone \subseteq Charts /\ AloneHolds(k) /\ JobHolds(k)
  BY <1>1, LoopJob
<1>3. /\ configs \in [Charts -> Sets] /\ results \in [Charts -> Sets] /\ off \subseteq Charts /\ fresh \subseteq Charts
      /\ \A x \in Charts : configs[x].fields = "absent" => configs[x] = NotThere
      /\ stuck \in BOOLEAN
  BY DEF DeskInv, DeskTyped
<1>4. j.asking = {b} /\ b \in j.scope
  BY <1>1, <1>2 DEF JobHolds
<1>5. w \in Sets
  BY <1>2, DeskWantedRow
<1>w. stuck = FALSE /\ b \notin fresh => w.cuts = {cut} \ {NoCut} /\ b \in j.alone
  <2>1. ASSUME stuck = FALSE, b \notin fresh PROVE w.cuts = {cut} \ {NoCut} /\ b \in j.alone
    <3>1. b \in j.scope \ fresh
      BY <1>4, <2>1
    <3> QED
      BY <1>1, <2>1, <3>1, WantedCuts, ScopeThere
  <2> QED
    BY <2>1
<1>a. b \in j.alone => configs[b] = w
  BY <1>1, <1>2, <1>4 DEF AloneHolds
<1>o. off' = IF well THEN off \ ({b} \cap j.alone) ELSE IF results[b] = NotThere THEN off ELSE off \cup {b}
  BY DEF LoopAnswer, Right
<1>g. \/ rest = {} /\ jobs' = [jobs EXCEPT ![k] = NoJob]
      \/ jobs' = [jobs EXCEPT ![k] = [j EXCEPT !.scope = rest, !.asking = {}]]
  BY DEF LoopAnswer, Ended, Goes
<1> HIDE DEF w
<1>6. /\ results' \in [Charts -> Sets] /\ results'[b] = (IF well THEN w ELSE results[b])
      /\ \A x \in Charts \ {b} : results'[x] = results[x]
  BY <1>1, <1>3, <1>5
<1>7. off' \subseteq Charts /\ off \ j.alone \subseteq off' /\ \A x \in Charts \ {b} : x \in off' <=> x \in off
  BY <1>3, <1>o
<1>8. \A x \in Charts \ off' :
         \/ x \notin off /\ results'[x] = results[x] /\ configs'[x] = configs[x] /\ x \notin j.asking
         \/ results'[x] \in {NotThere, configs'[x]}
  <2> SUFFICES ASSUME NEW x \in Charts \ off'
               PROVE  \/ x \notin off /\ results'[x] = results[x] /\ configs'[x] = configs[x] /\ x \notin j.asking
                      \/ results'[x] \in {NotThere, configs'[x]}
    OBVIOUS
  <2>1. CASE x # b
    BY <1>1, <1>4, <1>6, <1>7, <2>1
  <2>2. CASE x = b /\ well
    <3>1. b \in j.alone
      BY <1>2, <1>4, <1>o, <2>2 DEF AloneHolds
    <3> QED
      BY <1>1, <1>6, <1>a, <2>2, <3>1
  <2>3. CASE x = b /\ ~well
    BY <1>6, <1>o, <2>3
  <2> QED
    BY <2>1, <2>2, <2>3
<1>c. stuck = FALSE => \A x \in Configured' \ fresh' :
         \/ x \in Configured /\ configs'[x].cuts = configs[x].cuts /\ x \notin j.scope
         \/ x \in rest
         \/ configs'[x].cuts = {cut} \ {NoCut}
  BY <1>1, <1>w, <1>a DEF Configured
<1>9. CASE rest = {} /\ jobs' = [jobs EXCEPT ![k] = NoJob]
  <2>1. stuck = FALSE => \A x \in Configured' \ fresh' :
           \/ x \in Configured /\ configs'[x].cuts = configs[x].cuts /\ x \notin j.scope
           \/ configs'[x].cuts = {cut} \ {NoCut}
    BY <1>c, <1>9
  <2>2. UNCHANGED <<configs, cut, lastSig, fresh, stuck>>
    BY <1>1
  <2>o. On(k, NoJob)
    BY <1>3, <1>6, <1>7, <1>8, <1>9, <2>1, <2>2, NoJobRow DEF On
  <2> QED
    BY <2>o, NoJobRow, WorkKept
<1>10. CASE jobs' = [jobs EXCEPT ![k] = [j EXCEPT !.scope = rest, !.asking = {}]]
  <2> DEFINE r == [j EXCEPT !.scope = rest, !.asking = {}]
  <2>1. /\ r \in JobRows /\ r.at = "loop" /\ r.scope = rest /\ r.asking = {} /\ r.alone = j.alone
        /\ r.cutting = j.cutting /\ r.cut = j.cut /\ r.seen = j.seen
    <3>1. rest \in SUBSET Charts /\ {} \in SUBSET Charts
      BY <1>2
    <3>2. r = [j EXCEPT !.scope = rest, !.asking = {}]
      OBVIOUS
    <3> HIDE DEF rest, r
    <3> QED
      BY <1>2, <3>1, <3>2 DEF Loops, JobRows
  <2>2. jobs' = [jobs EXCEPT ![k] = r]
    BY <1>10
  <2> HIDE DEF r
  <2>3. \A x \in r.scope \cap r.alone : configs'[x] = IF x \in r.asking THEN Wanted(r, x) ELSE r.seen[x]
    BY <1>1, <1>2, <1>4, <2>1 DEF AloneHolds
  <2>4. stuck = FALSE => \A x \in Configured' \ fresh' :
           \/ x \in Configured /\ configs'[x].cuts = configs[x].cuts /\ x \notin j.scope
           \/ r.at = "loop" /\ x \in r.scope
           \/ configs'[x].cuts = {cut} \ {NoCut}
    BY <1>c, <2>1
  <2>5. /\ r.at = "loop" /\ Looping(k) /\ r.cutting = j.cutting /\ r.cut = j.cut
        /\ r.seen = j.seen /\ (r.asking = {} \/ \E x \in r.scope : r.asking = {x})
    BY <1>1, <2>1
  <2>6. UNCHANGED <<cut, lastSig, stuck>> /\ r.scope \subseteq j.scope /\ r.alone \subseteq j.alone
        /\ r.scope \ r.alone \subseteq j.scope \ j.alone
    BY <1>1, <2>1
  <2>7. /\ configs' \in [Charts -> Sets] /\ fresh' \subseteq Charts /\ fresh \subseteq fresh'
        /\ \A x \in Charts \ j.scope : configs'[x] = configs[x]
        /\ \A x \in Charts : configs'[x].fields = "absent" => configs'[x] = NotThere
    BY <1>1, <1>3
  <2>8. results' \in [Charts -> Sets] /\ off' \subseteq Charts /\ off \ j.alone \subseteq off'
    BY <1>6, <1>7
  <2>9. /\ r \in JobRows /\ r.at # "idle"
        /\ r.at # "idle" =>
              /\ r.at = "loop" /\ Looping(k) /\ r.cutting = j.cutting /\ r.cut = j.cut
              /\ r.seen = j.seen /\ (r.asking = {} \/ \E x \in r.scope : r.asking = {x})
              /\ \A x \in r.scope \cap r.alone :
                    configs'[x] = IF x \in r.asking THEN Wanted(r, x) ELSE r.seen[x]
    BY <2>1, <2>3, <2>5
  <2>10. \A x \in Charts \ off' :
            \/ /\ x \notin off /\ results'[x] = results[x] /\ configs'[x] = configs[x]
               /\ Looping(k) => x \notin j.asking
            \/ results'[x] \in {NotThere, configs'[x]}
            \/ r.at = "loop" /\ x \in r.asking
    BY <1>8
  <2>11. stuck = FALSE => \A x \in Configured' \ fresh' :
            \/ x \in Configured /\ configs'[x].cuts = configs[x].cuts /\ (Looping(k) => x \notin j.scope)
            \/ r.at = "loop" /\ x \in r.scope
            \/ configs'[x].cuts = {cut} \ {NoCut}
    BY <2>4
  <2> HIDE DEF rest
  <2>o. On(k, r)
    BY <2>2, <2>6, <2>7, <2>8, <2>9, <2>10, <2>11 DEF On
  <2> QED
    BY <2>o, <2>1, WorkKept
<1> QED
  BY <1>g, <1>9, <1>10

LEMMA AddedKept == ASSUME DeskInv, NEW b \in Charts, NEW f \in Fields, AddChartByHand(b, f) PROVE DeskInv'
<1> DEFINE setting == [fields |-> f, cuts |-> {}]
<1>1. /\ configs[b] = NotThere /\ \A k \in Jobs : b \notin jobs[k].scope
      /\ configs' = [configs EXCEPT ![b] = setting] /\ fresh' = fresh \cup {b}
      /\ UNCHANGED <<results, cut, lastSig, jobs, off, stuck>>
  BY DEF AddChartByHand
<1>2. setting \in Sets /\ setting.fields # "absent"
  BY DeskAssumption DEF Sets
<1> HIDE DEF setting
<1>3. DeskTyped
  BY DEF DeskInv
<1>4. /\ configs' \in [Charts -> Sets] /\ configs'[b] = setting
      /\ \A x \in Charts \ {b} : configs'[x] = configs[x]
  BY <1>1, <1>2, <1>3 DEF DeskTyped
<1>5. DeskTyped'
  BY <1>1, <1>2, <1>3, <1>4 DEF DeskTyped
<1>6. ASSUME NEW k \in Jobs PROVE JobHolds(k)' /\ AloneHolds(k)'
  <2>1. JobHolds(k) /\ AloneHolds(k) /\ jobs[k].scope \subseteq Charts
    BY RowTypes DEF DeskInv, DeskTyped
  <2>2. JobHolds(k)'
    BY <1>1, <2>1 DEF JobHolds, Looping
  <2>3. \A x \in Charts : Wanted(jobs'[k], x) = Wanted(jobs[k], x)
    BY <1>1
  <2>4. AloneHolds(k)'
    BY <1>1, <1>4, <2>1, <2>3 DEF AloneHolds, Looping
  <2> QED
    BY <2>2, <2>4
<1>7. ASSUME NEW k \in Jobs, Looping(k) PROVE b \notin jobs[k].asking
  BY <1>1, <1>7 DEF DeskInv, JobHolds
<1>8. results[b] = NotThere \/ b \in off
  BY <1>1, <1>7 DEF DeskInv, DeskTold
<1>9. DeskTold'
  BY <1>1, <1>4, <1>8 DEF DeskInv, DeskTold, Looping
<1>10. CutsHold'
  <2>1. Configured' \ fresh' \subseteq Configured \ fresh
    BY <1>1, <1>4 DEF Configured
  <2>2. \A x \in Configured' \ fresh' : configs'[x] = configs[x]
    BY <1>1, <1>4 DEF Configured
  <2>3. \A x : InLoop(x)' <=> InLoop(x)
    BY <1>1 DEF InLoop, Looping
  <2>4. fresh \subseteq fresh'
    BY <1>1
  <2> QED
    BY <1>1, <2>1, <2>2, <2>3, <2>4 DEF DeskInv, CutsHold, Looping
<1> QED
  BY <1>5, <1>6, <1>9, <1>10 DEF DeskInv

LEMMA DeskStart == ASSUME DeskInit PROVE DeskInv
<1> USE DEF DeskInit
<1>1. /\ configs \in [Charts -> Sets] /\ results \in [Charts -> Sets] /\ jobs \in [Jobs -> JobRows]
      /\ \A b \in Charts : configs[b] = NotThere /\ results[b] = NotThere
      /\ \A k \in Jobs : jobs[k] = NoJob
  BY SpecialRows, NoJobRow
<1>2. DeskTyped
  BY <1>1 DEF DeskTyped
<1>3. \A k \in Jobs : jobs[k].at = "idle" /\ jobs[k].scope = {} /\ jobs[k].alone = {}
  BY <1>1, NoJobRow
<1>4. Configured = {}
  BY <1>1 DEF Configured
<1> QED
  BY <1>1, <1>2, <1>3, <1>4 DEF DeskInv, JobHolds, AloneHolds, DeskTold, CutsHold, Looping

LEMMA DeskStep == ASSUME DeskInv, [DeskNext]_deskVars PROVE DeskInv'
<1>1. CASE UNCHANGED deskVars
  BY <1>1, RestKept DEF deskVars, DeskInv, DeskTyped
<1> QED
  BY <1>1, ClickKept, TakeBackKept, ApplyAnswerKept, DeskFailureKept, RefreshKept, SwitchKept,
     SwitchAnswerKept, ConfigureKept, LoopAnswerKept, ApplyKept, AddedKept, RefreshCutKept,
     RefreshAnswerKept DEF DeskNext

\* When nothing is under way a chart shows the result of its configuration, and the charts
\* are cut by what the chip names.
THEOREM ChartsAreCut == DeskSpec => []DeskSound
<1>1. DeskInv => DeskSound
  <2> SUFFICES ASSUME DeskInv, \A k \in Jobs : jobs[k].at = "idle"
               PROVE  /\ \A b \in Charts \ off : results[b] \in {NotThere, configs[b]}
                      /\ ~stuck => \A b \in Configured \ (off \cup fresh) : configs[b].cuts = {cut} \ {NoCut}
    BY DEF DeskSound, ResultsTold, CutsTold
  <2>1. \A k \in Jobs : ~Looping(k)
    BY DEF Looping
  <2> QED
    BY <2>1 DEF DeskInv, DeskTold, CutsHold, InLoop
<1> QED
  BY <1>1, DeskStart, DeskStep, PTL DEF DeskSpec

-----------------------------------------------------------------------------
(* Preferences. *)

\* What a row of a preference may say, told so often.
RowRight(memory, times) ==
    /\ memory.strength \in Faint .. Full /\ 1 <= memory.evidence /\ memory.evidence <= times
\* What a request has found is of the row that it writes, and was true.
FoundRight(r) ==
    setter[r].at = "found" /\ setter[r].row # NoMemo =>
        /\ memo[setter[r].row].key = setter[r].key
        /\ RowRight(setter[r].read, tellings[setter[r].key])
\* What fades is the preference that was read.
FadingRight(r) ==
    setter[r].at = "fading" => \A p \in Memos : setter[r].read[p].key \in Likings =>
        /\ memo[p].key = setter[r].read[p].key
        /\ setter[r].read[p].strength \in Faint .. Full /\ setter[r].read[p].used <= setter[r].now
PreferenceInv ==
    /\ PreferenceTypeOK
    /\ \A p \in Memos : memo[p].key \in Likings => RowRight(memo[p], tellings[memo[p].key])
    /\ \A k \in Likings : tellings[k] > 0 => \E p \in Memos : memo[p].key = k
    /\ \A r \in Setters : FoundRight(r) /\ FadingRight(r)
\* A row keeps its key, and what was told stays told.
Grows ==
    /\ today <= today'
    /\ \A p \in Memos : memo[p].key \in Likings => memo'[p].key = memo[p].key
    /\ \A k \in Likings : tellings[k] <= tellings'[k]

LEMMA Quotient == ASSUME NEW n \in Nat, NEW d \in Nat, 0 < d PROVE n \div d \in 0 .. n
OBVIOUS

LEMMA Percent == ASSUME NEW n \in Nat, NEW c \in 0 .. 100 PROVE (n * c) \div 100 \in 0 .. n
OBVIOUS

\* The rows and the requests keep their types as the days pass.
LEMMA RowsType == ASSUME PreferenceTypeOK, today' \in 0 .. MaxToday, today <= today'
                  PROVE  /\ \A w \in MemoRow : w \in MemoRow'
                         /\ \A r \in Setters : setter[r] \in {Idle} \cup FoundMemo' \cup FadingMemos'
<1> USE PreferenceAssumption
<1>1. today \in Nat /\ today' \in Nat
  BY DEF PreferenceTypeOK
<1>2. ASSUME NEW w \in MemoRow PROVE w \in MemoRow'
  BY <1>1, <1>2 DEF MemoRow
<1>3. ASSUME NEW r \in Setters PROVE setter[r] \in {Idle} \cup FoundMemo' \cup FadingMemos'
  <2>1. CASE setter[r] = Idle
    BY <2>1
  <2>2. CASE setter[r] \in FoundMemo
    BY <1>2, <2>2 DEF FoundMemo
  <2>3. CASE setter[r] \in FadingMemos
    <3>1. setter[r].read \in [Memos -> MemoRow']
      <4>1. setter[r].read \in [Memos -> MemoRow]
        BY <2>3 DEF FadingMemos
      <4> QED
        BY <1>2, <4>1
    <3>2. setter[r].now \in 0 .. today'
      BY <1>1, <2>3 DEF FadingMemos
    <3> QED
      BY <2>3, <3>1, <3>2 DEF FadingMemos
  <2> QED
    BY <1>3, <2>1, <2>2, <2>3 DEF PreferenceTypeOK
<1> QED
  BY <1>2, <1>3

\* A request that does nothing is as right as it was.
LEMMA StaysRight == ASSUME PreferenceInv, Grows, NEW r \in Setters, setter'[r] = setter[r],
                           tellings' \in [Likings -> Nat]
                    PROVE  FoundRight(r)' /\ FadingRight(r)'
<1> USE PreferenceAssumption
<1>1. FoundRight(r) /\ FadingRight(r) /\ setter[r] \in {Idle} \cup FoundMemo \cup FadingMemos
  BY DEF PreferenceInv, PreferenceTypeOK
<1>2. CASE setter[r] = Idle
  BY <1>2 DEF Idle, FoundRight, FadingRight
<1>3. CASE setter[r] \in FoundMemo
  <2> DEFINE s == setter[r]
  <2>1. s.at = "found" /\ s.key \in Likings /\ s.row \in Memos \cup {NoMemo} /\ s.read \in MemoRow
    BY <1>3 DEF FoundMemo
  <2>2. s = setter'[r]
    OBVIOUS
  <2>3. s.row # NoMemo => memo[s.row].key = s.key /\ RowRight(s.read, tellings[s.key])
    BY <1>1, <2>1 DEF FoundRight
  <2> HIDE DEF s
  <2>4. tellings[s.key] \in Nat /\ tellings'[s.key] \in Nat /\ tellings[s.key] <= tellings'[s.key]
    BY <2>1 DEF PreferenceInv, PreferenceTypeOK, Grows
  <2>5. s.read.evidence \in Nat
    BY <2>1 DEF MemoRow
  <2>6. s.row # NoMemo => RowRight(s.read, tellings'[s.key])
    BY <2>3, <2>4, <2>5 DEF RowRight
  <2>7. s.row # NoMemo => memo'[s.row].key = s.key
    BY <2>1, <2>3 DEF Grows
  <2>8. FadingRight(r)'
    BY <2>1, <2>2 DEF FadingRight
  <2>9. FoundRight(r)'
    BY <2>2, <2>6, <2>7 DEF FoundRight, RowRight
  <2> QED
    BY <2>8, <2>9
<1>4. CASE setter[r] \in FadingMemos
  <2>1. setter[r].at = "fading"
    BY <1>4 DEF FadingMemos
  <2> QED
    BY <1>1, <2>1 DEF FoundRight, FadingRight, Grows
<1> QED
  BY <1>1, <1>2, <1>3, <1>4

\* A request that is done has nothing to be right about.
LEMMA IdleRight == ASSUME NEW r, setter'[r] = Idle PROVE FoundRight(r)' /\ FadingRight(r)'
BY DEF Idle, FoundRight, FadingRight

LEMMA DayPasses == ASSUME PreferenceInv, PassDay PROVE PreferenceInv'
<1> USE PreferenceAssumption
<1>1. today \in Nat /\ today' \in 0 .. MaxToday /\ today <= today' /\ UNCHANGED <<memo, setter, tellings>>
  BY DEF PassDay, PreferenceInv, PreferenceTypeOK
<1>2. PreferenceTypeOK'
  <2>1. memo \in [Memos -> MemoRow']
    BY <1>1, RowsType DEF PreferenceInv, PreferenceTypeOK
  <2>2. setter \in [Setters -> {Idle} \cup FoundMemo' \cup FadingMemos']
    BY <1>1, RowsType DEF PreferenceInv, PreferenceTypeOK
  <2> QED
    BY <1>1, <2>1, <2>2 DEF PreferenceInv, PreferenceTypeOK, Idle
<1>3. Grows
  <2>1. \A k \in Likings : tellings[k] \in Nat
    BY DEF PreferenceInv, PreferenceTypeOK
  <2> QED
    BY <1>1, <2>1 DEF Grows
<1>4. \A r \in Setters : FoundRight(r)' /\ FadingRight(r)'
  <2> TAKE r \in Setters
  <2> QED
    BY <1>1, <1>3, StaysRight DEF PreferenceInv, PreferenceTypeOK
<1> QED
  BY <1>1, <1>2, <1>4 DEF PreferenceInv, RowRight

LEMMA LookedUp == ASSUME PreferenceInv, NEW r \in Setters, NEW k \in Likings, NEW explicit \in BOOLEAN,
                         LookUp(r, k, explicit)
                  PROVE  PreferenceInv'
<1> USE PreferenceAssumption
<1>1. UNCHANGED <<memo, today, tellings>> /\ PreferenceTypeOK
  BY DEF LookUp, PreferenceInv
<1>2. PICK p \in RowsOf(k) \cup {NoMemo} :
        setter' = [setter EXCEPT ![r] =
          [at |-> "found", key |-> k, row |-> p, explicit |-> explicit,
           read |-> IF p = NoMemo THEN NoLiking ELSE memo[p]]]
  BY DEF LookUp
<1> DEFINE read == IF p = NoMemo THEN NoLiking ELSE memo[p]
           s == [at |-> "found", key |-> k, row |-> p, explicit |-> explicit, read |-> read]
<1>3. p = NoMemo \/ (p \in Memos /\ memo[p].key = k)
  BY <1>2 DEF RowsOf
<1>4. read \in MemoRow
  <2>1. NoLiking \in MemoRow
    BY <1>1 DEF NoLiking, MemoRow, PreferenceTypeOK
  <2> QED
    BY <1>1, <1>3, <2>1 DEF PreferenceTypeOK
<1>5. p # NoMemo => memo[p].key = k /\ RowRight(read, tellings[k])
  BY <1>3 DEF PreferenceInv
<1>6. setter' = [setter EXCEPT ![r] = s]
  BY <1>2
<1> HIDE DEF read
<1>7. s \in FoundMemo
  BY <1>3, <1>4 DEF FoundMemo
<1>8. s.at = "found" /\ s.key = k /\ s.row = p /\ s.read = read
  OBVIOUS
<1> HIDE DEF s
<1>9. setter' \in [Setters -> {Idle} \cup FoundMemo \cup FadingMemos] /\ setter'[r] = s
  BY <1>1, <1>6, <1>7 DEF PreferenceTypeOK
<1>10. PreferenceTypeOK'
  BY <1>1, <1>9 DEF PreferenceTypeOK, FoundMemo, FadingMemos, MemoRow, Idle
<1>11. ASSUME NEW q \in Setters PROVE FoundRight(q)' /\ FadingRight(q)'
  <2>1. CASE q = r
    <3>1. setter'[q] = s
      BY <1>9, <2>1
    <3>2. FadingRight(q)'
      BY <1>8, <3>1 DEF FadingRight
    <3>3. FoundRight(q)'
      BY <1>1, <1>5, <1>8, <3>1 DEF FoundRight, RowRight
    <3> QED
      BY <3>2, <3>3
  <2>2. CASE q # r
    <3>1. setter'[q] = setter[q]
      BY <1>1, <1>6, <2>2 DEF PreferenceTypeOK
    <3>2. Grows
      BY <1>1 DEF Grows, PreferenceTypeOK
    <3> QED
      BY <1>1, <3>1, <3>2, StaysRight DEF PreferenceTypeOK
  <2> QED
    BY <2>1, <2>2
<1> QED
  BY <1>1, <1>10, <1>11 DEF PreferenceInv, RowRight

\* What a request writes is right if the rows are.
LEMMA WrittenRight ==
    ASSUME PreferenceInv, NEW r \in Setters, setter' = [setter EXCEPT ![r] = Idle], today' = today,
           memo' \in [Memos -> MemoRow], tellings' \in [Likings -> Nat], Grows,
           \A p \in Memos : memo'[p].key \in Likings => RowRight(memo'[p], tellings'[memo'[p].key]),
           \A k \in Likings : tellings'[k] > 0 => \E p \in Memos : memo'[p].key = k
    PROVE  PreferenceInv'
<1>1. setter' \in [Setters -> {Idle} \cup FoundMemo \cup FadingMemos] /\ setter'[r] = Idle
  BY DEF PreferenceInv, PreferenceTypeOK
<1>2. PreferenceTypeOK'
  BY <1>1 DEF PreferenceInv, PreferenceTypeOK, FoundMemo, FadingMemos, MemoRow, Idle
<1>3. ASSUME NEW q \in Setters PROVE FoundRight(q)' /\ FadingRight(q)'
  <2>1. CASE q = r
    BY <1>1, <2>1, IdleRight
  <2>2. CASE q # r
    <3>1. setter'[q] = setter[q]
      BY <2>2 DEF PreferenceInv, PreferenceTypeOK
    <3> QED
      BY <3>1, StaysRight
  <2> QED
    BY <2>1, <2>2
<1>4. \A p \in Memos : memo'[p].key \in Likings => RowRight(memo[p], tellings[memo[p].key])'
  BY DEF RowRight
<1> QED
  BY <1>2, <1>3, <1>4 DEF PreferenceInv

LEMMA StrongerRight == ASSUME NEW s \in Faint .. Full PROVE Stronger(s) \in Faint .. Full
<1> USE PreferenceAssumption
<1>1. s \in Int /\ StrengthStep \in Nat /\ Full \in Nat /\ Faint \in Nat
  OBVIOUS
<1> QED
  BY <1>1 DEF Stronger

LEMMA PreferenceUpdated == ASSUME PreferenceInv, NEW r \in Setters, Update(r) PROVE PreferenceInv'
<1> USE PreferenceAssumption
<1> DEFINE s == setter[r]
           new == IF s.explicit THEN Full ELSE Stronger(s.read.strength)
           memory == [key |-> s.key, strength |-> Strengthened(memo[s.row].strength, s.read.strength, new),
                   evidence |-> s.read.evidence + 1, used |-> today]
<1>1. /\ s.at = "found" /\ s.row # NoMemo
      /\ memo' = [memo EXCEPT ![s.row] = memory]
      /\ setter' = [setter EXCEPT ![r] = Idle]
      /\ tellings' = [tellings EXCEPT ![s.key] = @ + 1]
      /\ today' = today
  BY DEF Update
<1>2. s \in FoundMemo
  BY <1>1 DEF PreferenceInv, PreferenceTypeOK, Idle, FadingMemos
<1>3. s.key \in Likings /\ s.row \in Memos /\ s.read \in MemoRow
  BY <1>1, <1>2 DEF FoundMemo
<1>4. memo[s.row].key = s.key /\ RowRight(s.read, tellings[s.key])
  BY <1>1 DEF PreferenceInv, FoundRight
<1>5. memo \in [Memos -> MemoRow] /\ tellings \in [Likings -> Nat] /\ today \in Nat
  BY DEF PreferenceInv, PreferenceTypeOK
<1>6. new \in Faint .. Full
  <2>1. Stronger(s.read.strength) \in Faint .. Full
    BY <1>4, StrongerRight DEF RowRight
  <2>2. Full \in Faint .. Full
    OBVIOUS
  <2> QED
    BY <2>1, <2>2
<1>7. memo[s.row].strength \in Faint .. Full
  BY <1>3, <1>4 DEF PreferenceInv, RowRight
<1> HIDE DEF new
<1>8. Strengthened(memo[s.row].strength, s.read.strength, new) \in Faint .. Full
  BY <1>6, <1>7 DEF Strengthened
<1>9. memory.key = s.key /\ memory.strength \in Faint .. Full /\ memory.evidence = s.read.evidence + 1 /\ memory.used = today
  BY <1>8
<1>10. memory \in MemoRow
  <2>1. s.read.evidence \in Nat
    BY <1>3 DEF MemoRow
  <2>2. Strengthened(memo[s.row].strength, s.read.strength, new) \in 0 .. Full
    BY <1>8
  <2>3. today \in 0 .. today /\ s.key \in Likings \cup {"none"} /\ s.read.evidence + 1 \in Nat
    BY <1>3, <1>5, <2>1, SMTT(30)
  <2> QED
    BY <2>2, <2>3 DEF MemoRow
<1> HIDE DEF memory, s
<1>11. memo' \in [Memos -> MemoRow] /\ memo'[s.row] = memory /\ \A p \in Memos : p # s.row => memo'[p] = memo[p]
  BY <1>1, <1>3, <1>5, <1>10
<1>12. /\ tellings' \in [Likings -> Nat] /\ tellings'[s.key] = tellings[s.key] + 1
       /\ \A k \in Likings : k # s.key => tellings'[k] = tellings[k]
  BY <1>1, <1>3, <1>5
<1>13. \A p \in Memos : memo'[p].key = memo[p].key
  BY <1>4, <1>9, <1>11
<1>14. Grows
  BY <1>1, <1>5, <1>12, <1>13 DEF Grows
<1>15. ASSUME NEW p \in Memos, memo'[p].key \in Likings PROVE RowRight(memo'[p], tellings'[memo'[p].key])
  <2>1. CASE p = s.row
    <3>1. memo'[p] = memory /\ memo'[p].key = s.key
      BY <1>9, <1>11, <2>1
    <3>2. tellings[s.key] \in Nat /\ s.read.evidence \in Nat
      BY <1>3, <1>5 DEF MemoRow
    <3>3. RowRight(memory, tellings'[s.key])
      <4>1. memory.strength \in Faint .. Full /\ memory.evidence = s.read.evidence + 1
        BY <1>9
      <4>2. tellings'[s.key] = tellings[s.key] + 1
        BY <1>12
      <4>3. 1 <= s.read.evidence /\ s.read.evidence <= tellings[s.key]
        BY <1>4 DEF RowRight
      <4> QED
        BY <3>2, <4>1, <4>2, <4>3, SMTT(30) DEF RowRight
    <3> QED
      BY <3>1, <3>3
  <2>2. CASE p # s.row
    <3>1. memo'[p] = memo[p] /\ RowRight(memo[p], tellings[memo[p].key])
      BY <1>11, <1>15, <2>2 DEF PreferenceInv
    <3>2. tellings[memo[p].key] \in Nat /\ tellings'[memo[p].key] \in Nat /\ tellings[memo[p].key] <= tellings'[memo[p].key]
      BY <1>5, <1>12, <1>14, <1>15, <3>1 DEF Grows
    <3>3. memo[p].evidence \in Nat
      BY <1>5 DEF MemoRow
    <3> QED
      BY <3>1, <3>2, <3>3 DEF RowRight
  <2> QED
    BY <2>1, <2>2
<1>16. ASSUME NEW k \in Likings, tellings'[k] > 0 PROVE \E p \in Memos : memo'[p].key = k
  <2>1. CASE k = s.key
    BY <1>3, <1>9, <1>11, <2>1
  <2>2. CASE k # s.key
    BY <1>12, <1>13, <1>16, <2>2 DEF PreferenceInv
  <2> QED
    BY <2>1, <2>2
<1> QED
  BY <1>1, <1>11, <1>12, <1>14, <1>15, <1>16, WrittenRight

LEMMA PreferenceCreated == ASSUME PreferenceInv, NEW r \in Setters, Create(r) PROVE PreferenceInv'
<1> USE PreferenceAssumption
<1> DEFINE s == setter[r]
           memory == [key |-> s.key, strength |-> IF s.explicit THEN Full ELSE InitialStrength,
                   evidence |-> 1, used |-> today]
<1>1. /\ s.at = "found"
      /\ setter' = [setter EXCEPT ![r] = Idle]
      /\ tellings' = [tellings EXCEPT ![s.key] = @ + 1]
      /\ today' = today
  BY DEF Create
<1>2. PICK new \in Memos \ Remembered : memo' = [memo EXCEPT ![new] = memory]
  BY DEF Create
<1>3. s \in FoundMemo
  BY <1>1 DEF PreferenceInv, PreferenceTypeOK, Idle, FadingMemos
<1>4. s.key \in Likings /\ new \in Memos /\ memo[new].key \notin Likings
  BY <1>2, <1>3 DEF FoundMemo, Remembered
<1>5. memo \in [Memos -> MemoRow] /\ tellings \in [Likings -> Nat] /\ today \in Nat
  BY DEF PreferenceInv, PreferenceTypeOK
<1>6. (IF s.explicit THEN Full ELSE InitialStrength) \in Faint .. Full
  OBVIOUS
<1>7. memory.key = s.key /\ memory.strength \in Faint .. Full /\ memory.evidence = 1 /\ memory.used = today
  BY <1>6
<1>8. memory \in MemoRow
  <2>1. (IF s.explicit THEN Full ELSE InitialStrength) \in 0 .. Full
    BY <1>6
  <2> QED
    BY <1>4, <1>5, <2>1 DEF MemoRow
<1> HIDE DEF memory, s
<1>9. memo' \in [Memos -> MemoRow] /\ memo'[new] = memory /\ \A p \in Memos : p # new => memo'[p] = memo[p]
  BY <1>2, <1>4, <1>5, <1>8
<1>10. /\ tellings' \in [Likings -> Nat] /\ tellings'[s.key] = tellings[s.key] + 1
       /\ \A k \in Likings : k # s.key => tellings'[k] = tellings[k]
  BY <1>1, <1>4, <1>5
<1>11. Grows
  <2>1. \A p \in Memos : memo[p].key \in Likings => memo'[p].key = memo[p].key
    BY <1>4, <1>9
  <2> QED
    BY <1>1, <1>5, <1>10, <2>1 DEF Grows
<1>12. ASSUME NEW p \in Memos, memo'[p].key \in Likings PROVE RowRight(memo'[p], tellings'[memo'[p].key])
  <2>1. CASE p = new
    <3>1. memo'[p] = memory /\ memo'[p].key = s.key
      BY <1>7, <1>9, <2>1
    <3>2. tellings[s.key] \in Nat
      BY <1>4, <1>5
    <3>3. RowRight(memory, tellings'[s.key])
      BY <1>7, <1>10, <3>2 DEF RowRight
    <3> QED
      BY <3>1, <3>3
  <2>2. CASE p # new
    <3>1. memo'[p] = memo[p] /\ RowRight(memo[p], tellings[memo[p].key])
      BY <1>9, <1>12, <2>2 DEF PreferenceInv
    <3>2. tellings[memo[p].key] \in Nat /\ tellings'[memo[p].key] \in Nat /\ tellings[memo[p].key] <= tellings'[memo[p].key]
      BY <1>5, <1>10, <1>11, <1>12, <3>1 DEF Grows
    <3>3. memo[p].evidence \in Nat
      BY <1>5 DEF MemoRow
    <3> QED
      BY <3>1, <3>2, <3>3 DEF RowRight
  <2> QED
    BY <2>1, <2>2
<1>13. ASSUME NEW k \in Likings, tellings'[k] > 0 PROVE \E p \in Memos : memo'[p].key = k
  <2>1. CASE k = s.key
    BY <1>4, <1>7, <1>9, <2>1
  <2>2. CASE k # s.key
    BY <1>10, <1>11, <1>13, <2>2 DEF PreferenceInv, Grows
  <2> QED
    BY <2>1, <2>2
<1> QED
  BY <1>1, <1>9, <1>10, <1>11, <1>12, <1>13, WrittenRight

LEMMA DecayRead == ASSUME PreferenceInv, NEW r \in Setters, DecayReads(r) PROVE PreferenceInv'
<1> USE PreferenceAssumption
<1> DEFINE s == [at |-> "fading", now |-> today, read |-> memo]
<1>1. UNCHANGED <<memo, today, tellings>> /\ PreferenceTypeOK /\ setter' = [setter EXCEPT ![r] = s]
  BY DEF DecayReads, PreferenceInv
<1>2. s \in FadingMemos
  BY <1>1 DEF FadingMemos, PreferenceTypeOK
<1>3. s.at = "fading" /\ s.now = today /\ s.read = memo
  OBVIOUS
<1> HIDE DEF s
<1>4. setter' \in [Setters -> {Idle} \cup FoundMemo \cup FadingMemos] /\ setter'[r] = s
  BY <1>1, <1>2 DEF PreferenceTypeOK
<1>5. PreferenceTypeOK'
  BY <1>1, <1>4 DEF PreferenceTypeOK, FoundMemo, FadingMemos, MemoRow, Idle
<1>6. ASSUME NEW q \in Setters PROVE FoundRight(q)' /\ FadingRight(q)'
  <2>1. CASE q = r
    <3>1. setter'[q] = s
      BY <1>4, <2>1
    <3>2. FoundRight(q)'
      BY <1>3, <3>1 DEF FoundRight
    <3>3. ASSUME NEW p \in Memos, memo[p].key \in Likings
          PROVE  memo[p].strength \in Faint .. Full /\ memo[p].used <= today
      <4>1. memo[p] \in MemoRow /\ RowRight(memo[p], tellings[memo[p].key])
        BY <1>1, <3>3 DEF PreferenceTypeOK, PreferenceInv
      <4> QED
        BY <1>1, <4>1 DEF MemoRow, RowRight, PreferenceTypeOK
    <3>4. FadingRight(q)'
      BY <1>1, <1>3, <3>1, <3>3 DEF FadingRight
    <3> QED
      BY <3>2, <3>4
  <2>2. CASE q # r
    <3>1. setter'[q] = setter[q]
      BY <1>1, <2>2 DEF PreferenceTypeOK
    <3>2. Grows
      BY <1>1 DEF Grows, PreferenceTypeOK
    <3> QED
      BY <1>1, <3>1, <3>2, StaysRight DEF PreferenceTypeOK
  <2> QED
    BY <2>1, <2>2
<1> QED
  BY <1>1, <1>5, <1>6 DEF PreferenceInv, RowRight

\* What is written of a fading preference is between the least and the most.
LEMMA DecayedRight ==
    ASSUME NEW memory, memory.key \in Likings, memory.strength \in Faint .. Full, memory.used \in Nat,
           NEW now \in 0 .. MaxToday, memory.used <= now, Fades(memory, now)
    PROVE  Decayed(memory, now) \in Faint .. Full
<1> USE PreferenceAssumption
<1> DEFINE n == DaysSince(memory, now) \div DecayDays
<1>1. DaysSince(memory, now) \in Nat /\ DaysSince(memory, now) <= MaxToday
  BY DEF DaysSince
<1>2. n \in 0 .. DaysSince(memory, now)
  BY <1>1, Quotient
<1> HIDE DEF n
<1>3. n \in 0 .. MaxToday
  BY <1>1, <1>2
<1>4. Keeps[n] \in 0 .. 100
  BY <1>3
<1>5. Faint \in Nat /\ Full \in Nat /\ memory.strength \in Nat
  OBVIOUS
<1>6. (memory.strength * Keeps[n]) \div 100 \in 0 .. memory.strength
  BY <1>4, <1>5, Percent
<1>7. Decayed(memory, now) = (memory.strength * Keeps[n]) \div 100
  BY DEF Decayed, n
<1>8. Decayed(memory, now) >= Faint
  BY DEF Fades
<1> QED
  BY <1>5, <1>6, <1>7, <1>8

LEMMA Decays == ASSUME PreferenceInv, NEW r \in Setters, ApplyDecay(r) PROVE PreferenceInv'
<1> USE PreferenceAssumption
<1> DEFINE s == setter[r]
           memory(p) == [memo[p] EXCEPT !.used = today,
                        !.strength = Strengthened(@, s.read[p].strength, Decayed(s.read[p], s.now))]
<1>1. /\ s.at = "fading"
      /\ memo' = [p \in Memos |-> IF ~Fades(s.read[p], s.now) THEN memo[p] ELSE memory(p)]
      /\ setter' = [setter EXCEPT ![r] = Idle]
      /\ tellings' = tellings /\ today' = today
  BY DEF ApplyDecay
<1>2. memo \in [Memos -> MemoRow] /\ tellings \in [Likings -> Nat] /\ today \in 0 .. MaxToday
  BY DEF PreferenceInv, PreferenceTypeOK
<1>3. s \in FadingMemos
  <2>1. s \in {Idle} \cup FoundMemo \cup FadingMemos
    BY DEF PreferenceInv, PreferenceTypeOK
  <2>2. s.at = "fading"
    BY DEF ApplyDecay
  <2>3. Idle.at = "idle" /\ \A x \in FoundMemo : x.at = "found"
    BY DEF Idle, FoundMemo
  <2> QED
    BY <2>1, <2>2, <2>3
<1>4. s.read \in [Memos -> MemoRow] /\ s.now \in 0 .. today
  BY <1>3 DEF FadingMemos
<1>5. \A p \in Memos : s.read[p].key \in Likings =>
        /\ memo[p].key = s.read[p].key
        /\ s.read[p].strength \in Faint .. Full /\ s.read[p].used <= s.now
  BY <1>1 DEF PreferenceInv, FadingRight
<1> HIDE DEF s
<1>6. ASSUME NEW p \in Memos, Fades(s.read[p], s.now)
      PROVE  memory(p) \in MemoRow /\ memory(p).key = memo[p].key /\ memory(p).evidence = memo[p].evidence
             /\ memory(p).strength \in Faint .. Full
  <2>1. s.read[p].key \in Likings
    BY <1>6 DEF Fades
  <2>2. s.read[p].used \in Nat /\ s.now \in 0 .. MaxToday
    BY <1>2, <1>4 DEF MemoRow
  <2>3. Decayed(s.read[p], s.now) \in Faint .. Full
    BY <1>5, <1>6, <2>1, <2>2, DecayedRight
  <2>4. memo[p] \in MemoRow /\ memo[p].strength \in Faint .. Full
    BY <1>2, <1>5, <2>1 DEF PreferenceInv, RowRight
  <2> DEFINE new == Strengthened(memo[p].strength, s.read[p].strength, Decayed(s.read[p], s.now))
  <2>5. new \in Faint .. Full
    BY <2>3, <2>4 DEF Strengthened
  <2>6. memory(p) = [memo[p] EXCEPT !.used = today, !.strength = new]
    BY <2>4 DEF MemoRow
  <2> HIDE DEF new, memory
  <2>7. new \in 0 .. Full /\ today \in 0 .. today
    BY <1>2, <2>5
  <2> QED
    BY <2>4, <2>5, <2>6, <2>7 DEF MemoRow
<1> HIDE DEF memory
<1>7. \A p \in Memos : /\ memo'[p] \in MemoRow /\ memo'[p].key = memo[p].key /\ memo'[p].evidence = memo[p].evidence
                       /\ memo'[p] = memo[p] \/ memo'[p].strength \in Faint .. Full
  <2> TAKE p \in Memos
  <2>1. CASE Fades(s.read[p], s.now)
    <3>1. memo'[p] = memory(p)
      BY <1>1, <2>1
    <3> QED
      BY <1>6, <2>1, <3>1
  <2>2. CASE ~Fades(s.read[p], s.now)
    <3>1. memo'[p] = memo[p]
      BY <1>1, <2>2
    <3> QED
      BY <1>2, <3>1
  <2> QED
    BY <2>1, <2>2
<1>8. memo' \in [Memos -> MemoRow]
  BY <1>1, <1>7
<1>9. Grows
  BY <1>1, <1>2, <1>7 DEF Grows
<1>10. ASSUME NEW p \in Memos, memo'[p].key \in Likings PROVE RowRight(memo'[p], tellings'[memo'[p].key])
  <2>1. RowRight(memo[p], tellings[memo[p].key])
    BY <1>7, <1>10 DEF PreferenceInv
  <2> QED
    BY <1>1, <1>7, <2>1 DEF RowRight
<1>11. ASSUME NEW k \in Likings, tellings'[k] > 0 PROVE \E p \in Memos : memo'[p].key = k
  BY <1>1, <1>7, <1>11 DEF PreferenceInv
<1> QED
  BY <1>1, <1>2, <1>8, <1>9, <1>10, <1>11, WrittenRight

LEMMA PreferenceStep == ASSUME PreferenceInv, [PreferenceNext]_preferenceVars PROVE PreferenceInv'
<1>1. CASE UNCHANGED preferenceVars
  BY <1>1 DEF preferenceVars, PreferenceInv, PreferenceTypeOK, FoundMemo, FadingMemos, MemoRow, Idle, FoundRight, FadingRight, RowRight
<1> QED
  BY <1>1, DayPasses, LookedUp, PreferenceUpdated, PreferenceCreated, DecayRead, Decays DEF PreferenceNext

LEMMA PreferenceStart == ASSUME PreferenceInit PROVE PreferenceInv
<1> USE PreferenceAssumption
<1>1. NoLiking \in MemoRow /\ NoLiking.key \notin Likings
  BY DEF PreferenceInit, NoLiking, MemoRow
<1>2. PreferenceTypeOK
  BY <1>1 DEF PreferenceInit, PreferenceTypeOK
<1> QED
  BY <1>1, <1>2 DEF PreferenceInit, PreferenceInv, FoundRight, FadingRight, Idle

LEMMA PreferencesHold == ASSUME PreferenceInv PROVE PreferencesSound
<1>1. \A p \in Remembered : p \in Memos /\ memo[p].key \in Likings
  BY DEF Remembered
<1>2. \A k \in Likings : tellings[k] > 0 => RowsOf(k) # {}
  BY DEF PreferenceInv, RowsOf
<1>3. ASSUME NEW p \in Remembered
      PROVE  /\ Faint <= memo[p].strength /\ memo[p].strength <= Full
             /\ 1 <= memo[p].evidence /\ memo[p].evidence <= tellings[memo[p].key]
  <2>1. RowRight(memo[p], tellings[memo[p].key])
    BY <1>1 DEF PreferenceInv
  <2> QED
    BY <2>1 DEF RowRight
<1> QED
  BY <1>2, <1>3 DEF PreferencesSound

\* However many requests, rows and days: what is remembered of a liking stays within its
\* strengths, claims no more than it was told, and is never forgotten.
THEOREM PreferencesStaySound == PreferenceSpec => []PreferencesSound
BY PreferenceStart, PreferenceStep, PreferencesHold, PTL DEF PreferenceSpec

-----------------------------------------------------------------------------
(* Derived metrics. *)

\* Of every call that runs: it is not computed yet, and what it needs and has looked at
\* is not there, or computed, or what the next call computes.
CallAwaited(i) ==
    /\ stack[i].id \notin Cached /\ stack[i].todo \subseteq needs[stack[i].id]
    /\ \A d \in needs[stack[i].id] \ stack[i].todo :
         d \in gone \/ d \in Cached \/ (i < Len(stack) /\ d = stack[i + 1].id)
    /\ i < Len(stack) => stack[i + 1].id \in needs[stack[i].id]
Apart == \A i, j \in DOMAIN stack : i # j => stack[i].id # stack[j].id
ComputedRight ==
    /\ \A i, j \in DOMAIN computed : i # j => computed[i] # computed[j]
    /\ \A i \in DOMAIN computed : \A d \in needs[computed[i]] \ gone :
          \E j \in DOMAIN computed : j < i /\ computed[j] = d
DerivedInv ==
    /\ DerivedTypeOK /\ Apart /\ ComputedRight
    /\ \A i \in DOMAIN stack : CallAwaited(i)
    /\ outcome = "none" => computed = <<>>
    /\ outcome = "circular" => Circular(circle.path, circle.back)

LEMMA CallsAre == ASSUME DerivedTypeOK, NEW i \in DOMAIN stack
                  PROVE  /\ stack[i] \in MetricCall /\ stack[i].id \in Formulas \ gone /\ i \in 1 .. Len(stack)
                         /\ stack[i].todo \subseteq Formulas /\ needs[stack[i].id] \subseteq Formulas
<1>1. stack \in Seq(MetricCall) /\ needs \in [Formulas -> SUBSET Formulas]
  BY DEF DerivedTypeOK
<1>2. stack[i] \in MetricCall /\ i \in 1 .. Len(stack)
  BY <1>1, ElementOfSeq
<1>3. stack[i].id \in Formulas \ gone /\ stack[i].todo \subseteq Formulas
  BY <1>2 DEF MetricCall
<1> QED
  BY <1>1, <1>2, <1>3

LEMMA TopIs == ASSUME DerivedTypeOK, outcome = "running"
               PROVE  Len(stack) \in Nat \ {0} /\ Len(stack) \in DOMAIN stack /\ DOMAIN stack = 1 .. Len(stack)
<1>1. stack \in Seq(MetricCall) /\ stack # <<>>
  BY SMTT(30) DEF DerivedTypeOK
<1> QED
  BY <1>1, EmptySeq, LenProperties

\* What is looked at: the innermost call has one thing less to do.
LEMMA LookedAt == ASSUME DerivedTypeOK, outcome = "running", NEW d
                  PROVE  /\ Looked(d) \in Seq(MetricCall) /\ Len(Looked(d)) = Len(stack) /\ Looked(d) # <<>>
                         /\ \A i \in 1 .. Len(stack) : /\ Looked(d)[i].id = stack[i].id
                              /\ Looked(d)[i].todo = IF i = Len(stack) THEN stack[i].todo \ {d} ELSE stack[i].todo
<1> DEFINE n == Len(stack)
           call == [stack[n] EXCEPT !.todo = @ \ {d}]
<1>1. stack \in Seq(MetricCall) /\ n \in Nat \ {0} /\ n \in DOMAIN stack /\ DOMAIN stack = 1 .. n
  BY TopIs DEF DerivedTypeOK
<1>2. stack[n] \in MetricCall
  BY <1>1, CallsAre
<1>3. call \in MetricCall /\ call.id = stack[n].id /\ call.todo = stack[n].todo \ {d}
  BY <1>2 DEF MetricCall
<1>4. Looked(d) = [stack EXCEPT ![n] = call]
  BY <1>1, <1>2 DEF Looked, MetricCall
<1> HIDE DEF call
<1>5. Looked(d) \in Seq(MetricCall) /\ Len(Looked(d)) = n
  BY <1>1, <1>3, <1>4, ExceptSeq
<1>6. \A i \in 1 .. n : Looked(d)[i] = IF i = n THEN call ELSE stack[i]
  BY <1>1, <1>4
<1> QED
  BY <1>1, <1>3, <1>5, <1>6, EmptySeq

LEMMA StackedIs == ASSUME DerivedTypeOK
                   PROVE  /\ Stacked \in Seq(Formulas) /\ Len(Stacked) = Len(stack)
                          /\ \A i \in 1 .. Len(stack) : Stacked[i] = stack[i].id
<1>1. DOMAIN stack = 1 .. Len(stack) /\ Len(stack) \in Nat
  BY LenProperties DEF DerivedTypeOK
<1>2. Stacked = [i \in 1 .. Len(stack) |-> stack[i].id]
  BY <1>1 DEF Stacked
<1>3. \A i \in 1 .. Len(stack) : stack[i].id \in Formulas
  BY <1>1, CallsAre
<1>4. Stacked \in Seq(Formulas)
  BY <1>1, <1>2, <1>3, IsASeq
<1> QED
  BY <1>1, <1>2, <1>4, LenProperties

LEMMA MetricAsked == ASSUME DerivedInv, NEW x \in Formulas, AskMetric(x) PROVE DerivedInv'
<1> DEFINE call == [id |-> x, todo |-> needs[x]]
<1>1. stack' = <<call>> /\ outcome' = "running" /\ UNCHANGED <<needs, gone, computed, circle>> /\ x \notin gone
      /\ outcome = "none" /\ DerivedTypeOK
  BY DEF AskMetric, DerivedInv
<1>2. call \in MetricCall /\ call.id = x /\ call.todo = needs[x]
  BY <1>1 DEF MetricCall, DerivedTypeOK
<1> HIDE DEF call
<1>3. stack' \in Seq(MetricCall) /\ Len(stack') = 1 /\ stack'[1] = call /\ DOMAIN stack' = {1} /\ stack' # <<>>
  BY <1>1, <1>2
<1>4. DerivedTypeOK'
  BY <1>1, <1>3 DEF DerivedTypeOK, MetricCall
<1>5. ComputedRight' /\ Apart'
  BY <1>1, <1>3 DEF DerivedInv, Apart, ComputedRight
<1>6. Cached' = {}
  BY <1>1 DEF DerivedInv, Cached
<1>7. \A i \in DOMAIN stack' : CallAwaited(i)'
  BY <1>1, <1>2, <1>3, <1>6 DEF CallAwaited
<1> QED
  BY <1>1, <1>4, <1>5, <1>7 DEF DerivedInv

LEMMA PassedOver == ASSUME DerivedInv, NEW d, PassOver(d) PROVE DerivedInv'
<1> DEFINE n == Len(stack)
<1>1. /\ d \in stack[n].todo /\ d \in Cached \cup gone /\ stack' = Looked(d)
      /\ outcome = "running" /\ UNCHANGED <<needs, gone, outcome, computed, circle>> /\ DerivedTypeOK
  BY DEF PassOver, DerivedInv, Top
<1>2. /\ stack' \in Seq(MetricCall) /\ Len(stack') = n /\ stack' # <<>>
      /\ \A i \in 1 .. n : /\ stack'[i].id = stack[i].id
           /\ stack'[i].todo = IF i = n THEN stack[i].todo \ {d} ELSE stack[i].todo
  BY <1>1, LookedAt
<1>3. DOMAIN stack = 1 .. n /\ n \in Nat /\ DOMAIN stack' = 1 .. n
  BY <1>1, <1>2, TopIs, LenProperties
<1>4. DerivedTypeOK'
  BY <1>1, <1>2 DEF DerivedTypeOK, MetricCall
<1>5. Cached' = Cached
  BY <1>1 DEF Cached
<1>6. ASSUME NEW i \in 1 .. n PROVE CallAwaited(i)'
  <2>1. CallAwaited(i) /\ stack[i].todo \subseteq Formulas
    BY <1>1, <1>3, CallsAre DEF DerivedInv
  <2>2. i < n => i + 1 \in 1 .. n
    BY <1>3
  <2>3. stack'[i].id = stack[i].id /\ (i < n => stack'[i + 1].id = stack[i + 1].id)
    BY <1>2, <2>2
  <2>4. stack'[i].todo \subseteq stack[i].todo /\ stack[i].todo \subseteq stack'[i].todo \cup {d}
    BY <1>2
  <2> QED
    BY <1>1, <1>2, <1>5, <2>1, <2>3, <2>4 DEF CallAwaited
<1>7. ComputedRight'
  BY <1>1 DEF DerivedInv, ComputedRight
<1>8. Apart'
  <2>1. \A i, j \in 1 .. n : i # j => stack[i].id # stack[j].id
    BY <1>3 DEF DerivedInv, Apart
  <2>2. \A i \in 1 .. n : stack'[i].id = stack[i].id
    BY <1>2
  <2>3. \A i, j \in 1 .. n : i # j => stack'[i].id # stack'[j].id
    BY <2>1, <2>2
  <2> QED
    BY <1>3, <2>3 DEF Apart
<1> QED
  BY <1>1, <1>3, <1>4, <1>6, <1>7, <1>8 DEF DerivedInv

LEMMA Descended == ASSUME DerivedInv, NEW d \in Formulas, Descend(d) PROVE DerivedInv'
<1> DEFINE n == Len(stack)
           call == [id |-> d, todo |-> needs[d]]
<1>1. /\ d \in stack[n].todo /\ d \notin Cached /\ d \notin gone /\ d \notin Running
      /\ stack' = Append(Looked(d), call)
      /\ outcome = "running" /\ UNCHANGED <<needs, gone, outcome, computed, circle>> /\ DerivedTypeOK
  BY DEF Descend, DerivedInv, Top
<1>2. call \in MetricCall /\ call.id = d /\ call.todo = needs[d]
  BY <1>1 DEF MetricCall, DerivedTypeOK
<1> HIDE DEF call
<1>3. /\ Looked(d) \in Seq(MetricCall) /\ Len(Looked(d)) = n
      /\ \A i \in 1 .. n : /\ Looked(d)[i].id = stack[i].id
           /\ Looked(d)[i].todo = IF i = n THEN stack[i].todo \ {d} ELSE stack[i].todo
  BY <1>1, LookedAt
<1>4. n \in Nat \ {0} /\ DOMAIN stack = 1 .. n
  BY <1>1, TopIs
<1>5. /\ stack' \in Seq(MetricCall) /\ Len(stack') = n + 1 /\ stack'[n + 1] = call
      /\ \A i \in 1 .. n : stack'[i] = Looked(d)[i]
  BY <1>1, <1>2, <1>3, AppendProperties
<1>a. Len(stack') = n + 1
  BY <1>5
<1>b. DOMAIN stack' = 1 .. n + 1 /\ stack' # <<>>
  BY <1>4, <1>5, LenProperties, EmptySeq
<1>c. stack'[n + 1].id = d /\ stack'[n + 1].todo = needs[d]
  BY <1>2, <1>5
<1>d. ASSUME NEW i \in 1 .. n
      PROVE  /\ stack'[i].id = stack[i].id
             /\ stack'[i].todo = IF i = n THEN stack[i].todo \ {d} ELSE stack[i].todo
  BY <1>3, <1>5
<1>6. DOMAIN stack' = 1 .. n + 1 /\ stack' # <<>> /\ n \in Nat \ {0}
  BY <1>4, <1>b
<1>7. DerivedTypeOK'
  BY <1>1, <1>5, <1>6 DEF DerivedTypeOK, MetricCall
<1>8. Cached' = Cached /\ \A i \in 1 .. n : stack[i].id # d
  BY <1>1, <1>4 DEF Cached, Running
<1>9. ASSUME NEW i \in 1 .. n + 1 PROVE CallAwaited(i)'
  <2>1. CASE i = n + 1
    <3>1. stack'[i].id = d /\ stack'[i].todo = needs[d] /\ ~(i < Len(stack'))
      BY <1>4, <1>a, <1>c, <2>1
    <3> QED
      BY <1>1, <1>8, <3>1 DEF CallAwaited
  <2>2. CASE i \in 1 .. n
    <3>1. CallAwaited(i) /\ stack[i].id = stack'[i].id
      BY <1>4, <1>d, <2>2 DEF DerivedInv
    <3>0. n \in Int /\ i \in Int /\ 1 <= i /\ i <= n
      BY <1>4, <2>2
    <3>2. CASE i = n
      <4>0. n < n + 1 /\ ~(n < n)
        BY <3>0
      <4>1. stack'[n].todo = stack[n].todo \ {d}
        BY <1>d, <2>2, <3>2
      <4>3. stack'[i].todo = stack[i].todo \ {d} /\ i < Len(stack') /\ stack'[i + 1].id = d /\ ~(i < n)
        BY <1>a, <1>c, <3>2, <4>0, <4>1
      <4>2. d \in needs[stack[i].id]
        BY <1>1, <3>1, <3>2 DEF CallAwaited
      <4> QED
        BY <1>1, <1>8, <3>1, <4>3, <4>2 DEF CallAwaited
    <3>3. CASE i # n
      <4>0. i + 1 \in 1 .. n /\ i < n /\ i < n + 1
        BY <3>0, <3>3
      <4>1. stack'[i].todo = stack[i].todo /\ i < n /\ i < Len(stack') /\ stack'[i + 1].id = stack[i + 1].id
        BY <1>a, <1>d, <2>2, <3>3, <4>0
      <4> QED
        BY <1>1, <1>8, <3>1, <4>1 DEF CallAwaited
    <3> QED
      BY <3>2, <3>3, SMTT(30)
  <2> QED
    BY <1>4, <2>1, <2>2
<1>10. Apart'
  <2>1. \A i, j \in 1 .. n : i # j => stack'[i].id # stack'[j].id
    BY <1>4, <1>d DEF DerivedInv, Apart
  <2>2. \A i \in 1 .. n : stack'[i].id # stack'[n + 1].id
    BY <1>c, <1>d, <1>8
  <2>3. \A i \in 1 .. n + 1 : i \in 1 .. n \/ i = n + 1
    BY <1>4
  <2> QED
    BY <1>6, <2>1, <2>2, <2>3 DEF Apart
<1>11. ComputedRight'
  BY <1>1 DEF DerivedInv, ComputedRight
<1> QED
  BY <1>1, <1>6, <1>7, <1>9, <1>10, <1>11 DEF DerivedInv

LEMMA MetAgain == ASSUME DerivedInv, NEW d, MeetAgain(d) PROVE DerivedInv'
<1> DEFINE n == Len(stack)
<1>1. /\ d \in stack[n].todo /\ d \in Running /\ stack' = <<>> /\ outcome' = "circular"
      /\ circle' = [path |-> Stacked, back |-> d]
      /\ outcome = "running" /\ UNCHANGED <<needs, gone, computed>> /\ DerivedTypeOK
  BY DEF MeetAgain, DerivedInv, Top
<1>2. n \in Nat \ {0} /\ n \in DOMAIN stack /\ DOMAIN stack = 1 .. n
  BY <1>1, TopIs
<1>3. Stacked \in Seq(Formulas) /\ Len(Stacked) = n /\ \A i \in 1 .. n : Stacked[i] = stack[i].id
  BY <1>1, StackedIs
<1>4. DOMAIN Stacked = 1 .. n /\ Stacked # <<>>
  BY <1>2, <1>3, LenProperties, EmptySeq
<1>5. \A i \in 1 .. n : CallAwaited(i)
  BY <1>2 DEF DerivedInv
<1>6. Circular(Stacked, d)
  <2>1. \E i \in DOMAIN Stacked : Stacked[i] = d
    <3>1. PICK i \in DOMAIN stack : stack[i].id = d
      BY <1>1 DEF Running
    <3> QED
      BY <1>2, <1>3, <1>4, <3>1
  <2>2. d \in needs[Stacked[n]]
    <3>1. CallAwaited(n) /\ Stacked[n] = stack[n].id
      BY <1>2, <1>3, <1>5
    <3> QED
      BY <1>1, <3>1 DEF CallAwaited
  <2>3. ASSUME NEW i \in 1 .. n - 1 PROVE Stacked[i + 1] \in needs[Stacked[i]]
    <3>1. i \in 1 .. n /\ i + 1 \in 1 .. n /\ i < n
      BY <1>2
    <3>2. CallAwaited(i) /\ Stacked[i] = stack[i].id /\ Stacked[i + 1] = stack[i + 1].id
      BY <1>3, <1>5, <3>1
    <3> QED
      BY <3>1, <3>2 DEF CallAwaited
  <2> QED
    BY <1>3, <1>4, <2>1, <2>2, <2>3 DEF Circular
<1>7. Circular(circle.path, circle.back)'
  BY <1>1, <1>6 DEF Circular
<1>8. DerivedTypeOK' /\ DOMAIN stack' = {}
  BY <1>1 DEF DerivedTypeOK, MetricCall
<1>9. Apart' /\ ComputedRight'
  BY <1>1, <1>8 DEF DerivedInv, Apart, ComputedRight
<1> QED
  BY <1>1, <1>7, <1>8, <1>9 DEF DerivedInv

LEMMA Failed == ASSUME DerivedInv, QueryRaises PROVE DerivedInv'
<1>1. /\ stack' = <<>> /\ outcome' = "failed" /\ UNCHANGED <<needs, gone, computed, circle>> /\ DerivedTypeOK
  BY DEF QueryRaises, DerivedInv
<1>2. DerivedTypeOK' /\ DOMAIN stack' = {}
  BY <1>1 DEF DerivedTypeOK, MetricCall
<1>3. Apart' /\ ComputedRight'
  BY <1>1, <1>2 DEF DerivedInv, Apart, ComputedRight
<1> QED
  BY <1>1, <1>2, <1>3 DEF DerivedInv

LEMMA ComputedOne == ASSUME DerivedInv, Compute PROVE DerivedInv'
<1> DEFINE n == Len(stack)
           x == stack[n].id
           m == Len(computed)
<1>1. /\ stack[n].todo = {} /\ computed' = Append(computed, x) /\ stack' = SubSeq(stack, 1, n - 1)
      /\ outcome' = (IF n = 1 THEN "done" ELSE "running")
      /\ outcome = "running" /\ UNCHANGED <<needs, gone, circle>> /\ DerivedTypeOK
  BY DEF Compute, DerivedInv, Top
<1>2. n \in Nat \ {0} /\ n \in DOMAIN stack /\ DOMAIN stack = 1 .. n /\ stack \in Seq(MetricCall)
  BY <1>1, TopIs DEF DerivedTypeOK
<1>3. x \in Formulas /\ CallAwaited(n)
  BY <1>1, <1>2, CallsAre DEF DerivedInv
<1>4. computed \in Seq(Formulas) /\ m \in Nat /\ DOMAIN computed = 1 .. m
  BY <1>1, LenProperties DEF DerivedTypeOK
<1> HIDE DEF x
<1>5. /\ computed' \in Seq(Formulas) /\ Len(computed') = m + 1 /\ computed'[m + 1] = x
      /\ \A i \in 1 .. m : computed'[i] = computed[i]
  BY <1>1, <1>3, <1>4, AppendProperties
<1>6. DOMAIN computed' = 1 .. m + 1
  BY <1>5, LenProperties
<1>7. stack' \in Seq(MetricCall) /\ Len(stack') = n - 1 /\ \A i \in 1 .. n - 1 : stack'[i] = stack[i]
  BY <1>1, <1>2, SubSeqProperties
<1>8. DOMAIN stack' = 1 .. n - 1 /\ (stack' = <<>> <=> n = 1)
  BY <1>2, <1>7, LenProperties, EmptySeq
<1>9. DerivedTypeOK'
  BY <1>1, <1>5, <1>7, <1>8 DEF DerivedTypeOK, MetricCall
<1>10. Cached' = Cached \cup {x}
  BY <1>4, <1>5, <1>6 DEF Cached
<1>11. x \notin Cached /\ \A d \in needs[x] : d \in gone \/ d \in Cached
  BY <1>1, <1>3 DEF CallAwaited, x
<1>12. ComputedRight'
  <2>0. /\ \A i, j \in 1 .. m : i # j => computed[i] # computed[j]
        /\ \A i \in 1 .. m : \A d \in needs[computed[i]] \ gone :
              \E j \in 1 .. m : j < i /\ computed[j] = d
    BY <1>4 DEF DerivedInv, ComputedRight
  <2>1. \A i \in 1 .. m : computed'[i] # x /\ computed'[i] = computed[i]
    BY <1>4, <1>5, <1>11 DEF Cached
  <2>2. \A i \in 1 .. m + 1 : i \in 1 .. m \/ i = m + 1
    BY <1>4
  <2>3. \A i, j \in 1 .. m + 1 : i # j => computed'[i] # computed'[j]
    <3>1. computed'[m + 1] = x
      BY <1>5
    <3> QED
      BY <2>0, <2>1, <2>2, <3>1
  <2>4. ASSUME NEW i \in 1 .. m + 1, NEW d \in needs[computed'[i]] \ gone
        PROVE  \E j \in 1 .. m + 1 : j < i /\ computed'[j] = d
    <3>1. CASE i = m + 1
      <4>1. d \in Cached
        BY <1>5, <1>11, <2>4, <3>1
      <4>2. PICK j \in 1 .. m : computed[j] = d
        BY <1>4, <4>1 DEF Cached
      <4>3. j \in 1 .. m + 1 /\ j < i /\ computed'[j] = d
        BY <1>4, <1>5, <3>1, <4>2
      <4> QED
        BY <4>3
    <3>2. CASE i \in 1 .. m
      <4>1. PICK j \in 1 .. m : j < i /\ computed[j] = d
        <5>1. d \in needs[computed[i]] \ gone
          BY <2>1, <2>4, <3>2
        <5> QED
          BY <2>0, <3>2, <5>1
      <4>2. j \in 1 .. m + 1 /\ j < i /\ computed'[j] = d
        BY <1>4, <1>5, <4>1
      <4> QED
        BY <4>2
    <3> QED
      BY <2>2, <3>1, <3>2
  <2>5. \A i \in 1 .. m + 1 : \A d \in needs[computed'[i]] \ gone :
           \E j \in 1 .. m + 1 : j < i /\ computed'[j] = d
    BY <2>4
  <2>6. needs' = needs /\ gone' = gone
    BY <1>1
  <2> QED
    BY <1>6, <2>3, <2>5, <2>6 DEF ComputedRight
<1>13. ASSUME NEW i \in 1 .. n - 1 PROVE CallAwaited(i)'
  <2>1. i \in 1 .. n /\ i + 1 \in 1 .. n /\ i < n /\ stack'[i] = stack[i]
    BY <1>2, <1>7
  <2>2. CallAwaited(i) /\ stack[i].id # x
    <3>1. Apart /\ \A k \in DOMAIN stack : CallAwaited(k)
      BY DEF DerivedInv
    <3>2. i \in DOMAIN stack /\ n \in DOMAIN stack /\ i # n
      <4>1. n \in Nat /\ DOMAIN stack = 1 .. n /\ n \in DOMAIN stack
        BY <1>2
      <4> HIDE DEF n
      <4>2. i \in 1 .. n /\ i < n
        BY <2>1
      <4> QED
        BY <4>1, <4>2
    <3>3. stack[i].id # stack[n].id
      BY <3>1, <3>2 DEF Apart
    <3> QED
      BY <3>1, <3>2, <3>3 DEF x
  <2>3. i < Len(stack') => stack'[i + 1] = stack[i + 1]
    BY <1>2, <1>7, <2>1
  <2>4. ~(i < Len(stack')) => stack[i + 1].id = x
    <3>0. Len(stack') = n - 1 /\ n \in Nat /\ i \in 1 .. n - 1
      BY <1>2, <1>7
    <3>1. ~(i < Len(stack')) => i + 1 = n
      BY <3>0
    <3> QED
      BY <3>1 DEF x
  <2> QED
    BY <1>1, <1>10, <2>1, <2>2, <2>3, <2>4 DEF CallAwaited
<1>14. Apart'
  <2>1. \A i \in 1 .. n - 1 : i \in 1 .. n
    BY <1>2
  <2>2. \A i, j \in 1 .. n : i # j => stack[i].id # stack[j].id
    BY <1>2 DEF DerivedInv, Apart
  <2> QED
    BY <1>7, <1>8, <2>1, <2>2 DEF Apart
<1> QED
  BY <1>1, <1>8, <1>9, <1>12, <1>13, <1>14 DEF DerivedInv

LEMMA DerivedStep == ASSUME DerivedInv, [DerivedNext]_derivedVars PROVE DerivedInv'
<1>1. CASE UNCHANGED derivedVars
  BY <1>1 DEF derivedVars, DerivedInv, DerivedTypeOK, Apart, ComputedRight, CallAwaited, Cached, Circular, MetricCall
<1> QED
  BY <1>1, MetricAsked, PassedOver, Descended, MetAgain, Failed, ComputedOne DEF DerivedNext

\* For any metrics that need each other in any way: each is computed once and after those
\* it needs, and a circle is told of only where there is one.
THEOREM DerivedComeInOrder == DerivedSpec => []DerivedSound
<1>1. DerivedInit => DerivedInv
  BY DEF DerivedInit, DerivedInv, DerivedTypeOK, Apart, ComputedRight, MetricCall
<1>2. DerivedInv => DerivedSound
  BY DEF DerivedInv, DerivedSound, Apart, ComputedRight
<1> QED
  BY <1>1, <1>2, DerivedStep, PTL DEF DerivedSpec

-----------------------------------------------------------------------------
(* Formulas and measures. *)

LEMMA FormulaTypes == ASSUME FormulaTypeOK, [FormulaNext]_formulaVars PROVE FormulaTypeOK'
<1> USE FormulaAssumption DEF FormulaTypeOK
<1>1. ASSUME NEW x \in Symbols, AddSymbol(x) PROVE FormulaTypeOK'
  <2>1. formula' \in Seq(Symbols) /\ Len(formula') = Len(formula) + 1
    BY <1>1, AppendProperties DEF AddSymbol
  <2> QED
    BY <1>1, <2>1 DEF AddSymbol
<1>2. ASSUME NEW m \in Metric, AddMetric(m) PROVE FormulaTypeOK'
  <2>1. catalog' \in Seq(Metric) /\ Len(catalog') = Len(catalog) + 1
    BY <1>2, AppendProperties DEF AddMetric
  <2> QED
    BY <1>2, <2>1 DEF AddMetric
<1>3. ASSUME NEW m \in MeasureAsked, NameMeasure(m) PROVE FormulaTypeOK'
  BY <1>3 DEF NameMeasure
<1>4. CASE UNCHANGED formulaVars
  BY <1>4 DEF formulaVars
<1> QED
  BY <1>1, <1>2, <1>3, <1>4 DEF FormulaNext

\* What comes of a metric: its own expression, or over the field it is given.
LEMMA OneMetric ==
    ASSUME NEW i, NEW field, ResolveMetric(i, field).is = "metric"
    PROVE  /\ ResolveMetric(i, field) = OverField(i, field) /\ ResolveMetric(i, field).of = i
           /\ ~Template(i) => OverField(i, field) = [is |-> "metric", of |-> i, over |-> catalog[i].field]
BY DEF ResolveMetric, OverField, Unresolved

\* MetricAsked again, a block's metric is found by its id if its user may see it.
LEMMA FoundAgain ==
    ASSUME NEW e, NEW dim, e.of \in Entries, MaySee(e.of), NEW f \in Resolve(Again(e, dim))
    PROVE  f = ResolveMetric(e.of, dim)
<1> DEFINE m == Again(e, dim)
<1>1. m.ref = "id" /\ m.name = e.of /\ m.field = 0 /\ m.dim = dim
  BY DEF Again
<1> HIDE DEF m
<1>2. Referred(m) = {e.of} /\ Filled(m) = dim
  BY <1>1 DEF Referred, FoundById, Filled
<1>3. Resolve(m) = {ResolveMetric(i, Filled(m)) : i \in Referred(m)}
  BY <1>1, <1>2 DEF Resolve
<1> QED
  BY <1>2, <1>3 DEF m

LEMMA SameAgain ==
    ASSUME NEW e, NEW dim, NEW field, e.of \in Entries, MaySee(e.of), e = OverField(e.of, field),
           NEW f \in Resolve(Again(e, dim))
    PROVE  IF Template(e.of) THEN f \in {Unresolved, OverField(e.of, dim)} ELSE f = e
<1>1. f = ResolveMetric(e.of, dim)
  BY FoundAgain
<1>2. CASE Template(e.of)
  BY <1>1, <1>2 DEF ResolveMetric
<1>3. CASE ~Template(e.of)
  <2>1. f = OverField(e.of, dim)
    BY <1>1, <1>3 DEF ResolveMetric
  <2>2. OverField(e.of, dim) = OverField(e.of, field)
    BY <1>3 DEF OverField
  <2> QED
    BY <1>3, <2>1, <2>2
<1> QED
  BY <1>2, <1>3

\* A name that is referred to.
LEMMA ReferredIs ==
    ASSUME NEW m, m.ref \in {"id", "key"}, NEW i \in Referred(m), FormulaTypeOK
    PROVE  i \in Entries /\ (~MaySee(i) => m.ref = "key" /\ \A h \in Keyed(m.name) : ~MaySee(h))
<1>1. CASE m.ref = "id"
  BY <1>1 DEF Referred, FoundById
<1>2. CASE m.ref = "key"
  <2>1. i \in Keyed(m.name) /\ \A h \in Keyed(m.name) : Rank(i) <= Rank(h)
    BY <1>2 DEF Referred, FoundByKey
  <2>2. ASSUME ~MaySee(i), NEW h \in Keyed(m.name) PROVE ~MaySee(h)
    <3>1. Rank(i) = 3 /\ h \in Entries /\ Rank(i) <= Rank(h)
      BY <2>1, <2>2 DEF MaySee, Rank, Keyed
    <3>2. CASE catalog[h].owner = "other"
      BY <3>2 DEF MaySee
    <3>3. CASE catalog[h].owner # "other"
      <4>1. catalog[h].owner \in {"me", "none", "other"}
        <5>1. catalog \in Seq(Metric) /\ h \in DOMAIN catalog
          BY <3>1 DEF FormulaTypeOK, Entries
        <5>2. catalog[h] \in Metric
          BY <5>1, ElementOfSeq
        <5> QED
          BY <5>2 DEF Metric
      <4>2. Rank(h) \in {1, 2}
        BY <3>3, <4>1 DEF Rank
      <4> QED
        BY <3>1, <4>2
    <3> QED
      BY <3>2, <3>3
  <2> QED
    BY <1>2, <2>1, <2>2 DEF Keyed
<1> QED
  BY <1>1, <1>2

\* A field that is taken for a metric.
LEMMA UpgradedIs ==
    ASSUME NEW m, NEW i \in Upgraded(m)
    PROVE  i \in Entries /\ Offered(i) /\ MaySee(i)
BY DEF Upgraded, ByName, ByDistinct, Offered

LEMMA MeasuresHold == ASSUME FormulaTypeOK PROVE MeasuresSound
<1> SUFFICES ASSUME measure # NoMeasure, NEW e \in Resolve(measure), e.is = "metric"
             PROVE  /\ ~MaySee(e.of) => measure.ref = "key" /\ \A i \in Keyed(measure.name) : ~MaySee(i)
                    /\ MaySee(e.of) => \A f \in Resolve(Again(e, measure.dim)) :
                         IF Template(e.of) THEN f \in {Unresolved, OverField(e.of, measure.dim)} ELSE f = e
                    /\ measure.ref = "plain" /\ Template(e.of) => e.over \in SchemaNames \/ e.of \in Broken
  BY DEF MeasuresSound
<1>1. measure.ref \in {"id", "key", "plain"}
  BY DEF FormulaTypeOK, MeasureAsked
<1>2. CASE measure.ref \in {"id", "key"}
  <2>1. Referred(measure) # {}
    BY <1>2 DEF Resolve, Unresolved
  <2>2. Resolve(measure) = {ResolveMetric(i, Filled(measure)) : i \in Referred(measure)}
    BY <1>2, <2>1 DEF Resolve
  <2>3. PICK i \in Referred(measure) : e = ResolveMetric(i, Filled(measure))
    BY <2>2
  <2>4. e = OverField(i, Filled(measure)) /\ e.of = i
    BY <2>3, OneMetric
  <2>5. i \in Entries /\ (~MaySee(i) => measure.ref = "key" /\ \A h \in Keyed(measure.name) : ~MaySee(h))
    BY <1>2, ReferredIs
  <2>6. ASSUME MaySee(i), NEW f \in Resolve(Again(e, measure.dim))
        PROVE  IF Template(i) THEN f \in {Unresolved, OverField(i, measure.dim)} ELSE f = e
    <3>1. f = ResolveMetric(i, measure.dim)
      <4>1. e.of \in Entries /\ MaySee(e.of)
        BY <2>4, <2>5, <2>6
      <4>2. f = ResolveMetric(e.of, measure.dim)
        BY <4>1, <2>6, FoundAgain
      <4> QED
        BY <2>4, <4>2
    <3>2. Template(i) => f \in {Unresolved, OverField(i, measure.dim)}
      BY <3>1 DEF ResolveMetric
    <3>3. ~Template(i) => f = e
      <4>1. ~Template(i) => f = OverField(i, measure.dim)
        BY <3>1 DEF ResolveMetric
      <4>2. ~Template(i) => OverField(i, measure.dim) = OverField(i, Filled(measure))
        BY DEF OverField
      <4> QED
        BY <2>4, <4>1, <4>2
    <3> QED
      BY <3>2, <3>3
  <2> QED
    BY <1>2, <2>4, <2>5, <2>6
<1>3. CASE measure.ref = "plain"
  <2>1. Upgraded(measure) # {}
    BY <1>3 DEF Resolve
  <2>2. Resolve(measure) = {OverField(i, catalog[i].field) : i \in Upgraded(measure)}
    BY <1>3, <2>1 DEF Resolve
  <2>3. PICK i \in Upgraded(measure) : e = OverField(i, catalog[i].field)
    BY <2>2
  <2>4. e.of = i /\ e.over = catalog[i].field
    BY <2>3 DEF OverField
  <2>5. i \in Entries /\ Offered(i) /\ MaySee(i)
    BY UpgradedIs
  <2>6. ASSUME NEW f \in Resolve(Again(e, measure.dim))
        PROVE  IF Template(i) THEN f \in {Unresolved, OverField(i, measure.dim)} ELSE f = e
    BY <2>3, <2>4, <2>5, <2>6, SameAgain
  <2>7. Template(i) => e.over \in SchemaNames \/ i \in Broken
    BY <2>4, <2>5 DEF Broken
  <2> QED
    BY <2>4, <2>5, <2>6, <2>7
<1> QED
  BY <1>1, <1>2, <1>3

\* For any metrics and measures: another user's metric is taken only by a key nobody else
\* has, a block's metric comes to the same again, and what a field's name is taken for is
\* over a column or told to be broken.
THEOREM MeasuresComeTrue == FormulaSpec => []MeasuresSound
<1>1. FormulaInit => FormulaTypeOK
  BY FormulaAssumption DEF FormulaInit, FormulaTypeOK
<1> QED
  BY <1>1, FormulaTypes, MeasuresHold, PTL DEF FormulaSpec

-----------------------------------------------------------------------------
(* The SQL guard. *)

LEMMA SameStatements == ASSUME source' = source PROVE Statements' = Statements
<1>1. ToolSchema' = ToolSchema
  BY DEF ToolSchema
<1>2. ToolRef' = ToolRef
  BY <1>1 DEF ToolRef, TableRef
<1>3. TableRef(SchemaByName)' = TableRef(SchemaByName)
  BY DEF TableRef, SchemaByName
<1>4. Tables' = Tables
  BY <1>2, <1>3 DEF Tables, OtherTables
<1> QED
  BY <1>4 DEF Statements

LEMMA PutTypes ==
    ASSUME GuardTypeOK, NEW s \in Statements, PutTogether(s)
    PROVE  GuardTypeOK'
<1>1. source' = source /\ traits' \in 0 .. MaxTraits
  BY GuardAssumption DEF GuardTypeOK, PutTogether
<1>2. statement' = s
  BY DEF PutTogether
<1>3. Statements' = Statements
  BY <1>1, SameStatements
<1>4. statement' \in Statements'
  BY <1>2, <1>3
<1> QED
  BY <1>1, <1>4 DEF GuardTypeOK

LEMMA GuardTypes == ASSUME GuardTypeOK, [GuardNext]_guardVars PROVE GuardTypeOK'
<1> statement \in Statements
  BY DEF GuardTypeOK
<1>1. ASSUME NEW t \in Tables, Reads(t) PROVE GuardTypeOK'
  <2>1. [statement EXCEPT !.tables = @ \cup {t}] \in Statements
    BY DEF Statements
  <2> QED
    BY <1>1, <2>1, PutTypes DEF Reads
<1>2. ASSUME NEW x \in Refusals, Carries(x) PROVE GuardTypeOK'
  <2>1. [statement EXCEPT !.has = @ \cup {x}] \in Statements
    BY DEF Statements
  <2> QED
    BY <1>2, <2>1, PutTypes DEF Carries
<1>3. ASSUME NEW v \in Views, Defines(v) PROVE GuardTypeOK'
  <2>1. [statement EXCEPT !.views = @ \cup {v}] \in Statements
    BY DEF Statements
  <2> QED
    BY <1>3, <2>1, PutTypes DEF Defines
<1>4. CASE Nests
  <2>1. [statement EXCEPT !.depth = @ + 1] \in Statements
    <3>1. statement.depth \in 0 .. MaxDepth + 1 /\ statement.depth <= MaxDepth
      BY <1>4 DEF Nests, Statements
    <3>2. statement.depth + 1 \in 0 .. MaxDepth + 1
      BY <3>1, GuardAssumption
    <3> QED
      BY <3>2 DEF Statements
  <2> QED
    BY <1>4, <2>1, PutTypes DEF Nests
<1>5. CASE Torn \/ Writes \/ Groups
  <2>1. /\ [statement EXCEPT !.parses = FALSE] \in Statements
        /\ [statement EXCEPT !.select = FALSE] \in Statements
        /\ [statement EXCEPT !.grouped = TRUE] \in Statements
    BY DEF Statements
  <2> QED
    BY <1>5, <2>1, PutTypes DEF Torn, Writes, Groups
<1>6. ASSUME NEW place \in {"outer", "inner"}, LimitedAt(place) PROVE GuardTypeOK'
  <2>1. [statement EXCEPT !.limits = @ \cup {place}] \in Statements
    BY DEF Statements
  <2> QED
    BY <1>6, <2>1, PutTypes DEF LimitedAt
<1>7. ASSUME NEW n \in {0, 2}, Many(n) PROVE GuardTypeOK'
  <2>1. [statement EXCEPT !.count = n] \in Statements
    BY DEF Statements
  <2> QED
    BY <1>7, <2>1, PutTypes DEF Many
<1>8. ASSUME NEW q \in {"plain", "odd words", "odd intent"}, AskedWith(q) PROVE GuardTypeOK'
  <2>1. [statement EXCEPT !.question = q] \in Statements
    BY DEF Statements
  <2> QED
    BY <1>8, <2>1, PutTypes DEF AskedWith
<1>9. ASSUME NEW n \in RowsFound, NEW end \in {"rows", "timeout", "raises"}, FindsRows(n, end)
      PROVE  GuardTypeOK'
  <2>1. [statement EXCEPT !.rows = n, !.ends = end] \in Statements
    BY DEF Statements
  <2> QED
    BY <1>9, <2>1, PutTypes DEF FindsRows
<1>10. CASE UNCHANGED guardVars
  BY <1>10, SameStatements DEF guardVars, GuardTypeOK
<1> QED
  BY <1>1, <1>2, <1>3, <1>4, <1>5, <1>6, <1>7, <1>8, <1>9, <1>10 DEF GuardNext

\* What is let through reads the source's tables and its own views, whatever they are called.
LEMMA OwnTables ==
    ASSUME GuardTypeOK, LetThrough(statement), NEW t \in statement.tables
    PROVE  Owner(t) = ToolSchema \/ (Owner(t) = "none" /\ t.name \in statement.views)
<1>1. Owner(t) \in {"none", ToolSchema} /\ (t.name \in statement.views \/ t.schema # "none")
  BY DEF LetThrough, TableOwnership, ValidateSql, AstFullCheck, TableRefs
<1> QED
  BY <1>1 DEF Owner

\* The limit changes nothing that is looked at.
LEMMA LimitAdded ==
    ASSUME GuardTypeOK
    PROVE  LET s == InjectLimit(statement)
           IN  /\ s.limits # {} /\ InjectLimit(s) = s
               /\ ValidateSql(s) <=> ValidateSql(statement)
               /\ FullCheck(s) <=> FullCheck(statement)
               /\ LetThrough(s) <=> LetThrough(statement)
<1> DEFINE s == InjectLimit(statement)
<1>1. /\ s.limits # {} /\ s.parses = statement.parses /\ s.count = statement.count
      /\ s.select = statement.select /\ s.depth = statement.depth /\ s.has = statement.has
      /\ s.views = statement.views /\ s.tables = statement.tables /\ s.question = statement.question
  BY DEF GuardTypeOK, Statements, InjectLimit
<1>2. InjectLimit(s) = s
  BY <1>1 DEF InjectLimit
<1> HIDE DEF s
<1>3. AstFullCheck(s) <=> AstFullCheck(statement)
  BY <1>1 DEF AstFullCheck, SingleStatement, StatementType, SubqueryDepth, TraitsAllowed, TableRefs
<1>4. ValidateSql(s) <=> ValidateSql(statement)
  BY <1>1, <1>3 DEF ValidateSql
<1>5. FullCheck(s) <=> FullCheck(statement)
  BY <1>1, <1>4 DEF FullCheck, SanitizeInput, AnalyzeIntent
<1>6. LetThrough(s) <=> LetThrough(statement)
  BY <1>1, <1>4 DEF LetThrough, TableOwnership
<1> QED
  BY <1>1, <1>2, <1>4, <1>5, <1>6 DEF s

\* A statement that reads one table passes if the table is told in full and is the source's.
LEMMA OneTable ==
    ASSUME NEW t
    PROVE  LetThrough(Reading(t)) <=>
             t.schema # "none" /\ ~t.odd /\ source.found /\ Owner(t) \in {"none", ToolSchema}
<1> DEFINE s == Reading(t)
<1>1. /\ s.parses /\ s.count = 1 /\ s.select /\ s.depth = 0 /\ s.has = {} /\ s.views = {} /\ s.tables = {t}
  BY DEF Reading, PlainStatement
<1> HIDE DEF s
<1>2. ValidateSql(s) <=> t.schema # "none" /\ ~t.odd
  BY <1>1, GuardAssumption
     DEF ValidateSql, AstFullCheck, SingleStatement, StatementType, SubqueryDepth, TraitsAllowed, TableRefs
<1>3. TableOwnership(s) <=> Owner(t) \in {"none", ToolSchema}
  BY <1>1 DEF TableOwnership
<1> QED
  BY <1>2, <1>3 DEF LetThrough, s

\* The tool's own name for the table, and the route's.
LEMMA TablesNamed ==
    ASSUME GuardTypeOK
    PROVE  /\ ToolRef.schema # "none" /\ Owner(ToolRef) = ToolSchema
           /\ ToolRef.odd <=> (source.digit /\ ~source.external)
           /\ AiRef.schema # "none" /\ (AiRef.odd <=> (source.digit /\ ~source.external))
           /\ Owner(AiRef) = SchemaByName
           /\ SchemaByName # "none" /\ (ToolSchema = SchemaByName <=> ~source.external)
BY DEF GuardTypeOK, Sources, ToolRef, AiRef, TableRef, Table, Owner, ToolSchema, SchemaByName

LEMMA GuardHolds == ASSUME GuardTypeOK PROVE GuardSound
<1> DEFINE s == InjectLimit(statement)
<1>1. LetThrough(statement) => \A t \in statement.tables :
         Owner(t) = ToolSchema \/ (Owner(t) = "none" /\ t.name \in statement.views)
  BY OwnTables
<1>2. FullCheck(statement) => FullCheck(s) /\ s.limits # {} /\ InjectLimit(s) = s
  BY LimitAdded
<1>3. ASSUME NEW t \in Execute(statement).hint
      PROVE  LetThrough(Reading(t)) \/ (source.digit /\ ~source.external)
  <2>1. t = ToolRef /\ source.found
    BY <1>3 DEF Execute, Refuse, LetThrough
  <2> QED
    BY <2>1, OneTable, TablesNamed
<1>4. ASSUME source.found, ~source.digit PROVE LetThrough(Reading(AiRef)) <=> ~source.external
  BY <1>4, OneTable, TablesNamed
<1>5. AiQuery(statement) = "error" => Execute(s).kind = "error"
  BY DEF AiQuery
<1>6. SaysComplete(statement) /\ statement.rows <= RowsTold => Execute(statement).rows = statement.rows
  <2> SUFFICES ASSUME Execute(statement).kind = "rows", statement.rows <= RowsTold
               PROVE  Execute(statement).rows = statement.rows
    BY DEF SaysComplete
  <2>1. Execute(statement) = [kind |-> "rows", rows |-> Smaller(statement.rows, RowsTold), hint |-> {}]
    BY DEF Execute, Refuse
  <2>2. Smaller(statement.rows, RowsTold) = statement.rows
    <3>1. statement.rows \in Nat
      <4>1. statement.rows \in RowsFound \cup {0}
        BY DEF GuardTypeOK, Statements
      <4>2. \A n \in RowsFound : n \in Nat
        BY GuardAssumption
      <4> QED
        BY <4>1, <4>2
    <3>2. CASE statement.rows < RowsTold
      BY <3>2 DEF Smaller
    <3>3. CASE ~(statement.rows < RowsTold)
      <4>1. RowsTold \in Nat
        BY GuardAssumption
      <4>2. statement.rows = RowsTold
        BY <3>1, <3>3, <4>1
      <4> QED
        BY <4>2 DEF Smaller
    <3> QED
      BY <3>2, <3>3
  <2> QED
    BY <2>1, <2>2
<1> QED
  BY <1>1, <1>2, <1>3, <1>4, <1>5, <1>6 DEF GuardSound

\* However a statement was put together: what the two checks let through reads only tables
\* of its source and its own views, a limit spoils no check, and what an error tells of the
\* table works, but for the named sources.
THEOREM StatementsAreGuarded == GuardSpec => []GuardSound
<1>1. GuardInit => GuardTypeOK
  BY GuardAssumption DEF GuardInit, GuardTypeOK, Statements, PlainStatement
<1> QED
  BY <1>1, GuardTypes, GuardHolds, PTL DEF GuardSpec

-----------------------------------------------------------------------------
(* The parts together. *)

\* Each part moves alone, as its own specification says.
LEMMA PartsMove ==
    ASSUME [PageNext]_pageVars
    PROVE  /\ [ChatNext]_chatVars /\ [InsightNext]_insightVars /\ [LibraryNext]_libraryVars
           /\ [ListNext]_listVars /\ [DeskNext]_deskVars /\ [MountNext]_mountVars
           /\ [PreferenceNext]_preferenceVars /\ [DerivedNext]_derivedVars
           /\ [FormulaNext]_formulaVars /\ [GuardNext]_guardVars
BY DEF PageNext, pageVars, ownVars, askedVars

\* Whatever the order of clicks and answers: the messages shown are those of the active
\* conversation, rules and runs tell what became of them, rows several write stay whole,
\* lists and charts show what there is, and a canvas opens with what was kept of it; no
\* liking is forgotten, metrics are computed in order and found by who may see them, and
\* no statement reads a source it was not asked of.
THEOREM PagesStayTrue == PageSpec => []PagesTrue
<1>1. PageInit => /\ ChatInit /\ InsightInit /\ LibraryInit /\ ListInit /\ DeskInit /\ MountInit
                  /\ PreferenceInit /\ DerivedInit /\ FormulaInit /\ GuardInit
  BY DEF PageInit
<1>2. /\ ChatStoreSound /\ InsightSound /\ LibrarySound /\ PageTrue /\ DeskSound /\ MountSound
      /\ PreferencesSound /\ DerivedSound /\ MeasuresSound /\ GuardSound
      => PagesTrue
  BY DEF PagesTrue
<1> QED
  BY <1>1, <1>2, PartsMove, ChatIsShown, RunsAreTold, KeptIsWhole, PagesTell, ChartsAreCut,
     SheetsAreKept, PreferencesStaySound, DerivedComeInOrder, MeasuresComeTrue, StatementsAreGuarded,
     PTL DEF PageSpec, ChatSpec, InsightSpec, LibrarySpec, ListSpec, DeskSpec, MountSpec,
             PreferenceSpec, DerivedSpec, FormulaSpec, GuardSpec
=============================================================================
