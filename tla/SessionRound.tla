----------------------------- MODULE SessionRound -----------------------------
(***************************************************************************)
(* What a chat round and a canvas round have in common: the processes and  *)
(* their event loops, the session lock with its self-healing, the launch   *)
(* through the ARQ queue or the in-process registry, and the release of    *)
(* the lock.  ChatRound and CanvasRound add the rest of the two handlers   *)
(* and of the two task bodies, for one session and several requests.       *)
(*                                                                         *)
(* Every process runs one asyncio event loop: between two awaits no other  *)
(* coroutine of that process takes a step.  loop[p] names the round that   *)
(* is in the middle of such a segment.  Redis calls block, so processes    *)
(* interleave at every one of them.                                        *)
(***************************************************************************)
EXTENDS SessionLock

CONSTANTS
    Api,            \* API processes
    Worker,         \* the ARQ worker process
    Home,           \* the API process each request reaches
    QueueEnabled    \* settings.TASK_QUEUE_ENABLED

ASSUME ProcessAssumption ==
    /\ Worker \notin Api
    /\ Home \in [Round -> Api]
    /\ QueueEnabled \in BOOLEAN

Process == Api \cup {Worker}

VARIABLES
    pc,         \* where each round's code stands
    queued,     \* the rounds the worker executes
    completed,  \* the rounds whose event stream ran to its end
    row,        \* the assistant row of each round: "none", "empty" or "full"
    registry,   \* chat_registry: the round each API process has a task for
    loop        \* the round inside a segment without await, per process

task == <<queued, completed, row, registry>>
roundVars == <<lock, marker, pc, loop, task>>

Requesting == {"new", "probe", "force", "retry", "locked", "marked", "built"}
Over == {"busy", "gone", "failed", "ended"}

\* Places are the values of pc: each of the two modules has its own.
RoundTypeOK(Places) ==
    /\ LockTypeOK
    /\ pc \in [Round -> Places]
    /\ queued \in SUBSET Round
    /\ completed \in SUBSET Round
    /\ row \in [Round -> {"none", "empty", "full"}]
    /\ registry \in [Api -> Round \cup {None}]
    /\ loop \in [Process -> Round \cup {None}]

RoundInit ==
    /\ lock = LockFree
    /\ marker = Absent
    /\ pc = [r \in Round |-> "new"]
    /\ queued = {}
    /\ completed = {}
    /\ row = [r \in Round |-> "none"]
    /\ registry = [p \in Api |-> None]
    /\ loop = [p \in Process |-> None]

-----------------------------------------------------------------------------
\* The process whose event loop runs the round's code.
At(r) == IF r \in queued THEN Worker ELSE Home[r]

\* r moves on inside its segment (Go), or to an await or its end (Await).
Step(r, from, to) ==
    /\ pc[r] = from
    /\ loop[At(r)] \in {None, r}
    /\ pc' = [pc EXCEPT ![r] = to]
Go(r, from, to) == Step(r, from, to) /\ loop' = [loop EXCEPT ![At(r)] = r]
Await(r, from, to) == Step(r, from, to) /\ loop' = [loop EXCEPT ![At(r)] = None]

(***************************************************************************)
(* The request: acquire_session_lock, then, if it is taken and no task is  *)
(* running, force_release_session_lock and a second try.                   *)
(***************************************************************************)
Acquire(r) ==
    /\ Await(r, "new", "locked")
    /\ SetNX(r)
    /\ UNCHANGED <<marker, task>>

AcquireTaken(r) ==
    /\ Go(r, "new", "probe")
    /\ LockTaken
    /\ UNCHANGED <<lock, marker, task>>

ProbeRunning(r) ==
    /\ Await(r, "probe", "busy")
    /\ SessionTaskRunning
    /\ UNCHANGED <<lock, marker, task>>

ProbeIdle(r) ==
    /\ Go(r, "probe", "force")
    /\ ~SessionTaskRunning
    /\ UNCHANGED <<lock, marker, task>>

ForceRelease(r) ==
    /\ Go(r, "force", "retry")
    /\ DeleteLock
    /\ UNCHANGED <<marker, task>>

Reacquire(r) ==
    /\ Await(r, "retry", "locked")
    /\ SetNX(r)
    /\ UNCHANGED <<marker, task>>

ReacquireTaken(r) ==
    /\ Await(r, "retry", "busy")
    /\ LockTaken
    /\ UNCHANGED <<lock, marker, task>>

\* The user message and the placeholder row are committed, then the running
\* marker is written and session_created is sent.
CommitAndMark(r) ==
    /\ Await(r, "locked", "marked")
    /\ MarkRunning(r)
    /\ row' = [row EXCEPT ![r] = "empty"]
    /\ UNCHANGED <<lock, queued, completed, registry>>

\* The context is built and the log of the previous round cleared (the log
\* itself is the subject of EventLog).
Build(r) ==
    /\ Await(r, "marked", "built")
    /\ UNCHANGED <<lock, marker, task>>

(***************************************************************************)
(* The launch: the queue, or the registry of the API process.              *)
(***************************************************************************)
\* The job reaches the queue; without a live worker the round falls back to
\* Start.
Enqueue(r) ==
    /\ QueueEnabled
    /\ Await(r, "built", "queued")
    /\ queued' = queued \cup {r}
    /\ UNCHANGED <<lock, marker, completed, row, registry>>

\* Mutation: a second task of the session is admitted.
Start_second(r) ==
    /\ Await(r, "built", "running")
    /\ registry' = [registry EXCEPT ![Home[r]] = r]
    /\ UNCHANGED <<lock, marker, queued, completed, row>>

Start(r) ==
    /\ registry[Home[r]] = None
    /\ Await(r, "built", "running")
    /\ registry' = [registry EXCEPT ![Home[r]] = r]
    /\ UNCHANGED <<lock, marker, queued, completed, row>>

StartRefused(r) ==
    /\ registry[Home[r]] # None
    /\ Await(r, "built", "abort")
    /\ UNCHANGED <<lock, marker, task>>

Pick(r) ==
    /\ Await(r, "queued", "running")
    /\ UNCHANGED <<lock, marker, task>>

(***************************************************************************)
(* release_session_lock is a GET compared with the token, then a DEL.      *)
(***************************************************************************)
DeleteToken ==
    /\ DeleteLock
    /\ UNCHANGED <<marker, task>>

\* Mutation: the token is not compared.
UnlockCheck_anyToken(r) ==
    /\ Go(r, "unlock", "unlockDel")
    /\ UNCHANGED <<lock, marker, task>>

\* Mutation: a round whose lock is gone waits for it.
UnlockCheck_waits(r) ==
    /\ HoldsLock(r)
    /\ Go(r, "unlock", "unlockDel")
    /\ UNCHANGED <<lock, marker, task>>

\* The token check and the delete that may follow end at an await.
UnlockCheck(r) ==
    /\ IF HoldsLock(r) THEN Go(r, "unlock", "unlockDel")
                       ELSE Await(r, "unlock", "close")
    /\ UNCHANGED <<lock, marker, task>>

Unlock(r) == Await(r, "unlockDel", "close") /\ DeleteToken

\* Mutation: the runner stays in the registry.
Close_stays(r) ==
    /\ Await(r, "close", "ended")
    /\ UNCHANGED <<lock, marker, task>>

\* The database session is closed and _runner leaves the registry.
Close(r) ==
    /\ Await(r, "close", "ended")
    /\ registry' = [p \in Api |-> IF registry[p] = r THEN None ELSE registry[p]]
    /\ UNCHANGED <<lock, marker, queued, completed, row>>

-----------------------------------------------------------------------------
\* Process p dies: its rounds stop where they are, jobs in Redis survive.
Victims(p) ==
    {r \in Round : At(r) = p /\ pc[r] \notin Over \cup {"new", "queued"}}

Crash(p) ==
    /\ Victims(p) # {}
    /\ pc' = [r \in Round |-> IF r \in Victims(p) THEN "gone" ELSE pc[r]]
    /\ loop' = [loop EXCEPT ![p] = None]
    /\ registry' = [q \in Api |-> IF q = p THEN None ELSE registry[q]]
    /\ UNCHANGED <<lock, marker, queued, completed, row>>

Tick ==
    /\ LockTaken \/ marker.status # "absent"
    /\ ExpireKeys
    /\ UNCHANGED <<pc, loop, task>>

Enter(r) ==
    \/ Acquire(r) \/ AcquireTaken(r) \/ ProbeRunning(r) \/ ProbeIdle(r)
    \/ ForceRelease(r) \/ Reacquire(r) \/ ReacquireTaken(r)

Launch(r) ==
    \/ CommitAndMark(r) \/ Build(r)
    \/ Enqueue(r) \/ Start(r) \/ StartRefused(r) \/ Pick(r)

Leave(r) == UnlockCheck(r) \/ Unlock(r) \/ Close(r)

=============================================================================
