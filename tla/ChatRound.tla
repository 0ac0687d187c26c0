------------------------------ MODULE ChatRound ------------------------------
(***************************************************************************)
(* A round of the data chat: the new-message branch of POST /chat/stream   *)
(* (api/v1/ai.py) and the task body run_chat_task (services/chat_task.py). *)
(***************************************************************************)
EXTENDS SessionRound

vars == <<lock, marker, pc, queued, completed, row, registry, loop>>

Aborting == {"abort", "abortDel", "abortMark"}
Executing == {"running", "flush", "save", "state", "settle", "unlock", "unlockDel"}
Places == Requesting \cup Aborting \cup Executing \cup {"queued", "close"} \cup Over

TypeOK == RoundTypeOK(Places)

Init == RoundInit

-----------------------------------------------------------------------------
(***************************************************************************)
(* The request, from the committed rows to the launch.                     *)
(***************************************************************************)
\* The commit fails or the client leaves before the try block: nothing of the
\* round is cleaned up.
Drop(r) ==
    /\ \/ /\ Await(r, "locked", "gone")
          /\ row' \in {row, [row EXCEPT ![r] = "empty"]}
       \/ /\ Await(r, "marked", "gone")
          /\ UNCHANGED row
    /\ UNCHANGED <<lock, marker, queued, completed, registry>>

\* An exception or a disconnect inside the try block, before the launch.
BuildFails(r) ==
    /\ \E from \in {"marked", "built"} : Go(r, from, "abort")
    /\ UNCHANGED <<lock, marker, task>>

\* The client leaves while the job is being enqueued: the job is in the
\* queue, and the finally block still takes the round for unlaunched.
EnqueueCancelled(r) ==
    /\ QueueEnabled
    /\ Await(r, "built", "queued")
    /\ queued' = queued \cup {r}
    /\ IF HoldsLock(r) THEN DeleteLock ELSE UNCHANGED lock
    /\ DeleteMarker
    /\ UNCHANGED <<completed, row, registry>>

\* Mutation: an aborted request leaves its lock to the TTL.
AbortCheck_keepsLock(r) ==
    /\ Go(r, "abort", "abortMark")
    /\ UNCHANGED <<lock, marker, task>>

\* The finally block of a request that launched nothing.
AbortCheck(r) ==
    /\ Go(r, "abort", IF HoldsLock(r) THEN "abortDel" ELSE "abortMark")
    /\ UNCHANGED <<lock, marker, task>>

AbortUnlock(r) == Go(r, "abortDel", "abortMark") /\ DeleteToken

AbortMark(r) ==
    /\ Await(r, "abortMark", "failed")
    /\ DeleteMarker
    /\ UNCHANGED <<lock, task>>

(***************************************************************************)
(* The task: the agent's events, then the finally block of run_chat_task.  *)
(***************************************************************************)
\* The stream ends (normally or in an exception); its done is in the buffer.
Finish(r) ==
    /\ Await(r, "running", "flush")
    /\ completed' \in {completed, completed \cup {r}}
    /\ UNCHANGED <<lock, marker, queued, row, registry>>

\* The writer drains the buffer, or is cancelled after 3 s and loses the tail.
Flush(r) ==
    /\ Await(r, "flush", "save")
    /\ UNCHANGED <<lock, marker, task>>

\* The answer is committed into the placeholder row, or rolled back.
Save(r) ==
    /\ Await(r, "save", "state")
    /\ row' \in {row, [row EXCEPT ![r] = "full"]}
    /\ UNCHANGED <<lock, marker, queued, completed, registry>>

\* Mutation: the end of a task settles whatever marker it finds.
CheckOwner_blind(r) ==
    /\ Go(r, "state", "settle")
    /\ UNCHANGED <<lock, marker, task>>

CheckOwner(r) ==
    /\ Go(r, "state", IF OwnsTaskState(r) THEN "settle" ELSE "unlock")
    /\ UNCHANGED <<lock, marker, task>>

\* Mutation: a round that failed leaves a marker that still exists alone.
Settle_ifMissing(r) ==
    /\ Go(r, "settle", "unlock")
    /\ IF r \in completed THEN DeleteMarker
       ELSE IF marker.status = "absent" THEN MarkInterrupted(r)
       ELSE UNCHANGED marker
    /\ UNCHANGED <<lock, task>>

Settle(r) ==
    /\ Go(r, "settle", "unlock")
    /\ IF r \in completed THEN DeleteMarker ELSE MarkInterrupted(r)
    /\ UNCHANGED <<lock, task>>

\* The job timeout cancels the commit: the rest of the finally block is
\* skipped.  It exceeds both TTLs, so the keys of the round are gone by then.
JobCut(r) ==
    /\ r \in queued
    /\ ~HoldsLock(r) /\ marker.by # r
    /\ Await(r, "save", "close")
    /\ UNCHANGED <<lock, marker, task>>

-----------------------------------------------------------------------------
Request(r) ==
    \/ Enter(r) \/ Launch(r)
    \/ AbortCheck(r) \/ AbortUnlock(r) \/ AbortMark(r)

Task(r) ==
    \/ Finish(r) \/ Flush(r) \/ Save(r) \/ CheckOwner(r) \/ Settle(r)
    \/ Leave(r)

Fault(r) == Drop(r) \/ BuildFails(r) \/ EnqueueCancelled(r) \/ JobCut(r)

Next ==
    \/ \E r \in Round : Request(r) \/ Task(r) \/ Fault(r)
    \/ \E p \in Process : Crash(p)
    \/ Tick

Spec == Init /\ [][Next]_vars

\* A ready coroutine is resumed, the agent's stream ends (its idle guard ends
\* one that hangs) and time passes; nobody has to send a request.
Fairness ==
    /\ \A r \in Round : WF_vars(pc[r] # "new" /\ (Request(r) \/ Task(r)))
    /\ WF_vars(Tick)

FairSpec == Spec /\ Fairness

-----------------------------------------------------------------------------
Live(r) == pc[r] \in Executing

\* A process runs at most one task of the session at a time: whatever becomes
\* of lock and marker, chat_registry.start admits one.
OneTaskPerProcess ==
    \A r, q \in Round :
        Live(r) /\ Live(q) /\ r \notin queued /\ q \notin queued
            /\ Home[r] = Home[q] => r = q

\* The registry never remembers a finished round, which would refuse every
\* later round of the session: what it names is live or about to close.
RegistryIsLive ==
    \A p \in Api : registry[p] # None => pc[registry[p]] \in Executing \cup {"close"}

\* A running marker is never left behind by a round that came to its end: the
\* self-healing and the clients would take the session for busy until the TTL.
NoStuckMarker ==
    marker.status = "running" => marker.by # None /\ pc[marker.by] \notin {"failed", "ended"}

\* Nor is the lock: however a round came to its end, it holds the lock no more,
\* and the next request need not force it.
NoStuckLock == \A r \in Round : lock.by = r => pc[r] \notin {"busy", "failed", "ended"}

\* A round that came to its end leaves nothing in Redis that holds up the next.
NothingStuck == NoStuckMarker /\ NoStuckLock

\* A round gives up only its own lock: the DEL of a release never hits the
\* lock of a round that took the session over (release_session_lock).
ReleasesOwnLock ==
    [][\A r \in Round : (AbortUnlock(r) \/ Unlock(r)) => lock.by \in {r, None}]_vars

\* The end of a task never overwrites or deletes the running marker of a
\* newer round (_owns_task_state).
SettlesOwnMarker ==
    [][\A r \in Round : Settle(r) => (marker.status = "running" => marker.by = r)]_vars

\* A round gives up what is its own, and nothing else.
OwnKeysOnly == ReleasesOwnLock /\ SettlesOwnMarker

\* The lock heals: no crash, disconnect or failed request holds it for ever.
LockHeals == \A r \in Round : (lock.by = r) ~> (lock.by # r)

\* Every request that was sent is answered, refused or interrupted.
RequestsEnd == \A r \in Round : (pc[r] # "new") ~> (pc[r] \in Over)

\* Whatever crashed or left before, the session takes messages again.
SessionHeals == LockHeals /\ RequestsEnd

-----------------------------------------------------------------------------
(***************************************************************************)
(* The promise of the session lock: one API process without the queue      *)
(* implements RoundService.                                                *)
(***************************************************************************)
PhaseAt(place) ==
    CASE place \in Requesting \cup Aborting \cup {"queued"} -> "waiting"
      [] place \in Executing \cup {"close"} -> "running"
      [] place \in {"busy", "failed"} -> "refused"
      [] place = "gone" -> "lost"

Phases ==
    [r \in Round |->
        IF pc[r] = "ended"
        THEN IF r \in completed THEN "answered" ELSE "interrupted"
        ELSE PhaseAt(pc[r])]

Service == INSTANCE RoundService WITH phase <- Phases

ImplementsService == Service!Spec

=============================================================================
