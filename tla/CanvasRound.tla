----------------------------- MODULE CanvasRound -----------------------------
(***************************************************************************)
(* A round of the canvas assistant: event_generator of the canvas chat     *)
(* endpoint (api/v1/ai.py) and its task body, _canvas_chat_task in the API *)
(* process or run_canvas_task (services/canvas_task.py) in the worker.     *)
(*                                                                         *)
(* It differs from the chat in four ways the model keeps: the whole        *)
(* request runs under a try block whose finally releases the lock but not  *)
(* the marker; the marker carries no identity; a completed round deletes   *)
(* the marker before its done, and settles it again at its end, several    *)
(* awaits later; and a task has a time limit.                              *)
(***************************************************************************)
EXTENDS SessionRound

CONSTANTS
    TaskLimit,  \* settings.lead_task_timeout_seconds, in ticks
    JobLimit    \* WorkerSettings.job_timeout, in ticks

ASSUME LimitAssumption == TaskLimit \in Nat /\ JobLimit \in Nat

VARIABLES
    elapsed,    \* ticks since the task of each round began, 0 when it is over
    told        \* the rounds whose done was published

canvasVars == <<elapsed, told>>
vars == <<lock, marker, pc, queued, completed, row, registry, loop,
          elapsed, told>>

Aborting == {"abort", "abortDel"}
Body == {"running", "clear", "tell"}
Timed == Body \cup {"finally"}
Executing == Timed \cup {"rescue", "settle", "interrupt", "unlock", "unlockDel"}
Places == Requesting \cup Aborting \cup Executing \cup {"queued", "close"} \cup Over

Limit(r) == IF r \in queued THEN JobLimit ELSE TaskLimit
Bound == IF TaskLimit > JobLimit THEN TaskLimit ELSE JobLimit

TypeOK ==
    /\ RoundTypeOK(Places)
    /\ elapsed \in [Round -> 0 .. Bound]
    /\ told \in SUBSET Round

Init == RoundInit /\ elapsed = [r \in Round |-> 0] /\ told = {}

-----------------------------------------------------------------------------
(***************************************************************************)
(* The request.                                                            *)
(***************************************************************************)
\* An exception or a disconnect before the launch.  The rows may already be
\* committed when the commit is cancelled.
RequestFails(r) ==
    /\ \/ /\ Go(r, "locked", "abort")
          /\ row' \in {row, [row EXCEPT ![r] = "empty"]}
       \/ /\ \E from \in {"marked", "built"} : Go(r, from, "abort")
          /\ UNCHANGED row
    /\ UNCHANGED <<lock, marker, queued, completed, registry, canvasVars>>

\* The client leaves while the job is being enqueued.
EnqueueCancelled(r) ==
    /\ QueueEnabled
    /\ Await(r, "built", "queued")
    /\ queued' = queued \cup {r}
    /\ IF HoldsLock(r) THEN DeleteLock ELSE UNCHANGED lock
    /\ UNCHANGED <<marker, completed, row, registry, canvasVars>>

\* The finally block of a request that launched nothing.
AbortCheck(r) ==
    /\ IF HoldsLock(r) THEN Go(r, "abort", "abortDel")
                       ELSE Await(r, "abort", "failed")
    /\ UNCHANGED <<lock, marker, task, canvasVars>>

AbortUnlock(r) ==
    /\ Await(r, "abortDel", "failed")
    /\ DeleteToken
    /\ UNCHANGED canvasVars

(***************************************************************************)
(* The task.                                                               *)
(***************************************************************************)
\* The stream is over: the text goes to the row and is committed or rolled
\* back.
Save(r) ==
    /\ Await(r, "running", "clear")
    /\ row' \in {row, [row EXCEPT ![r] = "full"]}
    /\ UNCHANGED <<lock, marker, queued, completed, registry, canvasVars>>

\* The marker is deleted, then the done is written to the log.
ClearMarker(r) ==
    /\ Await(r, "clear", "tell")
    /\ DeleteMarker
    /\ completed' = completed \cup {r}
    /\ UNCHANGED <<lock, queued, row, registry, canvasVars>>

Tell(r) ==
    /\ Await(r, "tell", "finally")
    /\ told' = told \cup {r}
    /\ UNCHANGED <<lock, marker, queued, completed, row, registry, elapsed>>

\* The agent fails: an error, a done, and on to the finally block.
Fail(r) ==
    /\ Await(r, "running", "finally")
    /\ told' = told \cup {r}
    /\ UNCHANGED <<lock, marker, queued, completed, row, registry, elapsed>>

\* Mutation: the limit is applied once the stream is over.
Timeout_afterStream(r) ==
    /\ elapsed[r] = Limit(r)
    /\ \E from \in {"clear", "tell"} : Await(r, from, "rescue")
    /\ UNCHANGED <<lock, marker, queued, completed, row, registry, canvasVars>>

\* The time limit cancels the task at an await.  In the API process the
\* cancellation may hit the consumer instead of the task: the generator is
\* then finalised on its own and the registry forgets the round at once.
Timeout(r) ==
    /\ elapsed[r] = Limit(r)
    /\ \E from \in Body : Await(r, from, "rescue")
    /\ registry' \in {registry, [p \in Api |-> IF registry[p] = r THEN None ELSE registry[p]]}
    /\ UNCHANGED <<lock, marker, queued, completed, row, canvasVars>>

\* The time limit hits the finally block itself, whose awaits catch no
\* cancellation: marker and lock stay as they are.
CutFinally(r) ==
    /\ elapsed[r] = Limit(r)
    /\ Await(r, "finally", "close")
    /\ UNCHANGED <<lock, marker, task, canvasVars>>

\* The row gets the partial text and the hint of an interruption.
SaveHint(r) ==
    /\ \E from \in {"finally", "rescue"} : Await(r, from, "settle")
    /\ row' \in {row, [row EXCEPT ![r] = "full"]}
    /\ UNCHANGED <<lock, marker, queued, completed, registry, canvasVars>>

\* An existing marker, whoever wrote it, becomes interrupted.
CheckMarker(r) ==
    /\ Go(r, "settle", IF marker.status # "absent" THEN "interrupt" ELSE "unlock")
    /\ UNCHANGED <<lock, marker, task, canvasVars>>

Interrupt(r) ==
    /\ Go(r, "interrupt", "unlock")
    /\ MarkInterrupted(r)
    /\ UNCHANGED <<lock, task, canvasVars>>

-----------------------------------------------------------------------------
\* Time passes for every task, and no task outlives its limit.
TickTasks ==
    /\ \A r \in Round : pc[r] \in Timed => elapsed[r] < Limit(r)
    /\ LockTaken \/ marker.status # "absent" \/ \E r \in Round : pc[r] \in Timed
    /\ ExpireKeys
    /\ elapsed' = [r \in Round |-> IF pc[r] \in Timed THEN elapsed[r] + 1 ELSE 0]
    /\ UNCHANGED <<pc, loop, task, told>>

Shared(r) == (Enter(r) \/ Launch(r) \/ Leave(r)) /\ UNCHANGED canvasVars

Own(r) ==
    \/ AbortCheck(r) \/ AbortUnlock(r) \/ Save(r) \/ ClearMarker(r) \/ Tell(r)
    \/ Timeout(r) \/ CutFinally(r) \/ SaveHint(r) \/ CheckMarker(r) \/ Interrupt(r)

Fault(r) == RequestFails(r) \/ Fail(r)

Next ==
    \/ \E r \in Round : Shared(r) \/ Own(r) \/ Fault(r)
    \/ \E p \in Process : Crash(p) /\ UNCHANGED canvasVars
    \/ TickTasks

\* Where rounds go through the queue, enqueuing may be cut off as well.
QueueNext == Next \/ \E r \in Round : EnqueueCancelled(r)

Spec == Init /\ [][Next]_vars

\* As for the chat; the agent itself may hang, the time limit ends it.
Fairness ==
    /\ \A r \in Round :
          WF_vars(pc[r] \notin {"new", "running"} /\ (Shared(r) \/ Own(r)))
    /\ \A r \in Round : WF_vars(Timeout(r))
    /\ WF_vars(TickTasks)

FairSpec == Spec /\ Fairness

-----------------------------------------------------------------------------
Working(r) == pc[r] \in Timed

\* One agent at a time works on the canvas in a process, although the marker
\* and the lock may be lost and a cancelled task leaves the registry early.
OneAgentPerProcess ==
    \A r, q \in Round :
        Working(r) /\ Working(q) /\ r \notin queued /\ q \notin queued
            /\ Home[r] = Home[q] => r = q

\* chat_registry never names a round that is over.
RegistryIsLive ==
    \A p \in Api : registry[p] # None => pc[registry[p]] \in Executing \cup {"close"}

\* A release never deletes the lock of the round that took the session over.
ReleasesOwnLock ==
    [][\A r \in Round : (AbortUnlock(r) \/ Unlock(r)) => lock.by \in {r, None}]_vars

\* A task that hangs in its agent is cut at the limit and the round ends.
TasksEnd == \A r \in Round : (pc[r] = "running") ~> (pc[r] \in Over)

\* The session is never taken for busy for ever: the running marker goes away,
\* also the one a request left behind that launched nothing.
MarkerHeals ==
    \A r \in Round : (marker.status = "running" /\ marker.by = r)
                        ~> ~(marker.status = "running" /\ marker.by = r)

\* A canvas session takes messages again, whatever its agent does.
SessionHeals == TasksEnd /\ MarkerHeals

-----------------------------------------------------------------------------
(* What the code says of itself and does not keep. *)

\* The lock is cleared only when no task runs, "so that the round that is
\* really running is not pushed out" (ai.py, orphan lock self-healing).
ForceReleaseSparesLive ==
    [][\A r \in Round : ForceRelease(r) => lock.by = None \/ ~Working(lock.by)]_vars

\* A round that ended has published its done: the client unlocks on it alone.
EndedSaidDone == \A r \in Round : pc[r] = "ended" => r \in told

=============================================================================
