----------------------------- MODULE SessionLock -----------------------------
(***************************************************************************)
(* The two Redis keys that serialise the rounds of one AI session:         *)
(*   lock    ai:session:lock:{sid}, set with NX, holding the token of the  *)
(*           round that owns the session (services/session_lock.py);       *)
(*   marker  ai:{chat|canvas}:task:{sid}, the task state the self-healing  *)
(*           of orphan locks and the clients read.                         *)
(* A token is fresh for every round, so the round itself stands for it.    *)
(* Ages count ticks since the key was written; Redis drops a key whose age *)
(* reaches its TTL.  The module has no behaviour of its own: ChatRound and *)
(* CanvasRound build their actions from these operators.                   *)
(***************************************************************************)
EXTENDS Naturals

CONSTANTS
    Round,      \* requests for a new message in the session
    None,       \* "no round"
    LockTTL,    \* settings.ai_session_lock_ttl, in ticks
    MarkerTTL,  \* settings.redis_ttl, in ticks
    StaleAge    \* settings.lead_task_stale_seconds, in ticks

ASSUME NoneAssumption == None \notin Round
ASSUME LifetimeAssumption ==
    /\ LockTTL \in Nat \ {0}
    /\ MarkerTTL \in Nat \ {0}
    /\ StaleAge \in Nat

VARIABLES lock, marker

LockFree == [by |-> None, age |-> 0]
Absent == [status |-> "absent", by |-> None, age |-> 0]

Locks == [by : Round \cup {None}, age : 0 .. LockTTL]
Markers == [status : {"absent", "running", "interrupted"},
            by     : Round \cup {None},
            age    : 0 .. MarkerTTL]

LockTypeOK == lock \in Locks /\ marker \in Markers

(***************************************************************************)
(* The lock: SET NX EX, the forced delete of the self-healing, and the two *)
(* halves of a release (GET = token, then DEL).                            *)
(***************************************************************************)
SetNX(r) ==
    /\ lock.by = None
    /\ lock' = [by |-> r, age |-> 0]

LockTaken == lock.by # None

HoldsLock(r) == lock.by = r

DeleteLock == lock' = LockFree

(***************************************************************************)
(* The task marker.  "by" is the assistant_msg_id a chat round writes; a   *)
(* canvas round writes none, and there the field only records who wrote.   *)
(***************************************************************************)
MarkRunning(r) == marker' = [status |-> "running", by |-> r, age |-> 0]

MarkInterrupted(r) == marker' = [status |-> "interrupted", by |-> r, age |-> 0]

DeleteMarker == marker' = Absent

SessionTaskRunning == marker.status = "running" /\ marker.age <= StaleAge

\* An absent marker, and one without an assistant_msg_id, may be settled.
OwnsTaskState(r) == marker.status = "running" => marker.by = r

(***************************************************************************)
(* One tick of the clock, and the keys whose TTL it ends.                  *)
(***************************************************************************)
\* Mutation: the TTL is never applied.
Older_immortal(key, ttl, gone) == [key EXCEPT !.age = @ + 1]

Older(key, ttl, gone) ==
    IF key.age + 1 >= ttl THEN gone ELSE [key EXCEPT !.age = @ + 1]

\* Mutation: the lock is written without a TTL.
ExpireKeys_lockStays ==
    /\ lock' = lock
    /\ marker' = IF marker.status = "absent" THEN marker
                 ELSE Older(marker, MarkerTTL, Absent)

\* Mutation: the marker is written without a TTL.
ExpireKeys_markerStays ==
    /\ lock' = IF lock.by = None THEN lock ELSE Older(lock, LockTTL, LockFree)
    /\ marker' = marker

ExpireKeys ==
    /\ lock' = IF lock.by = None THEN lock ELSE Older(lock, LockTTL, LockFree)
    /\ marker' = IF marker.status = "absent" THEN marker
                 ELSE Older(marker, MarkerTTL, Absent)

=============================================================================
