------------------------------ MODULE EventLog ------------------------------
(***************************************************************************)
(* The event log of one session (services/event_stream.py), a Redis Stream *)
(* from which a client that reloads the page resumes the round, and from   *)
(* which every client of a queued round reads:                             *)
(*   the writer   the buffer and the single _log_writer of run_chat_task;  *)
(*   the readers  one connection each, replaying the log from its start    *)
(*                and then tailing it (_stream_from_event_log in ai.py).   *)
(* Rounds of the session follow one another, which ChatRound establishes.  *)
(***************************************************************************)
EXTENDS Naturals, Sequences

CONSTANTS
    Reader,         \* connections that read the log
    Rounds,         \* bound: rounds of the session
    Length,         \* bound: events of a round before its done
    ReplayBatch,    \* COUNT of the replay
    TailBatch,      \* COUNT of a blocking read
    IdleCap,        \* _queue_idle_cap with a live worker, in ticks
    IdleLimit,      \* settings.stream_idle_timeout_seconds, in ticks
    GraceCap        \* max_seconds of a resume before the first event, in ticks

ASSUME SizeAssumption == Rounds \in Nat /\ Length \in Nat
ASSUME BatchAssumption == ReplayBatch \in Nat \ {0} /\ TailBatch \in Nat \ {0}
ASSUME TimeAssumption == {IdleCap, IdleLimit, GraceCap} \subseteq Nat

VARIABLES
    round,      \* the latest round of the session, 0 before the first
    phase,      \* where it stands; "over" also between two rounds
    host,       \* where its task runs: "api" or "worker"
    made,       \* events it has produced
    silence,    \* ticks since its last event
    buffer,     \* _log_buffer: produced, not yet written
    log,        \* the stream
    lastId,     \* the last id the stream gave away
    lost,       \* rounds of which a fault dropped events
    at,         \* where each reader stands
    stop,       \* what lets it give up: the registry, an idle cap or a grace
    cap,        \* ... and after how many ticks
    waited,     \* the ticks it counts for that
    cursor,     \* the id it has read up to
    got,        \* what it delivered to its client
    joined      \* the round and the phase it found when it came

writerVars == <<round, phase, host, made, silence, buffer, log, lastId, lost>>
readerVars == <<at, stop, cap, waited, cursor, got, joined>>
vars == <<writerVars, readerVars>>

LastSeq == Length + 1
LastEver == Rounds * LastSeq
Caps == {0, IdleCap, GraceCap}
Longest == IdleCap + IdleLimit + GraceCap

Event == [id : 0 .. LastEver, round : 0 .. Rounds, seq : 0 .. LastSeq, done : BOOLEAN]

\* The done a reader makes up when it gives up.
Fallback == [id |-> 0, round |-> 0, seq |-> 0, done |-> TRUE]

Phases == {"over", "marked", "cleared", "queued", "running", "flush"}

TypeOK ==
    /\ round \in 0 .. Rounds
    /\ phase \in Phases
    /\ host \in {"api", "worker"}
    /\ made \in 0 .. LastSeq
    /\ silence \in 0 .. IdleLimit
    /\ buffer \in Seq(Event) /\ Len(buffer) <= LastSeq
    /\ log \in Seq(Event) /\ Len(log) <= LastSeq
    /\ lastId \in 0 .. LastEver
    /\ lost \subseteq 1 .. Rounds
    /\ at \in [Reader -> {"away", "probe", "replay", "tail", "ended"}]
    /\ stop \in [Reader -> {"none", "registry", "idle", "grace"}]
    /\ cap \in [Reader -> Caps]
    /\ waited \in [Reader -> 0 .. Longest]
    /\ cursor \in [Reader -> 0 .. LastEver]
    /\ got \in [Reader -> Seq(Event)]
    /\ joined \in [Reader -> [round : 0 .. Rounds, phase : Phases]]

Init ==
    /\ round = 0 /\ phase = "over" /\ host = "api"
    /\ made = 0 /\ silence = 0
    /\ buffer = <<>> /\ log = <<>> /\ lastId = 0 /\ lost = {}
    /\ at = [c \in Reader |-> "away"]
    /\ stop = [c \in Reader |-> "none"]
    /\ cap = [c \in Reader |-> 0]
    /\ waited = [c \in Reader |-> 0]
    /\ cursor = [c \in Reader |-> 0]
    /\ got = [c \in Reader |-> <<>>]
    /\ joined = [c \in Reader |-> [round |-> 0, phase |-> "over"]]

-----------------------------------------------------------------------------
(***************************************************************************)
(* The request of a round: running marker, context, clear, launch.         *)
(***************************************************************************)
Begin ==
    /\ phase = "over" /\ round < Rounds
    /\ round' = round + 1
    /\ phase' = "marked"
    /\ made' = 0 /\ silence' = 0
    /\ UNCHANGED <<host, buffer, log, lastId, lost, readerVars>>

Clear ==
    /\ phase = "marked"
    /\ phase' = "cleared"
    /\ log' = <<>>
    /\ UNCHANGED <<round, host, made, silence, buffer, lastId, lost, readerVars>>

Launch ==
    /\ phase = "cleared"
    /\ \/ phase' = "running" /\ host' = "api"
       \/ phase' = "queued" /\ host' = "worker"
    /\ UNCHANGED <<round, made, silence, buffer, log, lastId, lost, readerVars>>

\* The request fails before its launch.
Abandon ==
    /\ phase \in {"marked", "cleared"}
    /\ phase' = "over"
    /\ UNCHANGED <<round, host, made, silence, buffer, log, lastId, lost, readerVars>>

Pick ==
    /\ phase = "queued"
    /\ phase' = "running"
    /\ UNCHANGED <<round, host, made, silence, buffer, log, lastId, lost, readerVars>>

(***************************************************************************)
(* The task.  Publishing appends to the buffer; the writer empties it.     *)
(***************************************************************************)
Publish(done) ==
    /\ made' = made + 1
    /\ silence' = 0
    /\ buffer' = Append(buffer, [id |-> 0, round |-> round, seq |-> made + 1, done |-> done])

Produce ==
    /\ phase = "running" /\ made < Length
    /\ Publish(FALSE)
    /\ UNCHANGED <<round, phase, host, log, lastId, lost, readerVars>>

\* The stream of the agent ends: normally, in an error, or by its idle guard.
Finish ==
    /\ phase = "running"
    /\ Publish(TRUE)
    /\ phase' = "flush"
    /\ UNCHANGED <<round, host, log, lastId, lost, readerVars>>

Writing == phase \in {"running", "flush"} /\ buffer # <<>>

AddEntry(event) ==
    /\ lastId' = lastId + 1
    /\ log' = Append(log, [event EXCEPT !.id = lastId + 1])

\* Mutation: every event has a writer of its own.
Write_anyOrder ==
    /\ Writing
    /\ \E k \in DOMAIN buffer :
          /\ AddEntry(buffer[k])
          /\ buffer' = SubSeq(buffer, 1, k - 1) \o SubSeq(buffer, k + 1, Len(buffer))
    /\ UNCHANGED <<round, phase, host, made, silence, lost, readerVars>>

\* Mutation: the event stays in the buffer.
Write_keeps ==
    /\ Writing
    /\ AddEntry(Head(buffer))
    /\ UNCHANGED <<round, phase, host, made, silence, buffer, lost, readerVars>>

Write ==
    /\ Writing
    /\ AddEntry(Head(buffer))
    /\ buffer' = Tail(buffer)
    /\ UNCHANGED <<round, phase, host, made, silence, lost, readerVars>>

\* XADD fails and is not repeated.
WriteFails ==
    /\ Writing
    /\ buffer' = Tail(buffer)
    /\ lost' = lost \cup {round}
    /\ UNCHANGED <<round, phase, host, made, silence, log, lastId, readerVars>>

\* The flush is over, or is cut after 3 s; the rest of the finally block runs
\* and the registry forgets the task.
Flushed ==
    /\ phase = "flush"
    /\ phase' = "over"
    /\ buffer' = <<>>
    /\ lost' = IF buffer = <<>> THEN lost ELSE lost \cup {round}
    /\ UNCHANGED <<round, host, made, silence, log, lastId, readerVars>>

\* The job timeout of the worker cancels the task: its finally block still
\* flushes the log, but no done was published.
JobCut ==
    /\ host = "worker" /\ phase = "running"
    /\ phase' = "flush"
    /\ lost' = lost \cup {round}
    /\ UNCHANGED <<round, host, made, silence, buffer, log, lastId, readerVars>>

\* The worker dies: nothing more of the round is written.
Kill ==
    /\ host = "worker" /\ phase \in {"running", "flush"}
    /\ phase' = "over"
    /\ buffer' = <<>>
    /\ lost' = lost \cup {round}
    /\ UNCHANGED <<round, host, made, silence, log, lastId, readerVars>>

-----------------------------------------------------------------------------
\* Mutation: the registry forgets the task before its log is flushed.
InRegistry_untilFlush == host = "api" /\ phase = "running"

\* chat_registry.is_running
InRegistry == host = "api" /\ phase \in {"running", "flush"}

Move(c, from, to) == at[c] = from /\ at' = [at EXCEPT ![c] = to]

GiveUpOn(c, kind, ticks) ==
    /\ stop' = [stop EXCEPT ![c] = kind]
    /\ cap' = [cap EXCEPT ![c] = ticks]

Arrive(c) == joined' = [joined EXCEPT ![c] = [round |-> round, phase |-> phase]]

(***************************************************************************)
(* A connection opens: the launching request of a queued round, or a       *)
(* resume, which looks for the task in the registry and then for events.   *)
(* The idle cap is 0 when no worker is alive.                              *)
(***************************************************************************)
Attach(c) ==
    /\ host = "worker" /\ phase \in {"queued", "running", "flush"}
    /\ Move(c, "away", "replay")
    /\ Arrive(c)
    /\ \E ticks \in {0, IdleCap} : GiveUpOn(c, "idle", ticks)
    /\ UNCHANGED <<writerVars, waited, cursor, got>>

ResumeRunning(c) ==
    /\ InRegistry
    /\ Move(c, "away", "replay")
    /\ Arrive(c)
    /\ GiveUpOn(c, "registry", 0)
    /\ UNCHANGED <<writerVars, waited, cursor, got>>

Resume(c) ==
    /\ ~InRegistry
    /\ Move(c, "away", "probe")
    /\ Arrive(c)
    /\ UNCHANGED <<writerVars, stop, cap, waited, cursor, got>>

ProbeEvents(c) ==
    /\ log # <<>>
    /\ Move(c, "probe", "replay")
    /\ \E ticks \in {0, IdleCap} : GiveUpOn(c, "idle", ticks)
    /\ UNCHANGED <<writerVars, waited, cursor, got, joined>>

\* No events: a live worker may still send the first one.
ProbeEmpty(c) ==
    /\ log = <<>>
    /\ \/ /\ Move(c, "probe", "replay")
          /\ GiveUpOn(c, "grace", GraceCap)
          /\ UNCHANGED got
       \/ /\ Move(c, "probe", "ended")
          /\ got' = [got EXCEPT ![c] = Append(@, Fallback)]
          /\ UNCHANGED <<stop, cap>>
    /\ UNCHANGED <<writerVars, waited, cursor, joined>>

\* How many entries lie at or before the cursor: ids grow along the log.
Passed(c) ==
    CHOOSE n \in 0 .. Len(log) : \A k \in 1 .. Len(log) : log[k].id > cursor[c] <=> k > n

\* XREAD after the cursor, with the COUNT of the call.
Unread(c, count) ==
    SubSeq(log, Passed(c) + 1,
           IF Passed(c) + count < Len(log) THEN Passed(c) + count ELSE Len(log))

HasDone(events) == \E k \in DOMAIN events : events[k].done

UpToDone(events) ==
    IF HasDone(events)
    THEN SubSeq(events, 1,
                CHOOSE k \in DOMAIN events :
                    events[k].done /\ \A i \in 1 .. k - 1 : ~events[i].done)
    ELSE events

Deliver(c, events) ==
    /\ got' = [got EXCEPT ![c] = @ \o events]
    /\ cursor' = [cursor EXCEPT ![c] = IF events = <<>> THEN @ ELSE events[Len(events)].id]

\* The replay is sent whole; only then is a done in it looked at.
Replay(c) ==
    LET events == Unread(c, ReplayBatch)
    IN  /\ Move(c, "replay", IF HasDone(events) THEN "ended" ELSE "tail")
        /\ Deliver(c, events)
        /\ UNCHANGED <<writerVars, stop, cap, waited, joined>>

\* A blocking read returns events; the first done ends the connection.
TailRead(c) ==
    LET events == Unread(c, TailBatch)
    IN  /\ events # <<>>
        /\ Move(c, "tail", IF HasDone(events) THEN "ended" ELSE "tail")
        /\ Deliver(c, UpToDone(events))
        /\ waited' = [waited EXCEPT ![c] = IF stop[c] = "grace" THEN @ ELSE 0]
        /\ UNCHANGED <<writerVars, stop, cap, joined>>

MayStop(c) ==
    IF stop[c] = "registry" THEN ~InRegistry ELSE waited[c] >= cap[c]

\* Mutation: only a done in the log ends a connection.
GiveUp_never(c) ==
    /\ HasDone(log)
    /\ Unread(c, TailBatch) = <<>> /\ MayStop(c)
    /\ Move(c, "tail", "ended")
    /\ got' = [got EXCEPT ![c] = Append(@, Fallback)]
    /\ UNCHANGED <<writerVars, stop, cap, waited, cursor, joined>>

\* A blocking read returns nothing and the reader may stop: the client is
\* sent a done of the reader's own.
GiveUp(c) ==
    /\ Unread(c, TailBatch) = <<>> /\ MayStop(c)
    /\ Move(c, "tail", "ended")
    /\ got' = [got EXCEPT ![c] = Append(@, Fallback)]
    /\ UNCHANGED <<writerVars, stop, cap, waited, cursor, joined>>

\* Time passes; the idle guard ends a silent agent at its limit, and no
\* blocking read is overdue.
Tick ==
    /\ phase = "running" => silence < IdleLimit
    /\ \A c \in Reader : at[c] = "tail" /\ stop[c] # "registry" => waited[c] < cap[c]
    /\ \/ phase = "running"
       \/ \E c \in Reader : at[c] = "tail" /\ stop[c] # "registry"
    /\ silence' = IF phase = "running" THEN silence + 1 ELSE silence
    /\ waited' = [c \in Reader |->
                    IF at[c] = "tail" /\ stop[c] # "registry" THEN waited[c] + 1
                    ELSE waited[c]]
    /\ UNCHANGED <<round, phase, host, made, buffer, log, lastId, lost,
                   at, stop, cap, cursor, got, joined>>

-----------------------------------------------------------------------------
Request == Begin \/ Clear \/ Launch \/ Abandon

Task == Pick \/ Produce \/ Finish \/ Write \/ WriteFails \/ Flushed \/ JobCut \/ Kill

Opening(c) == Attach(c) \/ ResumeRunning(c) \/ Resume(c)

Reading(c) ==
    \/ ProbeEvents(c) \/ ProbeEmpty(c) \/ Replay(c) \/ TailRead(c) \/ GiveUp(c)

Next == Request \/ Task \/ Tick \/ \E c \in Reader : Opening(c) \/ Reading(c)

Spec == Init /\ [][Next]_vars

\* A started connection is served, a task goes on to its end (its idle guard
\* sees to it) and time passes.  Nobody has to send a message or to connect.
Fairness ==
    /\ \A c \in Reader : WF_vars(Reading(c))
    /\ WF_vars(Finish) /\ WF_vars(Write) /\ WF_vars(Flushed)
    /\ WF_vars(Tick)

FairSpec == Spec /\ Fairness

-----------------------------------------------------------------------------
Told(c, k) == got[c][k].round

\* "Nothing twice, nothing lost" (event_stream.py): what a client has of a
\* round is its events from the first on, one after another in the order of
\* their production, across the buffer, the flush, the batches and the change
\* from replay to tail.  Who got the done of a round, its last event, got all.
Faithful ==
    \A c \in Reader : \A k \in DOMAIN got[c] :
        Told(c, k) \in (1 .. Rounds) \ lost =>
            /\ got[c][k].seq \in 1 .. k
            /\ \A i \in DOMAIN got[c] :
                  /\ Told(c, i) = Told(c, k) => got[c][i].seq + k = got[c][k].seq + i
                  /\ i <= k /\ k < i + got[c][k].seq => Told(c, i) = Told(c, k)

\* A client that resumed a running task of this process is not put off with a
\* made-up done: the log is flushed before the registry forgets the task.
RunningTaskAnswers ==
    \A c \in Reader :
        at[c] = "ended" /\ stop[c] = "registry" /\ joined[c].phase \in {"running", "flush"}
            /\ joined[c].round = round /\ round \notin lost
        => \E k \in DOMAIN got[c] : Told(c, k) = round /\ got[c][k].done

\* Every connection ends, although done may be lost with the flush, the write
\* or the worker: the client unlocks its input on done only.
ConnectionsEnd == \A c \in Reader : (at[c] # "away") ~> (at[c] = "ended")

-----------------------------------------------------------------------------
(* What the code says of itself and does not keep. *)

\* The log is deleted at the start of a round "to avoid replay across rounds"
\* (event_stream.py, clear): who resumes a round is sent events of no earlier.
NoEarlierRound ==
    \A c \in Reader : \A k \in DOMAIN got[c] :
        joined[c].phase # "over" /\ got[c][k].round # 0
            => got[c][k].round >= joined[c].round

\* After the idle cap without an event "the executor is known to be dead"
\* (ai.py, _queue_idle_cap): the full cap never cuts off a running agent.
CapSparesLive ==
    [][\A c \in Reader :
        GiveUp(c) /\ stop[c] = "idle" /\ cap[c] = IdleCap => phase # "running"]_vars

=============================================================================
