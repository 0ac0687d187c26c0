----------------------------- MODULE DuckWindow -----------------------------
(***************************************************************************)
(* The write window of core/duckdb_client.py with DUCKDB_READ_ONLY: several *)
(* processes read the DuckDB file through a read-only connection each, and *)
(* one that has to write asks the others, through Redis, to let go of it:  *)
(*   intent   duckdb:write-intent, with a TTL;                             *)
(*   beat     duckdb:reader:{pid}, with a TTL, renewed by a coordination   *)
(*            thread in every process that reads.                          *)
(* The threads of a process (queries, one window, the coordination loop)   *)
(* interleave freely; a connection is opened and closed under _conn_lock.  *)
(* Ages count down the ticks a key has left, 0 when it is absent.  Every   *)
(* coordination loop runs at least once between two ticks.                 *)
(***************************************************************************)
EXTENDS Naturals

CONSTANTS
    Process,    \* processes on the file; one that restarts has a new pid
    Windows,    \* bound: windows each process opens
    ReaderTTL,  \* _READER_TTL, in ticks
    IntentTTL,  \* TTL of the intent, in ticks
    WaitLimit   \* _INTENT_WAIT_TIMEOUT, in ticks

ASSUME WindowsAssumption == Windows \in Nat

ASSUME TTLAssumption ==
    /\ ReaderTTL \in Nat \ {0}
    /\ WaitLimit \in Nat /\ WaitLimit > ReaderTTL
    /\ IntentTTL \in Nat /\ IntentTTL > WaitLimit

VARIABLES
    conn,       \* DuckDBClient._conn: "none", "ro" or "rw"
    registered, \* processes whose _registered is set
    beat,       \* ticks the heartbeat of each process has left
    intent,     \* ticks the write intent has left
    pc,         \* where the window of each process stands
    waited,     \* ticks it has waited for the readers
    opened,     \* windows it has begun
    loop,       \* coordination loop: "off", "due", "renew" or "asleep"
    alive

duckVars == <<conn, registered, beat, intent, pc, waited, opened, loop, alive>>

DuckTypeOK ==
    /\ conn \in [Process -> {"none", "ro", "rw"}]
    /\ registered \subseteq Process
    /\ beat \in [Process -> 0 .. ReaderTTL]
    /\ intent \in 0 .. IntentTTL
    /\ pc \in [Process -> {"idle", "leave", "announce", "await", "open", "write",
                           "close", "retract"}]
    /\ waited \in [Process -> 0 .. WaitLimit]
    /\ opened \in [Process -> 0 .. Windows]
    /\ loop \in [Process -> {"off", "due", "renew", "asleep"}]
    /\ alive \subseteq Process

DuckInit ==
    /\ conn = [p \in Process |-> "none"]
    /\ registered = {}
    /\ beat = [p \in Process |-> 0]
    /\ intent = 0
    /\ pc = [p \in Process |-> "idle"]
    /\ waited = [p \in Process |-> 0]
    /\ opened = [p \in Process |-> 0]
    /\ loop = [p \in Process |-> "off"]
    /\ alive = Process

-----------------------------------------------------------------------------
(***************************************************************************)
(* The rule of DuckDB: many processes may read a file, or one may write it *)
(* and no other process has it open; within a process the two modes do not *)
(* mix.                                                                    *)
(***************************************************************************)
MayRead(p) == \A q \in Process : conn[q] # "rw"
MayWrite(p) == \A q \in Process : conn[q] = "none"

\* A query needs a connection and opens it; it does not look at the intent.
Query(p) ==
    /\ p \in alive
    /\ conn[p] = "none" /\ MayRead(p)
    /\ conn' = [conn EXCEPT ![p] = "ro"]
    /\ registered' = registered \cup {p}
    /\ loop' = [loop EXCEPT ![p] = IF @ = "off" THEN "due" ELSE @]
    /\ UNCHANGED <<beat, intent, pc, waited, opened, alive>>

(***************************************************************************)
(* The coordination loop: look at the intent, then renew the heartbeat.    *)
(***************************************************************************)
\* With the intent up a registered reader fails on the unbound name _client,
\* and the loop swallows the exception: nothing is closed, nothing renewed.
Look(p) ==
    /\ loop[p] = "due"
    /\ loop' = [loop EXCEPT ![p] =
                    IF intent = 0 /\ p \in registered THEN "renew" ELSE "asleep"]
    /\ UNCHANGED <<conn, registered, beat, intent, pc, waited, opened, alive>>

Renew(p) ==
    /\ loop[p] = "renew"
    /\ beat' = [beat EXCEPT ![p] = ReaderTTL]
    /\ loop' = [loop EXCEPT ![p] = "asleep"]
    /\ UNCHANGED <<conn, registered, intent, pc, waited, opened, alive>>

(***************************************************************************)
(* write_window, one window of a process at a time (_write_lock).          *)
(***************************************************************************)
Step(p, from, to) == pc[p] = from /\ pc' = [pc EXCEPT ![p] = to]

Enter(p) ==
    /\ p \in alive /\ opened[p] < Windows
    /\ Step(p, "idle", "leave")
    /\ opened' = [opened EXCEPT ![p] = @ + 1]
    /\ conn' = [conn EXCEPT ![p] = "none"]
    /\ UNCHANGED <<registered, beat, intent, waited, loop, alive>>

Leave(p) ==
    /\ Step(p, "leave", "announce")
    /\ registered' = registered \ {p}
    /\ beat' = [beat EXCEPT ![p] = 0]
    /\ UNCHANGED <<conn, intent, waited, opened, loop, alive>>

Announce(p) ==
    /\ Step(p, "announce", "await")
    /\ intent' = IntentTTL
    /\ waited' = [waited EXCEPT ![p] = 0]
    /\ UNCHANGED <<conn, registered, beat, opened, loop, alive>>

ForeignReaders(p) == {q \in Process \ {p} : beat[q] > 0}

\* Mutation: the writer waits for the readers without a limit.
Await_forever(p) ==
    /\ ForeignReaders(p) = {}
    /\ Step(p, "await", "open")
    /\ UNCHANGED <<conn, registered, beat, intent, waited, opened, loop, alive>>

\* The readers are gone, or the wait is over and the window fails.
Await(p) ==
    /\ \/ ForeignReaders(p) = {} /\ Step(p, "await", "open")
       \/ /\ ForeignReaders(p) # {} /\ waited[p] >= WaitLimit
          /\ Step(p, "await", "close")
    /\ UNCHANGED <<conn, registered, beat, intent, waited, opened, loop, alive>>

Open(p) ==
    /\ IF MayWrite(p)
       THEN Step(p, "open", "write") /\ conn' = [conn EXCEPT ![p] = "rw"]
       ELSE Step(p, "open", "close") /\ UNCHANGED conn
    /\ UNCHANGED <<registered, beat, intent, waited, opened, loop, alive>>

\* The body of the window is over or raises.
Written(p) ==
    /\ Step(p, "write", "close")
    /\ UNCHANGED <<conn, registered, beat, intent, waited, opened, loop, alive>>

\* Mutation: the finally block closes only what the window opened.
Close_ownOnly(p) ==
    /\ Step(p, "close", "retract")
    /\ conn' = [conn EXCEPT ![p] = IF @ = "rw" THEN "none" ELSE @]
    /\ UNCHANGED <<registered, beat, intent, waited, opened, loop, alive>>

Close(p) ==
    /\ Step(p, "close", "retract")
    /\ conn' = [conn EXCEPT ![p] = "none"]
    /\ UNCHANGED <<registered, beat, intent, waited, opened, loop, alive>>

\* clear_intent deletes the key, whoever wrote it.
Retract(p) ==
    /\ Step(p, "retract", "idle")
    /\ intent' = 0
    /\ UNCHANGED <<conn, registered, beat, waited, opened, loop, alive>>

-----------------------------------------------------------------------------
\* A process dies: the file is free again, its keys live on.
Die(p) ==
    /\ p \in alive
    /\ alive' = alive \ {p}
    /\ conn' = [conn EXCEPT ![p] = "none"]
    /\ registered' = registered \ {p}
    /\ pc' = [pc EXCEPT ![p] = "idle"]
    /\ loop' = [loop EXCEPT ![p] = "off"]
    /\ UNCHANGED <<beat, intent, waited, opened>>

\* Mutation: a key does not expire.
Left_forever(ticks) == ticks

\* Mutation: a key that is gone goes on ageing.
Left_below(ticks) == ticks - 1

Left(ticks) == IF ticks > 0 THEN ticks - 1 ELSE 0

Tick ==
    /\ \A p \in Process :
          /\ loop[p] \in {"off", "asleep"}
          /\ pc[p] = "await" => waited[p] < WaitLimit
    /\ beat' = [p \in Process |-> Left(beat[p])]
    /\ intent' = Left(intent)
    /\ waited' = [p \in Process |-> IF pc[p] = "await" THEN waited[p] + 1 ELSE waited[p]]
    /\ loop' = [p \in Process |-> IF loop[p] = "off" THEN "off" ELSE "due"]
    /\ UNCHANGED <<conn, registered, pc, opened, alive>>

Window(p) ==
    \/ Leave(p) \/ Announce(p) \/ Await(p) \/ Open(p) \/ Written(p)
    \/ Close(p) \/ Retract(p)

Coordination(p) == Look(p) \/ Renew(p)

DuckNext ==
    \/ \E p \in Process : Query(p) \/ Coordination(p) \/ Enter(p) \/ Window(p) \/ Die(p)
    \/ Tick

DuckSpec == DuckInit /\ [][DuckNext]_duckVars

\* Threads run, a window's body ends, time passes.
DuckFair ==
    /\ \A p \in Process : WF_duckVars(Window(p)) /\ WF_duckVars(Coordination(p))
    /\ WF_duckVars(Tick)

DuckFairSpec == DuckSpec /\ DuckFair

-----------------------------------------------------------------------------
\* Outside its own window a process that reads is one the writers can know
\* of: a query may slip in between the steps of a window of its process, but
\* no unregistered connection survives that window.
ReadersRegister ==
    \A p \in Process : pc[p] = "idle" /\ conn[p] = "ro" => p \in registered

\* A window ends, whatever the readers and the other writers do: the error at
\* the limit "instead of hanging" (_INTENT_WAIT_TIMEOUT).
WindowsEnd == \A p \in Process : (pc[p] # "idle") ~> (pc[p] = "idle")

\* The intent of a writer that died does not keep the readers from renewing
\* their heartbeats for ever.
IntentHeals == (intent > 0) ~> (intent = 0)

\* What the code says of itself and does not keep: a heartbeat is there as
\* long as the connection is ("it proves that this process still holds it").
\* Outside a window of its own, a reader's heartbeat lapses only by its death.
BeatOutlivesNobody ==
    [][\A p \in Process :
        Tick /\ pc[p] = "idle" /\ beat[p] = 1 => conn[p] # "ro"]_duckVars

=============================================================================
