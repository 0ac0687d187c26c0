-------------------------------- MODULE Boards --------------------------------
(***************************************************************************)
(* One dashboard, its owner's open page and what reaches the page: the     *)
(* payload that is cached for refresh_interval, the refreshes by hand, by  *)
(* cron and after a change of a metric, and the events of the owner's SSE  *)
(* queue.  Charts and layout are a version; so is what their queries give. *)
(***************************************************************************)
EXTENDS Integers, Sequences

CONSTANTS
    Capacity,   \* _QUEUE_MAXSIZE
    MaxEdits,   \* bound: edits of the dashboard
    MaxEvents   \* bound: events published

ASSUME BoardsAssumption == {Capacity, MaxEdits, MaxEvents} \subseteq Nat \ {0}

VARIABLES
    board,      \* the row: live, in the trash, or gone
    version,    \* charts and layout, as committed
    scheduled,  \* refresh_enabled
    job,        \* the scheduler of this process has the job
    payload,    \* cache entry dashboard:{id}:data, 0 if there is none
    build,      \* a page request that missed it: the version it read
    page,       \* version on the page
    due,        \* the page is to fetch
    refresh,    \* refresh_dashboard_and_notify is running
    queue,      \* events of the owner's connection, by number; 0: not of this dashboard
    open,       \* the page is connected
    published,  \* number of events
    heard,      \* ghost: number of the last event this connection handed on, or missed
    told        \* ghost: version of the last refresh that was announced

boardsVars == <<board, version, scheduled, job, payload, build, page, due, refresh, queue, open,
                published, heard, told>>

Edits == 1 .. MaxEdits + 1

BoardsTypeOK ==
    /\ board \in {"live", "trash", "gone"} /\ version \in Edits
    /\ scheduled \in BOOLEAN /\ job \in BOOLEAN /\ due \in BOOLEAN /\ open \in BOOLEAN
    /\ {payload, build, page, told} \subseteq 0 .. version
    /\ refresh \in BOOLEAN /\ published \in 0 .. MaxEvents /\ heard \in 0 .. published
    /\ queue \in Seq([no : 1 .. published, ours : BOOLEAN]) /\ Len(queue) <= Capacity
    /\ ~open => queue = <<>>

BoardsInit ==
    /\ board = "live" /\ version = 1 /\ scheduled = FALSE /\ job = FALSE
    /\ payload = 0 /\ build = 0 /\ page = 0 /\ due = TRUE
    /\ refresh = FALSE /\ queue = <<>> /\ open = FALSE /\ published = 0 /\ heard = 0 /\ told = 0

-----------------------------------------------------------------------------
\* add_chart, pin, update_layout: the payload stays.  Nothing looks at deleted_at.
Edit ==
    /\ board # "gone" /\ version <= MaxEdits /\ version' = version + 1
    /\ UNCHANGED <<board, scheduled, job, payload, build, page, due, refresh, queue, open,
                   published, heard, told>>

\* get_dashboard_data, from the page: a hit is shown; a miss reads the row, and the
\* payload is cached when the queries are done.
Fetch ==
    /\ due /\ build = 0 /\ board # "gone"
    /\ IF payload # 0 THEN page' = payload /\ due' = FALSE /\ UNCHANGED build
       ELSE build' = version /\ UNCHANGED <<page, due>>
    /\ UNCHANGED <<board, version, scheduled, job, payload, refresh, queue, open, published,
                   heard, told>>
Built ==
    /\ build # 0 /\ payload' = build /\ page' = build /\ build' = 0 /\ due' = FALSE
    /\ UNCHANGED <<board, version, scheduled, job, refresh, queue, open, published, heard,
                   told>>

\* set with ttl = refresh_interval, in both layers.
\* Mutation: the copy in memory has none, as the queries' copies.
Expires_never == FALSE
Expires == payload # 0
Expire ==
    /\ Expires /\ payload' = 0
    /\ UNCHANGED <<board, version, scheduled, job, build, page, due, refresh, queue, open,
                   published, heard, told>>

\* The page is opened again, or by hand refreshed and fetched.
Reopen ==
    /\ ~due /\ due' = TRUE
    /\ UNCHANGED <<board, version, scheduled, job, payload, build, page, refresh, queue, open,
                   published, heard, told>>

-----------------------------------------------------------------------------
\* SSEManager.publish: a full queue loses its oldest event.
\* Mutation: it loses the new one; or nothing is dropped.
Queued_unbounded(event) == Append(queue, event)
Queued_dropped(event) == IF Len(queue) < Capacity THEN Append(queue, event) ELSE queue
Queued(event) == Append(IF Len(queue) < Capacity THEN queue ELSE Tail(queue), event)
Publish(ours) ==
    /\ published < MaxEvents /\ published' = published + 1
    /\ queue' = IF open THEN Queued([no |-> published + 1, ours |-> ours]) ELSE queue

Other ==
    /\ Publish(FALSE)
    /\ UNCHANGED <<board, version, scheduled, job, payload, build, page, due, refresh, open,
                   heard, told>>

\* refresh_dashboard_and_notify: refresh_dashboard_data runs the queries and returns
\* a payload that nobody keeps; a dashboard that is gone raises.
Refresh ==
    /\ ~refresh /\ refresh' = TRUE
    /\ UNCHANGED <<board, version, scheduled, job, payload, build, page, due, queue, open,
                   published, heard, told>>
Announce ==
    /\ refresh /\ refresh' = FALSE
    /\ IF board = "gone" THEN UNCHANGED <<queue, published, told>>
       ELSE Publish(TRUE) /\ told' = version
    /\ UNCHANGED <<board, version, scheduled, job, payload, build, page, due, open, heard>>

\* /notifications/stream, its client's connection, and the events handed on.
Connect ==
    /\ ~open /\ open' = TRUE /\ heard' = published
    /\ UNCHANGED <<board, version, scheduled, job, payload, build, page, due, refresh, queue,
                   published, told>>
Disconnect ==
    /\ open /\ open' = FALSE /\ queue' = <<>>
    /\ UNCHANGED <<board, version, scheduled, job, payload, build, page, due, refresh,
                   published, heard, told>>
Hear ==
    /\ queue # <<>> /\ queue' = Tail(queue) /\ heard' = Head(queue).no
    /\ due' = (due \/ Head(queue).ours)
    /\ UNCHANGED <<board, version, scheduled, job, payload, build, page, refresh, open,
                   published, told>>

-----------------------------------------------------------------------------
\* schedule_refresh writes the row; the service is built without the scheduler, which
\* reads the rows when the process starts.
Schedule ==
    /\ board # "gone" /\ scheduled' = ~scheduled
    /\ UNCHANGED <<board, version, job, payload, build, page, due, refresh, queue, open,
                   published, heard, told>>
Restart ==
    /\ job' = (scheduled /\ board = "live")
    /\ build' = 0 /\ refresh' = FALSE /\ queue' = <<>> /\ open' = FALSE
    /\ payload' \in {0, payload}
    /\ UNCHANGED <<board, version, scheduled, page, due, published, heard, told>>

\* _execute_refresh: as a refresh by hand, it leaves nothing; when it fails, the owner
\* gets an event.
Cron ==
    /\ job /\ board # "gone" /\ Publish(FALSE)
    /\ UNCHANGED <<board, version, scheduled, job, payload, build, page, due, refresh, open,
                   heard, told>>

\* delete, restore and permanent_delete.
Move(from, to) ==
    /\ board = from /\ board' = to
    /\ UNCHANGED <<version, scheduled, job, payload, build, page, due, refresh, queue, open,
                   published, heard, told>>
MoveToTrash == Move("live", "trash") \/ Move("trash", "trash")
Recover == Move("trash", "live")
Purge == Move("trash", "gone")

BoardsNext ==
    \/ Edit \/ Fetch \/ Built \/ Expire \/ Reopen \/ Other \/ Refresh \/ Announce
    \/ Connect \/ Disconnect \/ Hear \/ Schedule \/ Restart \/ Cron \/ MoveToTrash \/ Recover \/ Purge
BoardsFair ==
    /\ WF_boardsVars(Fetch) /\ SF_boardsVars(Built) /\ WF_boardsVars(Expire)
    /\ WF_boardsVars(Reopen) /\ WF_boardsVars(Hear)
BoardsSpec == BoardsInit /\ [][BoardsNext]_boardsVars /\ BoardsFair

-----------------------------------------------------------------------------
\* A page that keeps being opened shows the dashboard as it is in the end, although
\* no edit clears the payload and one that was built before an edit may be cached
\* after it.
CatchesUp == <>[](page = version \/ board = "gone")

\* However many events come at once, the newest comes to a page that stays connected
\* (publish: a full queue loses the oldest, so that the newest is delivered).
NewestHeard == []<>(~open \/ heard = published)

\* What refresh_dashboard_and_notify says of itself: the new data overwrites the cache
\* before the page is told to fetch.  Nothing writes it, see the README.
CacheFollows == told # 0 /\ payload # 0 => payload >= told
=============================================================================
