------------------------------- MODULE ChatStore -------------------------------
(***************************************************************************)
(* The conversations page: the store that outlives the page                *)
(* (stores/aiChatStore.ts) and the page's handlers (pages/AIChat).         *)
(* Histories are fetched whenever the active conversation changes, a       *)
(* stream fills a bubble of its own among the messages, a round that still *)
(* runs on the server is taken up again, and every answer may come late.   *)
(***************************************************************************)
EXTENDS Integers, Sequences, FiniteSets, SequencesExt

CONSTANTS
    Chats,       \* conversations
    NoChat,      \* no conversation
    Slots,       \* bound: streams whose readers are open at a time
    MaxLoads,    \* bound: histories under way
    MaxActs      \* bound: what the user does

ASSUME StoreAssumption == NoChat \notin Chats

VARIABLES
    active,      \* activeSessionId
    mounted,     \* the page is shown
    listed,      \* the store's list: a chat is absent, idle or running
    served,      \* the server: a chat is absent, idle or running
    sources,     \* there is a data source: messages go to the agent
    shown,       \* whose history the messages begin with, and the bubbles among them
    streams,     \* the streams by slot
    agentLock,   \* agentStreamingLock
    plainLock,   \* fallbackStreamingLock
    streaming,   \* isStreaming
    loads,       \* histories asked for
    refreshes,   \* a list was asked for
    creating,    \* sends that wait for a new conversation
    asking,      \* a new conversation or a deletion, and what its handler knew
    acts,        \* acts of the user so far
    excused,     \* streams whose bubble the user or a forced history took away, or
                 \* whose lock the end of another took
    crossed      \* the active chat's history was refused, failed or overwritten

chatVars == <<active, mounted, listed, served, sources, shown, streams, agentLock, plainLock,
              streaming, loads, refreshes, creating, asking, acts, excused, crossed>>

NoStream == [phase |-> "free", chat |-> NoChat, resume |-> FALSE, plain |-> FALSE, then |-> FALSE]
NoList == [c \in Chats |-> "absent"]
Nothing == [of |-> NoChat, bubbles |-> {}]

ChatInit ==
    /\ active = NoChat /\ mounted = TRUE /\ served \in [Chats -> {"absent", "running"}]
    /\ listed = NoList /\ sources \in BOOLEAN
    /\ shown = Nothing /\ streams = [k \in Slots |-> NoStream]
    /\ agentLock = FALSE /\ plainLock = FALSE /\ streaming = FALSE
    /\ loads = <<>> /\ refreshes = TRUE /\ creating = 0 /\ asking = <<>>
    /\ acts = 0 /\ excused = {} /\ crossed = FALSE

-----------------------------------------------------------------------------
(* Histories and streams. *)

Load(chat, force, then) == [chat |-> chat, force |-> force, then |-> then]
Room == Len(loads) < MaxLoads
Open == {k \in Slots : streams[k].phase = "open"}
FreeSlot == {k \in Slots : streams[k].phase = "free"}

\* setActiveSession and the page's effect, with the loads that are left.
Activate_forgets(chat, rest) == active' = chat /\ loads' = rest
Activate(chat, rest) ==
    /\ active' = chat
    /\ loads' = IF mounted /\ chat \notin {active, NoChat}
                THEN Append(rest, Load(chat, FALSE, FALSE)) ELSE rest

\* streamChat: nothing happens behind the lock.
BeginAgent(k, chat, resume, then, messages) ==
    /\ streams' = [streams EXCEPT ![k] =
           [phase |-> "open", chat |-> chat, resume |-> resume, plain |-> FALSE, then |-> then]]
    /\ agentLock' = TRUE /\ streaming' = TRUE
    /\ shown' = [messages EXCEPT !.bubbles = @ \cup {k}]
    /\ excused' = excused \ {k}
    /\ served' = IF resume THEN served ELSE [served EXCEPT ![chat] = "running"]

\* A history answers: refused while a stream runs unless it is forced; a chat that
\* is listed as running is taken up again.
HistoryComes_overStream(i) ==
    LET l == loads[i]
        messages == [of |-> l.chat, bubbles |-> {}]
    IN /\ loads' = RemoveAt(loads, i)
       /\ crossed' = IF l.chat = active THEN FALSE ELSE TRUE
       /\ shown' = messages
       /\ refreshes' = (refreshes \/ l.then)
       /\ excused' = IF l.force THEN excused \cup Open ELSE excused
       /\ UNCHANGED <<streams, agentLock, streaming, served>>
       /\ UNCHANGED <<active, mounted, listed, sources, plainLock, creating, asking, acts>>
HistoryComes(i) ==
    LET l == loads[i]
        refused == ~l.force /\ streaming
        messages == [of |-> l.chat, bubbles |-> {}]
        takeUp == listed[l.chat] = "running" /\ ~streaming
    IN /\ loads' = RemoveAt(loads, i)
       /\ crossed' = IF l.chat = active THEN refused ELSE (crossed \/ ~refused)
       /\ IF refused
          THEN /\ refreshes' = (refreshes \/ l.then)
               /\ UNCHANGED <<shown, streams, agentLock, streaming, served, excused>>
          ELSE IF takeUp /\ ~agentLock
          THEN /\ \E k \in FreeSlot : BeginAgent(k, l.chat, TRUE, l.then, messages)
               /\ UNCHANGED refreshes
          ELSE /\ shown' = messages
               /\ excused' = IF l.force THEN excused \cup Open ELSE excused
               /\ refreshes' = (refreshes \/ l.then)
               /\ UNCHANGED <<streams, agentLock, streaming, served>>
       /\ UNCHANGED <<active, mounted, listed, sources, plainLock, creating, asking, acts>>

HistoryFails(i) ==
    /\ loads' = RemoveAt(loads, i)
    /\ refreshes' = (refreshes \/ loads[i].then)
    /\ crossed' = (crossed \/ loads[i].chat = active)
    /\ UNCHANGED <<active, mounted, listed, served, sources, shown, streams, agentLock,
                   plainLock, streaming, creating, asking, acts, excused>>

\* refreshSessions; a failure is swallowed.
ListAnswers(list) ==
    /\ refreshes /\ refreshes' = FALSE
    /\ listed' = list
    /\ UNCHANGED <<active, mounted, served, sources, shown, streams, agentLock, plainLock,
                   streaming, loads, creating, asking, acts, excused, crossed>>
ListComes == ListAnswers(served)
ListFails == ListAnswers(listed)

\* The done event of the agent's stream: the input is free again, though the reader
\* still runs; of a resumed round the stored messages are fetched instead.
Done(k) ==
    LET s == streams[k] IN
    /\ s.phase = "open" /\ ~s.plain
    /\ streams' = [streams EXCEPT ![k].phase = "done"]
    /\ agentLock' = FALSE /\ streaming' = FALSE
    /\ IF s.resume
       THEN /\ Room /\ loads' = Append(loads, Load(s.chat, TRUE, TRUE))
            /\ shown' = [shown EXCEPT !.bubbles = @ \ {k}]
       ELSE UNCHANGED <<loads, shown>>
    /\ excused' = excused \cup (Open \ {k})
    /\ UNCHANGED <<active, mounted, listed, served, sources, plainLock, refreshes, creating,
                   asking, acts, crossed>>

\* The reader ends, after done or without it: whoever waits for the stream goes on.
\* A stream begun since done loses its lock with it.
CloseStream(k) ==
    LET s == streams[k] IN
    /\ s.phase \in {"open", "done"} /\ ~s.plain
    /\ streams' = [streams EXCEPT ![k] = NoStream]
    /\ agentLock' = FALSE /\ streaming' = FALSE
    /\ refreshes' = (refreshes \/ s.then)
    /\ shown' = [shown EXCEPT !.bubbles = @ \ {k}]
    /\ excused' = excused \cup (Open \ {k})
    /\ UNCHANGED <<active, mounted, listed, served, sources, plainLock, loads, creating, asking,
                   acts, crossed>>

\* The server's task ends.
TaskEnds(chat) ==
    /\ served[chat] = "running" /\ served' = [served EXCEPT ![chat] = "idle"]
    /\ UNCHANGED <<active, mounted, listed, sources, shown, streams, agentLock, plainLock,
                   streaming, loads, refreshes, creating, asking, acts, excused, crossed>>

-----------------------------------------------------------------------------
(* Messages without a data source: sendFallback waits for the history and the  *)
(* list before its reader goes on.                                             *)

BeginPlain(k, chat) ==
    /\ streams' = [streams EXCEPT ![k] =
           [phase |-> "open", chat |-> chat, resume |-> FALSE, plain |-> TRUE, then |-> FALSE]]
    /\ plainLock' = TRUE /\ streaming' = TRUE
    /\ shown' = [shown EXCEPT !.bubbles = @ \cup {k}]
    /\ excused' = excused \ {k}
    /\ UNCHANGED agentLock

\* done: the forced history, of this chat whatever is active by now, and the list.
PlainDone(k) ==
    LET s == streams[k] IN
    /\ s.plain /\ s.phase = "open"
    /\ streams' = [streams EXCEPT ![k].phase = "done"]
    /\ \/ /\ shown' = [of |-> s.chat, bubbles |-> {}]
          /\ crossed' = (crossed \/ s.chat # active) /\ excused' = excused \cup Open
       \/ UNCHANGED <<shown, crossed, excused>>
    /\ refreshes' = TRUE
    /\ UNCHANGED <<active, mounted, listed, served, sources, agentLock, plainLock, streaming,
                   loads, creating, asking, acts>>

PlainClose(k) ==
    LET s == streams[k] IN
    /\ s.plain /\ (s.phase = "done" => ~refreshes) /\ s.phase # "free"
    /\ streams' = [streams EXCEPT ![k] = NoStream]
    /\ excused' = excused \cup (Open \ {k})
    /\ plainLock' = FALSE /\ streaming' = FALSE
    /\ shown' = [shown EXCEPT !.bubbles = @ \ {k}]
    /\ UNCHANGED <<active, mounted, listed, served, sources, agentLock, loads, refreshes,
                   creating, asking, acts, crossed>>

-----------------------------------------------------------------------------
(* The user. *)

Act == acts < MaxActs /\ acts' = acts + 1

\* handleSend and sendChat: without a chat one is created first.
Send ==
    /\ Act /\ ~streaming /\ ~agentLock /\ ~plainLock
    /\ IF active = NoChat
       THEN /\ creating' = creating + 1
            /\ UNCHANGED <<streams, agentLock, plainLock, streaming, shown, excused, served>>
       ELSE /\ UNCHANGED creating
            /\ \E k \in FreeSlot :
                  IF sources THEN BeginAgent(k, active, FALSE, FALSE, shown) /\ UNCHANGED plainLock
                  ELSE BeginPlain(k, active) /\ UNCHANGED served
    /\ UNCHANGED <<active, mounted, listed, sources, loads, refreshes, asking, crossed>>

\* The chat is there: it becomes the active one, and the message goes out unless a
\* stream has begun in the meantime.  Its id is new.
Created(chat) ==
    /\ creating > 0 /\ creating' = creating - 1 /\ Room
    /\ served[chat] = "absent" /\ chat # active
    /\ listed' = [listed EXCEPT ![chat] = "idle"]
    /\ Activate(chat, loads)
    /\ crossed' = ~mounted
    /\ IF sources /\ ~agentLock
       THEN (\E k \in FreeSlot : BeginAgent(k, chat, FALSE, FALSE, shown)) /\ UNCHANGED plainLock
       ELSE IF ~sources /\ ~plainLock
       THEN served' = [served EXCEPT ![chat] = "idle"] /\ \E k \in FreeSlot : BeginPlain(k, chat)
       ELSE /\ served' = [served EXCEPT ![chat] = "idle"]
            /\ UNCHANGED <<streams, agentLock, plainLock, streaming, shown, excused>>
    /\ UNCHANGED <<mounted, sources, refreshes, asking, acts>>

CreationFails_anyTime ==
    /\ creating' = creating - 1
    /\ UNCHANGED <<active, mounted, listed, served, sources, shown, streams, agentLock,
                   plainLock, streaming, loads, refreshes, asking, acts, excused, crossed>>
CreationFails ==
    /\ creating > 0 /\ creating' = creating - 1
    /\ UNCHANGED <<active, mounted, listed, served, sources, shown, streams, agentLock,
                   plainLock, streaming, loads, refreshes, asking, acts, excused, crossed>>

Select(chat) ==
    /\ Act /\ Room /\ mounted /\ listed[chat] # "absent" /\ chat # active
    /\ Activate(chat, loads)
    /\ crossed' = FALSE
    /\ UNCHANGED <<mounted, listed, served, sources, shown, streams, agentLock, plainLock,
                   streaming, refreshes, creating, asking, excused>>

\* handleNewSession and handleDeleteSession, each in two steps: what the page was
\* rendered with, its list and its active chat, comes back with the answer.
AskServer(chat) ==
    /\ Act /\ mounted /\ asking = <<>>
    /\ asking' = <<[chat |-> chat, list |-> listed, active |-> active]>>
    /\ UNCHANGED <<active, mounted, listed, served, sources, shown, streams, agentLock,
                   plainLock, streaming, loads, refreshes, creating, excused, crossed>>
NewChat == AskServer(NoChat)
Delete(chat) == listed[chat] # "absent" /\ AskServer(chat)

Opened(chat) ==
    /\ asking # <<>> /\ asking[1].chat = NoChat /\ asking' = <<>> /\ Room
    /\ served[chat] = "absent" /\ served' = [served EXCEPT ![chat] = "idle"]
    /\ listed' = [asking[1].list EXCEPT ![chat] = "idle"]
    /\ Activate(chat, loads)
    /\ shown' = [of |-> chat, bubbles |-> {}]
    /\ excused' = excused \cup Open
    /\ crossed' = FALSE
    /\ UNCHANGED <<mounted, sources, streams, agentLock, plainLock, streaming, refreshes,
                   creating, acts>>

Deleted(chat) ==
    /\ asking # <<>> /\ asking[1].chat = chat /\ asking' = <<>>
    /\ listed' = [asking[1].list EXCEPT ![chat] = "absent"]
    /\ served' = [served EXCEPT ![chat] = "absent"]
    /\ IF asking[1].active = chat
       THEN /\ active' = NoChat /\ shown' = Nothing /\ crossed' = FALSE
            /\ excused' = excused \cup Open
       ELSE UNCHANGED <<active, shown, crossed, excused>>
    /\ UNCHANGED <<mounted, sources, streams, agentLock, plainLock, streaming, loads, refreshes,
                   creating, acts>>

AskFails ==
    /\ asking # <<>> /\ asking' = <<>>
    /\ UNCHANGED <<active, mounted, listed, served, sources, shown, streams, agentLock,
                   plainLock, streaming, loads, refreshes, creating, acts, excused, crossed>>

\* Another page, and back: the list and the active chat's history are asked for.
LeavePage ==
    /\ Act /\ mounted /\ mounted' = FALSE
    /\ UNCHANGED <<active, listed, served, sources, shown, streams, agentLock, plainLock,
                   streaming, loads, refreshes, creating, asking, excused, crossed>>
Return ==
    /\ ~mounted /\ mounted' = TRUE /\ Room
    /\ refreshes' = TRUE
    /\ loads' = IF active = NoChat THEN loads ELSE Append(loads, Load(active, FALSE, FALSE))
    /\ UNCHANGED <<active, listed, served, sources, shown, streams, agentLock, plainLock,
                   streaming, creating, asking, acts, excused, crossed>>

ChatNext ==
    \/ \E i \in DOMAIN loads : HistoryComes(i) \/ HistoryFails(i)
    \/ ListComes \/ ListFails
    \/ \E k \in Slots : Done(k) \/ CloseStream(k) \/ PlainDone(k) \/ PlainClose(k)
    \/ \E c \in Chats : TaskEnds(c) \/ Created(c) \/ Select(c) \/ Opened(c)
                     \/ Delete(c) \/ Deleted(c)
    \/ Send \/ CreationFails \/ NewChat \/ AskFails \/ LeavePage \/ Return

ChatSpec == ChatInit /\ [][ChatNext]_chatVars

-----------------------------------------------------------------------------
(* Properties. *)

ChatTypeOK ==
    /\ active \in Chats \cup {NoChat} /\ shown.of \in Chats \cup {NoChat}
    /\ shown.bubbles \subseteq Slots /\ excused \subseteq Slots
    /\ \A k \in Slots : streams[k].phase \in {"free", "open", "done"}
    /\ listed \in [Chats -> {"absent", "idle", "running"}]
    /\ served \in [Chats -> {"absent", "idle", "running"}]
    /\ Len(loads) <= MaxLoads /\ creating \in 0 .. MaxActs /\ acts \in 0 .. MaxActs
    /\ {agentLock, plainLock, streaming, mounted, sources, refreshes, crossed} \subseteq BOOLEAN

\* No history that comes while a stream runs takes the bubble the stream writes to: only
\* the user, the forced history after a round that was taken up again, or a history
\* that comes once an earlier reader's end has freed the lock of this one, does.
BubbleKept == \A k \in Open \ excused : k \in shown.bubbles

\* When nothing is under way the page shows the active conversation, unless its
\* history was refused (chosen while a stream ran), failed, or was overwritten by
\* the late history of another.
ShowsActive ==
    Open = {} /\ loads = <<>> /\ ~crossed => shown.of \in {active, NoChat}

ChatStoreSound == BubbleKept /\ ShowsActive

=============================================================================
