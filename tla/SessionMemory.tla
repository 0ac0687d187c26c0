---------------------------- MODULE SessionMemory ----------------------------
(***************************************************************************)
(* The long-term memory of a session: one row of ai_memories that          *)
(* LeadAgent._maybe_summarize extends at the end of a round and            *)
(* chat_task._save_memory writes, from the values the request read before  *)
(* the round.                                                              *)
(*                                                                         *)
(* Round i stores a user message at position 2i - 1 and an assistant       *)
(* message at 2i, in one transaction; the assistant's is empty until the   *)
(* round's task ends, after the memory step.  A summary is the set of the  *)
(* positions it tells of: the model that merges keeps every item, as its   *)
(* prompt demands.                                                         *)
(***************************************************************************)
EXTENDS Integers, FiniteSets, FiniteSetsExt

CONSTANTS
    MaxRound,     \* bound: rounds of the session
    MergeRounds,  \* settings.LEAD_MEMORY_MERGE_ROUNDS
    Window,       \* settings.WINDOW_MAX_ROUNDS
    MaxMessages,  \* settings.LEAD_MEMORY_MAX_MERGE_MESSAGES
    MaxFailures,  \* settings.LEAD_MEMORY_MAX_FAILURES
    FallbackLines \* user lines the rule-based summary keeps

\* The defaults: 6 + 3 <= 8 + 1, a round that finds the circuit open finds the
\* window just full; and 24 >= 2 * (8 + 1), one merge takes in more rounds than
\* the window holds.
ASSUME MemoryAssumption ==
    /\ {MaxRound, MergeRounds, Window, MaxMessages, MaxFailures, FallbackLines}
          \subseteq Nat \ {0}
    /\ MergeRounds + MaxFailures <= Window + 1
    /\ MaxMessages >= 2 * (Window + 1)

Rounds == 1 .. MaxRound
UserAt(i) == 2 * i - 1
AnswerAt(i) == 2 * i
Positions == 1 .. 2 * MaxRound

VARIABLES
    total,   \* rounds begun so far
    first,   \* the first round that was not deleted by "new conversation"
    phase,   \* phase of each round
    context, \* the memory each round read when it began
    filled,  \* positions whose row has content
    memory,  \* the row of ai_memories
    skipped, \* rounds without a memory step since a summary last took in all there was
    lossy,   \* a rule-based summary was written
    overlap  \* two rounds of the session were live at once

memoryVars == <<total, first, phase, context, filled, memory, skipped, lossy, overlap>>

\* Of two overlapping rounds each may count its failure.
Memory == [summary : SUBSET Positions, covered : 0 .. MaxRound,
           watermark : 0 .. 2 * MaxRound, fails : 0 .. MaxFailures + 1, exists : BOOLEAN]

NoMemory == [summary |-> {}, covered |-> 0, watermark |-> 0, fails |-> 0, exists |-> FALSE]

MemoryTypeOK ==
    /\ total \in 0 .. MaxRound /\ first \in 1 .. MaxRound + 1
    /\ phase \in [Rounds -> {"idle", "running", "saving", "over"}]
    /\ context \in [Rounds -> Memory] /\ memory \in Memory
    /\ filled \in SUBSET Positions
    /\ skipped \in Nat /\ {lossy, overlap} \subseteq BOOLEAN

MemoryInit ==
    /\ total = 0 /\ first = 1 /\ phase = [i \in Rounds |-> "idle"]
    /\ context = [i \in Rounds |-> NoMemory] /\ memory = NoMemory
    /\ filled = {} /\ skipped = 0 /\ lossy = FALSE /\ overlap = FALSE

-----------------------------------------------------------------------------
Live(i) == phase[i] \in {"running", "saving"}

\* A request stores its two rows and reads the memory.  The session's lock
\* lets a second round in once its time to live is over.
Begin ==
    /\ total < MaxRound /\ Cardinality({i \in Rounds : Live(i)}) < 2
    /\ total' = total + 1
    /\ phase' = [phase EXCEPT ![total + 1] = "running"]
    /\ context' = [context EXCEPT ![total + 1] = memory]
    /\ filled' = filled \cup {UserAt(total + 1)}
    /\ overlap' = (overlap \/ \E i \in Rounds : Live(i))
    /\ UNCHANGED <<first, memory, skipped, lossy>>

\* "New conversation" on a canvas deletes the session's messages and keeps
\* the session, its memory with it.
NewConversation ==
    /\ first <= total /\ \A i \in Rounds : ~Live(i)
    /\ first' = total + 1
    /\ UNCHANGED <<total, phase, context, filled, memory, skipped, lossy, overlap>>

\* _count_session_user_rounds
Count == total - first + 1

\* _resolve_memory_progress
Progress(i) == IF context[i].covered <= Count THEN context[i].covered ELSE 0

\* Mutation: the newest messages are taken, not the earliest.
Segment_newest(i) ==
    LET from == IF context[i].watermark >= UserAt(first) THEN context[i].watermark + 1
                                                       ELSE UserAt(first)
    IN (IF from > AnswerAt(total) - MaxMessages THEN from ELSE AnswerAt(total) - MaxMessages + 1)
          .. AnswerAt(total)

\* _load_unmerged_messages: the earliest rows after the watermark, from the
\* beginning when its message is gone.
Segment(i) ==
    LET from == IF context[i].watermark >= UserAt(first) THEN context[i].watermark + 1
                                                       ELSE UserAt(first)
    IN from .. (IF from + MaxMessages - 1 < AnswerAt(total) THEN from + MaxMessages - 1
                                                          ELSE AnswerAt(total))

\* A segment holds a user message, so it is never without content.
Kept(i) == Segment(i) \cap filled
UsersOf(S) == {j \in first .. total : UserAt(j) \in S}

\* Mutation: every round up to the last counts as merged.
Covered_guessed(i) == Count - 1

\* The rounds the segment really merges, all but the current one.
Covered(i) == Min({Progress(i) + Cardinality(UsersOf(Kept(i))), Max({0, Count - 1})})

\* Mutation: the circuit never opens.
CircuitOpen_never(i) == FALSE

CircuitOpen(i) == context[i].fails >= MaxFailures

\* Mutation: the throttle ignores the window.
Due_throttled(i) == ~CircuitOpen(i) /\ Count - Progress(i) >= MergeRounds

\* _should_merge_memory, and the circuit breaker's own condition.
Due(i) ==
    /\ Segment(i) # {}
    /\ \/ Count - Progress(i) > Window
       \/ ~CircuitOpen(i) /\ Count - Progress(i) >= MergeRounds

\* The memory step is over, the row of the answer comes next.
Step(i) ==
    /\ phase[i] = "running"
    /\ phase' = [phase EXCEPT ![i] = "saving"]
    /\ UNCHANGED <<total, first, context, filled, overlap>>

\* upsert: summary, progress and watermark are written together.
Upsert(i, old, items) ==
    /\ skipped' = IF Max(Segment(i)) = AnswerAt(total) THEN 0 ELSE skipped
    /\ memory' = [summary |-> old \cup items, covered |-> Covered(i),
                  watermark |-> Max(Segment(i)), fails |-> 0, exists |-> TRUE]

\* Nothing to merge yet.
Wait(i) == ~Due(i) /\ Step(i) /\ UNCHANGED <<memory, skipped, lossy>>

Merge(i) ==
    /\ Due(i) /\ ~CircuitOpen(i)
    /\ Upsert(i, context[i].summary, Kept(i))
    /\ Step(i) /\ UNCHANGED lossy

\* The model fails or returns nothing.
MergeFails(i) ==
    /\ Due(i) /\ ~CircuitOpen(i)
    /\ memory' = [memory EXCEPT !.fails = @ + 1, !.exists = TRUE]
    /\ Step(i) /\ UNCHANGED <<skipped, lossy>>

\* Circuit open: a summary by rule, of the first user lines of the segment,
\* in place of the old one.
Lines(i) == {j \in UsersOf(Kept(i)) :
                Cardinality({k \in UsersOf(Kept(i)) : k < j}) < FallbackLines}

Fallback(i) ==
    /\ Due(i) /\ CircuitOpen(i)
    /\ Upsert(i, {}, {UserAt(j) : j \in Lines(i)})
    /\ Step(i) /\ lossy' = TRUE

\* The round ends before its memory step: the agent failed, was cancelled or
\* ran out of time.
Skip(i) ==
    /\ phase[i] = "running"
    /\ phase' = [phase EXCEPT ![i] = "saving"]
    /\ skipped' = skipped + 1
    /\ UNCHANGED <<total, first, context, filled, memory, lossy, overlap>>

\* The task's finally block stores the answer; a crash before leaves the row
\* empty.
Save(i) ==
    /\ phase[i] = "saving"
    /\ phase' = [phase EXCEPT ![i] = "over"]
    /\ filled' \in {filled, filled \cup {AnswerAt(i)}}
    /\ context' = [context EXCEPT ![i] = NoMemory]
    /\ UNCHANGED <<total, first, memory, skipped, lossy, overlap>>

MemoryNext ==
    \/ Begin \/ NewConversation
    \/ \E i \in Rounds : \/ Wait(i) \/ Merge(i) \/ MergeFails(i)
                         \/ Fallback(i) \/ Skip(i) \/ Save(i)

MemorySpec == MemoryInit /\ [][MemoryNext]_memoryVars

-----------------------------------------------------------------------------
(***************************************************************************)
(* Properties.                                                             *)
(***************************************************************************)
\* Whether nothing was deleted: the positions then count from one.
Whole == first = 1

\* While no summary was written by rule, the summary tells of every user
\* message up to the watermark: summary and watermark belong together, even
\* when two rounds of the session overlap and the later write wins.
SummaryMatchesWatermark ==
    Whole /\ ~lossy => \A j \in Rounds : UserAt(j) <= memory.watermark => UserAt(j) \in memory.summary

\* covered_rounds never claims more rounds than the watermark has crossed.
HonestCount ==
    Whole => memory.covered <= Cardinality({j \in Rounds : UserAt(j) <= memory.watermark})

\* A round that has left the window of the recent messages has been merged,
\* but for as many rounds as ended without their memory step: between the
\* failures, the circuit breaker, the throttle and the limit of a merge no round
\* falls through.
Hole(n) == {j \in first .. total - n : UserAt(j) > memory.watermark}
Settled == total > 0 /\ ~overlap /\ \A i \in Rounds : ~Live(i)
NoHole == Whole /\ Settled => Cardinality(Hole(Window)) <= skipped

\* What the memory may claim: no round below the watermark that the summary does
\* not tell of, none counted that was not merged, none out of the window unmerged.
MemorySound == SummaryMatchesWatermark /\ HonestCount /\ NoHole

\* _should_merge_memory: a round outside the window always has a summary,
\* in the conversation after "new conversation" as well.
NoHoleEver ==
    Settled /\ skipped = 0 => Hole(Window) = {}

\* lead_agent.py: the watermark does not lose the answer of its own round,
\* which is stored later.
AnswersReachMemory ==
    Whole /\ ~overlap /\ ~lossy => \A i \in Rounds :
        AnswerAt(i) \in filled /\ AnswerAt(i) <= memory.watermark => AnswerAt(i) \in memory.summary

=============================================================================
