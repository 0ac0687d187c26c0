------------------------------ MODULE LeadAgent ------------------------------
(***************************************************************************)
(* The lead agent (services/agents/lead): what happens inside one round    *)
(* between the request's message and its done event, for the requests of   *)
(* one session, one after the other.                                       *)
(*                                                                         *)
(* Two loops share the confirmation guard, the worker and the end of the   *)
(* turn.  "legacy" (LeadAgent.stream) asks a decider for one decision per  *)
(* round; "single_agent" (stream_unified) hands the model a table of tools *)
(* and executes the calls of each of its replies in order.  What the model *)
(* writes is arbitrary: a reply is a number of calls, and each call is     *)
(* chosen when the loop reaches it.                                        *)
(***************************************************************************)
EXTENDS Naturals, FiniteSets

CONSTANTS
    Goals,      \* the goals a user states or the model dispatches
    ClearGoal,  \* the one that says "clear the canvas"
    NoGoal,
    MaxSteps,   \* settings.LEAD_AGENT_MAX_STEPS
    MaxRounds,  \* settings.LEAD_MAX_SUPERVISOR_ROUNDS
    Quota,      \* lead_agent_tools.QUOTA
    MaxCalls,   \* bound: tool calls in one reply of the model
    MaxRequests \* bound: requests of the session

ASSUME LeadAssumption ==
    /\ ClearGoal \in Goals /\ NoGoal \notin Goals
    /\ {MaxSteps, MaxRounds, MaxCalls, MaxRequests} \subseteq Nat \ {0}
    /\ Quota \in [{"observe", "dispatch", "repair"} -> Nat]

VARIABLES
    mode,      \* settings.LEAD_AGENT_MODE
    entry,     \* "chat" or "canvas"
    pending,   \* the parked goal of lead_session_state and who parked it
    request,   \* the index of the current request
    guarded,   \* the last request whose confirmation guard ran
    msg,       \* the goal the user's message states
    resumed,   \* the parked goal this request resumed, or NoGoal
    pc, step, left,
    open,      \* calls of the reply at hand that have no answer yet
    ctxOpen,   \* calls without an answer in the messages of the next reply
    remaining, \* what is left of Quota
    seen,      \* seen_goals
    memo,      \* LeadAgent._memo: the results a goal and a guidance gave
    work,      \* the worker at hand
    kernel,    \* "idle", "running" or "finished": the task of run_worker
    result,    \* its result: a quality, "raised" or "none"
    owed,      \* results delivered less assessments written to turn_summaries
    degraded,  \* the degradation list is not empty
    dones,     \* done events sent to the client
    orphans,   \* goals whose worker outlived its request
    dropped,   \* what the decision was that ended a legacy turn unexecuted
    cleared    \* the requests in which the canvas was cleared

session == <<mode, entry>>
gate    == <<pending, request, guarded, msg, resumed>>
loop    == <<pc, step, left, open, ctxOpen, remaining>>
job     == <<seen, memo, work, kernel, result, orphans, cleared>>
account == <<owed, degraded, dones, dropped>>
leadVars    == <<session, gate, loop, job, account>>

\* What assess_subtask_detail finds in a result: nothing, doubts, facts that
\* speak against it; "failed" is a run without success.
Quality == {"pass", "soft", "hard", "failed"}
Hard(q) == q \in {"hard", "failed"}
Guidance == {"none", "given"}

NoWork == [goal |-> NoGoal, guidance |-> "none", bypass |-> FALSE,
           review |-> FALSE]
Free == [goal |-> NoGoal, by |-> 0, kind |-> "clarify"]
Over == {"ended", "cancelled"}

LeadTypeOK ==
    /\ mode \in {"legacy", "single_agent"} /\ entry \in {"chat", "canvas"}
    /\ pending \in [goal : Goals \cup {NoGoal}, by : 0 .. MaxRequests,
                    kind : {"confirm", "clarify"}]
    /\ {request, guarded} \subseteq 0 .. MaxRequests
    /\ msg \in Goals /\ resumed \in Goals \cup {NoGoal}
    /\ pc \in {"guard", "ask", "calls", "work", "review", "post"} \cup Over
    /\ step \in 0 .. MaxSteps + MaxRounds
    /\ {left, open, ctxOpen} \subseteq 0 .. MaxCalls
    /\ remaining \in [{"observe", "dispatch", "repair"} -> Nat]
    /\ seen \in SUBSET Goals
    /\ memo \in SUBSET [goal : Goals, guidance : Guidance, quality : Quality]
    /\ work \in [goal : Goals \cup {NoGoal}, guidance : Guidance,
                 bypass : BOOLEAN, review : BOOLEAN]
    /\ kernel \in {"idle", "running", "finished"}
    /\ result \in Quality \cup {"none", "raised"}
    /\ {owed, dones} \subseteq 0 .. 1
    /\ dropped \in {"none", "fallback", "repair"}
    /\ degraded \in BOOLEAN
    /\ orphans \in SUBSET Goals /\ cleared \in SUBSET (1 .. MaxRequests)

NoLoop ==
    /\ step = 0 /\ left = 0 /\ open = 0 /\ ctxOpen = 0 /\ remaining = Quota
    /\ seen = {} /\ memo = {} /\ work = NoWork /\ kernel = "idle" /\ result = "none"
    /\ owed = 0 /\ degraded = FALSE /\ dropped = "none"

LeadInit ==
    /\ mode \in {"legacy", "single_agent"} /\ entry \in {"chat", "canvas"}
    /\ pending = Free /\ request = 1 /\ guarded = 0
    /\ msg \in Goals /\ resumed = NoGoal
    /\ pc = "guard" /\ NoLoop /\ dones = 0 /\ orphans = {} /\ cleared = {}

\* The coroutine and the LeadAgent of the request are gone.
LoopGone ==
    /\ step' = 0 /\ left' = 0 /\ open' = 0 /\ ctxOpen' = 0 /\ remaining' = Quota
    /\ seen' = {} /\ memo' = {} /\ work' = NoWork /\ kernel' = "idle" /\ result' = "none"
    /\ owed' = 0 /\ degraded' = FALSE /\ dropped' = "none"

Go(from, to) == pc = from /\ pc' = to
Single == mode = "single_agent"
Legacy == mode = "legacy"
LastStep == IF Single THEN MaxSteps ELSE MaxRounds

\* A new request of the session builds a new LeadAgent.
NewRequest ==
    /\ pc \in Over /\ request < MaxRequests
    /\ request' = request + 1 /\ msg' \in Goals /\ resumed' = NoGoal
    /\ pc' = "guard" /\ dones' = 0
    /\ UNCHANGED <<session, pending, guarded, step, left, open, ctxOpen, remaining,
                   job, owed, degraded, dropped>>

\* The slot's time to live ends (redis, ai_session_lock_ttl).
PendingExpires ==
    /\ pending # Free /\ pending' = Free
    /\ UNCHANGED <<session, request, guarded, msg, resumed, loop, job, account>>

\* Mutation: the call gets no tool message.
Answer_dropped == left > 0 /\ left' = left - 1 /\ UNCHANGED open

\* The call at hand is answered by a tool message of this step.
Answer == left > 0 /\ left' = left - 1 /\ open' = open - 1

-----------------------------------------------------------------------------
(***************************************************************************)
(* The worker: run_worker starts a task that executes run_analysis and     *)
(* forwards its events, then collects the result.                          *)
(***************************************************************************)
\* Mutation: a goal dispatched again is looked up in the memo.
Bypass_repairOnly(goal, isRepair) == Single /\ isRepair

\* A goal dispatched before in this request, and every repair, is done again.
Bypass(goal, isRepair) == Single /\ (isRepair \/ goal \in seen)

\* Mutation: the worker reviews although the loop's review stage will.
ReviewedByWorker_always == TRUE

\* The stage of the single agent's loop reviews what the loop dispatched.
ReviewedByWorker == Legacy \/ pc = "guard"

RunWorker(goal, guidance, isRepair) ==
    /\ work' = [goal |-> goal, guidance |-> guidance,
                bypass |-> Bypass(goal, isRepair), review |-> ReviewedByWorker]
    /\ seen' = IF Single /\ pc = "calls" THEN seen \cup {goal} ELSE seen
    /\ kernel' = "running" /\ result' = "none"
    /\ UNCHANGED <<memo, orphans, cleared>>

Cached == {m \in memo : m.goal = work.goal /\ m.guidance = work.guidance}
Hit == ~work.bypass /\ Cached # {}
Clears(goal) == goal = ClearGoal /\ entry = "canvas"

KernelEnds(q) == kernel = "running" /\ kernel' = "finished" /\ result' = q

MemoHit ==
    /\ Hit /\ \E m \in Cached : KernelEnds(m.quality)
    /\ UNCHANGED <<session, gate, loop, account, seen, memo, work, orphans, cleared>>

\* "Clear the canvas" is executed by the code, without a model and a memo.
ClearDirectly ==
    /\ ~Hit /\ Clears(work.goal)
    /\ KernelEnds("pass")
    /\ cleared' = cleared \cup {request}
    /\ UNCHANGED <<session, gate, loop, account, seen, memo, work, orphans>>

\* Mutation: the done of the sub-executor reaches the client.
Forwarded_all(event) == 1

\* _forward: the sub-executor's own done is not the end of the request.
Forwarded(event) == IF event = "done" THEN 0 ELSE 1

Analyse ==
    /\ ~Hit /\ ~Clears(work.goal)
    /\ \E q \in Quality :
        /\ KernelEnds(q)
        /\ memo' = IF q # "failed" /\ ~work.bypass
                   THEN memo \cup {[goal |-> work.goal, guidance |-> work.guidance, quality |-> q]}
                   ELSE memo
    /\ dones' = dones + Forwarded("done")
    /\ UNCHANGED <<session, gate, loop, seen, work, orphans, cleared,
                   owed, degraded, dropped>>

AnalysisRaises ==
    /\ ~Hit /\ KernelEnds("raised")
    /\ UNCHANGED <<session, gate, loop, account, seen, memo, work, orphans, cleared>>

\* The worker left behind by an earlier request comes to its end.
OrphanEnds ==
    /\ \E g \in orphans :
        /\ orphans' = orphans \ {g}
        /\ cleared' = IF Clears(g) THEN cleared \cup {request} ELSE cleared
    /\ UNCHANGED <<session, gate, loop, account, seen, memo, work, kernel, result>>

\* The rounds of a legacy turn, the steps of the single agent's, run out.
NextStep ==
    /\ step' = step + 1
    /\ IF step + 1 = LastStep THEN pc' = "post" /\ degraded' = TRUE
                             ELSE pc' = "ask" /\ UNCHANGED degraded

\* Mutation: the event queue gets its end mark from a task that returned only.
Collectable_returned == kernel = "finished" /\ result # "raised"

Collectable == kernel = "finished"

\* run_worker after its task ended; a task that raised has no result, and the
\* call is answered by a fixed note.
Collect ==
    /\ pc = "work" /\ Collectable
    /\ kernel' = "idle" /\ work' = NoWork
    /\ owed' = IF result = "raised" \/ work.review THEN owed ELSE owed + 1
    /\ \/ Legacy /\ NextStep /\ result' = "none" /\ UNCHANGED <<left, open>>
       \/ /\ Single /\ resumed # NoGoal /\ pc' = "post" /\ result' = "none"
          /\ UNCHANGED <<step, left, open, degraded>>
       \/ /\ Single /\ resumed = NoGoal
          /\ IF result = "raised"
             THEN pc' = "calls" /\ Answer /\ result' = "none"
             ELSE pc' = "review" /\ UNCHANGED <<left, open, result>>
          /\ UNCHANGED <<step, degraded>>
    /\ UNCHANGED <<session, gate, ctxOpen, remaining, seen, memo,
                   orphans, cleared, dones, dropped>>

-----------------------------------------------------------------------------
(***************************************************************************)
(* The confirmation guard (_confirm_guard), before any model is asked.     *)
(***************************************************************************)
\* Mutation: the slot is read and left in place.
PopPending_kept == pending' = pending /\ guarded' = request

\* pop_pending: the parked goal is read and deleted, whatever follows.
PopPending == pending' = Free /\ guarded' = request

\* The confirm button, or an affirmative text, with a goal parked.
GuardResume ==
    /\ pc = "guard" /\ pending # Free
    /\ PopPending /\ resumed' = pending.goal
    /\ RunWorker(pending.goal, "none", FALSE)
    /\ pc' = "work"
    /\ UNCHANGED <<session, request, msg, account, step, left, open, ctxOpen, remaining>>

\* The cancel button, or the confirm button once the goal is gone.
GuardCloses ==
    /\ pc = "guard"
    /\ PopPending /\ pc' = "post"
    /\ UNCHANGED <<session, request, msg, resumed, account, job,
                   step, left, open, ctxOpen, remaining>>

\* Any other message: a parked goal is dropped and the turn is decided.
GuardPasses ==
    /\ pc = "guard"
    /\ PopPending /\ pc' = "ask"
    /\ UNCHANGED <<session, request, msg, resumed, account, job,
                   step, left, open, ctxOpen, remaining>>

\* ask_user parks the user's message, a clarification's as well.
Park(kind) ==
    /\ pending' = [goal |-> msg, by |-> request, kind |-> kind]
    /\ UNCHANGED <<request, guarded, msg, resumed>>

-----------------------------------------------------------------------------
(***************************************************************************)
(* single_agent: stream_unified.                                           *)
(***************************************************************************)
\* The model cannot be reached, or answers without a call.
ReplyEnds ==
    /\ Single /\ Go("ask", "post")
    /\ degraded' \in {degraded, TRUE}
    /\ UNCHANGED <<session, gate, step, left, open, ctxOpen, remaining, job,
                   owed, dones, dropped>>

Reply ==
    /\ Single /\ Go("ask", "calls")
    /\ \E n \in 1 .. MaxCalls : left' = n /\ open' = n
    /\ UNCHANGED <<session, gate, step, ctxOpen, remaining, job, account>>

\* A tool the model does not have, or a class whose quota is spent.
Refuse ==
    /\ Single /\ pc = "calls" /\ Answer
    /\ degraded' = TRUE
    /\ UNCHANGED <<session, gate, pc, step, ctxOpen, remaining, job,
                   owed, dones, dropped>>

\* Mutation: the quota is counted and not checked.
Spend_unlimited(class) == remaining' = [remaining EXCEPT ![class] = @ - 1]

Spend(class) ==
    /\ remaining[class] > 0
    /\ remaining' = [remaining EXCEPT ![class] = @ - 1]

Observe ==
    /\ Single /\ pc = "calls" /\ Spend("observe") /\ Answer
    /\ degraded' \in {degraded, TRUE}
    /\ UNCHANGED <<session, gate, pc, step, ctxOpen, job,
                   owed, dones, dropped>>

\* The guidance of a repair is not part of the state: it never meets the memo.
Dispatch ==
    /\ Single /\ Go("calls", "work") /\ left > 0
    /\ \E goal \in Goals, class \in {"dispatch", "repair"} :
        Spend(class) /\ RunWorker(goal, "none", class = "repair")
    /\ degraded' \in {degraded, TRUE}
    /\ UNCHANGED <<session, gate, step, left, open, ctxOpen, owed, dones, dropped>>

\* Mutation: the model may overrule the facts.
Adjudged_always(q) == IF q = "pass" THEN {"pass"} ELSE {"pass", "fail"}

\* run_review_stage: facts fail without asking, doubts are adjudged by the
\* model, and fail when it is not available.
Adjudged(q) == CASE Hard(q) -> {"fail"} [] q = "soft" -> {"pass", "fail"} [] OTHER -> {"pass"}

Review ==
    /\ Go("review", "calls") /\ Answer
    /\ \E verdict \in Adjudged(result) : degraded' = (degraded \/ verdict = "fail")
    /\ owed' = owed - 1 /\ result' = "none"
    /\ UNCHANGED <<session, gate, step, ctxOpen, remaining, seen, memo, work, kernel,
                   orphans, cleared, dones, dropped>>

\* answer, stop and ask_user end the turn; what the reply still held stays
\* without an answer.
Terminal ==
    /\ Single /\ Go("calls", "post") /\ left > 0
    /\ ctxOpen' = ctxOpen + open
    /\ \/ UNCHANGED <<gate, degraded>>
       \/ \E kind \in {"confirm", "clarify"} : Park(kind) /\ degraded' \in {degraded, TRUE}
    /\ UNCHANGED <<session, step, left, open, remaining, job,
                   owed, dones, dropped>>

\* The step's messages go to the provider, which builds the next request.
StepEnds ==
    /\ Single /\ pc = "calls" /\ left = 0
    /\ ctxOpen' = ctxOpen + open /\ open' = 0
    /\ NextStep
    /\ UNCHANGED <<session, gate, left, remaining, job,
                   owed, dones, dropped>>

-----------------------------------------------------------------------------
(***************************************************************************)
(* legacy: the supervisor rounds of LeadAgent.stream.                      *)
(***************************************************************************)
\* ask_user, also when the decider corrected a contradiction.
DecideAsk ==
    /\ Legacy /\ Go("ask", "post")
    /\ \E kind \in {"confirm", "clarify"} : Park(kind)
    /\ degraded' \in {degraded, TRUE}
    /\ UNCHANGED <<session, step, left, open, ctxOpen, remaining, job,
                   owed, dones, dropped>>

\* stop, or an answer: both end the turn.
DecideEnd ==
    /\ Legacy /\ Go("ask", "post")
    /\ degraded' \in {degraded, TRUE}
    /\ UNCHANGED <<session, gate, step, left, open, ctxOpen, remaining, job,
                   owed, dones, dropped>>

\* A decision is degraded when the decider fell back to its default, or when
\* the model gave a complexity together with a repair_kind.
\* Mutation: a degraded decision is executed in every round.
Executed_degraded(cause) == TRUE

Executed(cause) == cause = "none" \/ step = 0

DecideAnalysis ==
    /\ Legacy /\ pc = "ask"
    /\ \E cause \in {"none", "fallback", "repair"}, goal \in Goals, guidance \in Guidance :
        /\ cause = "fallback" => goal = msg /\ guidance = "none"
        /\ IF Executed(cause)
           THEN /\ RunWorker(goal, guidance, FALSE)
                /\ pc' = "work" /\ UNCHANGED dropped
           ELSE /\ pc' = "post" /\ dropped' = cause
                /\ UNCHANGED job
        /\ degraded' = (degraded \/ cause # "none")
    /\ UNCHANGED <<session, gate, step, left, open, ctxOpen, remaining, owed, dones>>

-----------------------------------------------------------------------------
\* The closing summary, the memory event and the one done of the request.
Finish ==
    /\ Go("post", "ended") /\ LoopGone
    /\ dones' = dones + 1
    /\ UNCHANGED <<session, gate, orphans, cleared>>

\* The round's task is cancelled: its generators are closed, the task that
\* run_worker started is not.
Cancelled ==
    /\ pc \notin Over /\ pc' = "cancelled" /\ LoopGone
    /\ orphans' = IF kernel = "running" THEN orphans \cup {work.goal} ELSE orphans
    /\ dones' = 0
    /\ UNCHANGED <<session, gate, cleared>>

Turn ==
    \/ GuardResume \/ GuardCloses \/ GuardPasses
    \/ ReplyEnds \/ Reply \/ Refuse \/ Observe \/ Dispatch \/ Review \/ Terminal \/ StepEnds
    \/ DecideAsk \/ DecideEnd \/ DecideAnalysis \/ Collect \/ Finish

Kernel == MemoHit \/ ClearDirectly \/ Analyse \/ AnalysisRaises

LeadNext == Turn \/ Kernel \/ NewRequest \/ PendingExpires \/ OrphanEnds \/ Cancelled

\* A model call has a time limit and asyncio runs every task that is ready.
LeadFair == WF_leadVars(Turn) /\ WF_leadVars(Kernel)
LeadSpec == LeadInit /\ [][LeadNext]_leadVars /\ LeadFair

-----------------------------------------------------------------------------
(***************************************************************************)
(* Properties.                                                             *)
(***************************************************************************)
\* Whenever the model is asked again, each of its calls has its answer among
\* the messages: a call of a reply that was refused, over quota or failed
\* included.
EveryCallAnswered == pc = "ask" => ctxOpen = 0

\* Every result a worker returned is assessed exactly once, by the worker or
\* by the review stage, never by both.
AssessedOnce == owed = IF pc = "review" THEN 1 ELSE 0

\* The client of a request never sees a done before the end, and sees one
\* at the end, whatever the sub-executors sent.
OneDone == dones = IF pc = "ended" THEN 1 ELSE 0

\* The books of a round balance whenever the model or the client looks at them:
\* calls and answers, results and assessments, requests and dones.
RoundAccounted == EveryCallAnswered /\ AssessedOnce /\ OneDone

\* What the facts failed, the model does not pass: the turn is degraded.
HardStands == [][pc = "review" /\ pc' = "calls" /\ Hard(result) => degraded']_leadVars

\* A goal is resumed only by the request that follows the one that parked
\* it: no guard ran in between.
ResumeFollowsAsk ==
    [][resumed' # NoGoal /\ resumed = NoGoal =>
        pending.by = guarded /\ pending.by < request]_leadVars

\* In the single agent's loop a goal that is dispatched again, or repaired,
\* is executed: the memo never answers for it.
RedoRuns == [][Single /\ kernel = "running" /\ kernel' = "finished" => ~Hit]_leadVars

\* A failing decider starts at most one analysis per turn: from the second
\* round on a degraded decision ends it.
DegradedEndsTurn ==
    [][Legacy /\ pc = "ask" /\ pc' = "work" /\ step > 0 => degraded' = degraded]_leadVars

\* What no step of a turn does, whatever the model says: talk a failed result
\* into passing, resume a goal out of turn, take an old result for a new run,
\* start a second analysis on a failing decider.
TurnRules == HardStands /\ ResumeFollowsAsk /\ RedoRuns /\ DegradedEndsTurn

\* A request that is not cancelled comes to its done.
RequestEnds == pc \notin Over ~> pc \in Over

(***************************************************************************)
(* What the comments of the code promise and the code does not keep.       *)
(***************************************************************************)
\* lead_agent_unified.py: "clear" must pass a confirmation and is not
\* executed directly.
ClearIsConfirmed ==
    [][Single /\ kernel = "running" /\ kernel' = "finished" /\ cleared' # cleared
        => resumed # NoGoal]_leadVars

\* lead_decider.py: when complexity and repair_kind are both given, the
\* repair_kind wins.
RepairKindWins == dropped # "repair"

\* lead_decider.py: the answer to a clarification takes the normal decision.
ClarifyIsDecided ==
    [][resumed' # NoGoal /\ resumed = NoGoal => pending.kind = "confirm"]_leadVars

=============================================================================
