--------------------------- MODULE LeadAgent_proofs ---------------------------
(***************************************************************************)
(* What is proved of LeadAgent for any goals, limits and quotas: the       *)
(* types, that the books of a round balance, and what no step of a turn    *)
(* does; of SessionMemory for every limit: the types, and that the         *)
(* summary, its count and its watermark agree and no round falls through;  *)
(* and of the suite of both and the context.                               *)
(***************************************************************************)
EXTENDS MCLead, ContextWindow_proofs

-----------------------------------------------------------------------------
(***************************************************************************)
(* The inductive invariant.                                                *)
(***************************************************************************)
\* Before its guard and after its end a request has no loop; a resumed goal is
\* all that a request of the single agent does; only the single agent has calls;
\* a loop that goes on has steps left.
Stages ==
    /\ pc \in {"guard"} \cup Over => NoLoop
    /\ pc = "guard" => resumed = NoGoal
    /\ Single /\ resumed # NoGoal => pc \in {"work", "post"} \cup Over
    /\ pc \in {"calls", "review"} => Single
    /\ pc \in {"ask", "calls", "work", "review"} => step < LastStep

\* Each call at hand that is not yet answered is still to be reached.
Calls == open = left /\ (pc # "post" => ctxOpen = 0)

\* The worker exists exactly where the turn waits for it, its result until it is
\* collected or reviewed; and who reviews is settled when it starts.
Worker ==
    /\ pc = "work" <=> kernel # "idle"
    /\ pc = "work" => work.goal \in Goals /\ (work.review <=> Legacy \/ resumed # NoGoal)
    /\ kernel = "finished" <=> pc = "work" /\ result # "none"
    /\ pc = "review" => result \in Quality
    /\ result # "none" => pc \in {"work", "review"}

\* A parked goal is of the last request whose guard ran, which in a guard is an
\* earlier one.
Parked ==
    /\ 1 <= request /\ guarded <= request
    /\ pc = "guard" => guarded < request
    /\ pc \notin {"guard", "cancelled"} => guarded = request
    /\ pending # Free => pending.by = guarded /\ pending.goal \in Goals

\* What the single agent's memo holds was dispatched, so that a goal that is not
\* bypassed is new to it.
Remembered ==
    /\ Single /\ resumed = NoGoal =>
          /\ \A m \in memo : m.goal \in seen
          /\ pc = "work" => work.goal \in seen
    /\ Single /\ kernel = "running" /\ ~work.bypass => \A m \in memo : m.goal # work.goal

LeadInv ==
    /\ LeadTypeOK /\ Stages /\ Calls /\ Worker /\ Parked /\ Remembered
    /\ AssessedOnce /\ OneDone

-----------------------------------------------------------------------------
(***************************************************************************)
(* The types, in the groups of the variables.                              *)
(***************************************************************************)
GateTyped ==
    /\ pending \in [goal : Goals \cup {NoGoal}, by : 0 .. MaxRequests,
                    kind : {"confirm", "clarify"}]
    /\ {request, guarded} \subseteq 0 .. MaxRequests
    /\ msg \in Goals /\ resumed \in Goals \cup {NoGoal}
LoopTyped ==
    /\ pc \in {"guard", "ask", "calls", "work", "review", "post"} \cup Over
    /\ step \in 0 .. MaxSteps + MaxRounds
    /\ {left, open, ctxOpen} \subseteq 0 .. MaxCalls
    /\ remaining \in [{"observe", "dispatch", "repair"} -> Nat]
JobTyped ==
    /\ seen \in SUBSET Goals
    /\ memo \in SUBSET [goal : Goals, guidance : Guidance, quality : Quality]
    /\ work \in [goal : Goals \cup {NoGoal}, guidance : Guidance, bypass : BOOLEAN,
                 review : BOOLEAN]
    /\ kernel \in {"idle", "running", "finished"}
    /\ result \in Quality \cup {"none", "raised"}
    /\ orphans \in SUBSET Goals /\ cleared \in SUBSET (1 .. MaxRequests)
AccountTyped ==
    /\ {owed, dones} \subseteq 0 .. 1 /\ degraded \in BOOLEAN
    /\ dropped \in {"none", "fallback", "repair"}

LEMMA TypeGroups ==
    LeadTypeOK <=> /\ mode \in {"legacy", "single_agent"} /\ entry \in {"chat", "canvas"}
                   /\ GateTyped /\ LoopTyped /\ JobTyped /\ AccountTyped
BY DEF LeadTypeOK, GateTyped, LoopTyped, JobTyped, AccountTyped

LEMMA GuardResumeKeeps == ASSUME LeadInv, GuardResume PROVE LeadInv'
<1> USE LeadAssumption
    DEF LeadInv, session, gate, loop, job, account, Over, Single, Legacy, LastStep, NoLoop, Quality,
        Guidance, NoWork, Free
<1>1. LeadTypeOK'
  BY DEF GuardResume, RunWorker, Bypass, ReviewedByWorker, PopPending, LeadTypeOK
<1>2. Stages'
  BY DEF GuardResume, Stages
<1>3. Calls' /\ AssessedOnce' /\ OneDone'
  BY DEF GuardResume, Calls, AssessedOnce, OneDone
<1>4. Worker'
  BY DEF GuardResume, RunWorker, ReviewedByWorker, Worker, Parked
<1>5. Parked'
  BY DEF GuardResume, PopPending, LeadTypeOK, Parked
<1>6. Remembered'
  <2>1. memo' = {} /\ resumed' # NoGoal
    BY DEF GuardResume, RunWorker, Stages, Parked
  <2> QED
    BY <2>1 DEF Remembered
<1> QED
  BY <1>1, <1>2, <1>3, <1>4, <1>5, <1>6

LEMMA GuardClosesKeeps == ASSUME LeadInv, GuardCloses PROVE LeadInv'
<1> USE LeadAssumption
    DEF LeadInv, session, gate, loop, job, account, Over, Single, Legacy, LastStep, NoLoop, Quality,
        Guidance, NoWork, Free
<1>1. LeadTypeOK'
  BY DEF GuardCloses, PopPending, LeadTypeOK
<1>2. Stages'
  BY DEF GuardCloses, Stages
<1>3. Calls' /\ AssessedOnce' /\ OneDone'
  BY DEF GuardCloses, Calls, AssessedOnce, OneDone
<1>4. Worker'
  BY DEF GuardCloses, Worker
<1>5. Parked'
  BY DEF GuardCloses, PopPending, LeadTypeOK, Parked
<1>6. Remembered'
  BY DEF GuardCloses, Remembered
<1> QED
  BY <1>1, <1>2, <1>3, <1>4, <1>5, <1>6

LEMMA GuardPassesKeeps == ASSUME LeadInv, GuardPasses PROVE LeadInv'
<1> USE LeadAssumption
    DEF LeadInv, session, gate, loop, job, account, Over, Single, Legacy, LastStep, NoLoop, Quality,
        Guidance, NoWork, Free
<1>1. LeadTypeOK'
  BY DEF GuardPasses, PopPending, LeadTypeOK
<1>2. Stages'
  BY DEF GuardPasses, Stages
<1>3. Calls' /\ AssessedOnce' /\ OneDone'
  BY DEF GuardPasses, Calls, AssessedOnce, OneDone
<1>4. Worker'
  BY DEF GuardPasses, Worker
<1>5. Parked'
  BY DEF GuardPasses, PopPending, LeadTypeOK, Parked
<1>6. Remembered'
  BY DEF GuardPasses, Remembered
<1> QED
  BY <1>1, <1>2, <1>3, <1>4, <1>5, <1>6

LEMMA ReplyEndsKeeps == ASSUME LeadInv, ReplyEnds PROVE LeadInv'
<1> USE LeadAssumption
    DEF LeadInv, session, gate, loop, job, account, Over, Single, Legacy, LastStep, NoLoop, Quality,
        Guidance, NoWork, Free
<1>1. LeadTypeOK'
  <2>1. GateTyped'
    BY TypeGroups DEF ReplyEnds, GateTyped
  <2>2. LoopTyped'
    BY TypeGroups DEF ReplyEnds, Go, LoopTyped
  <2>3. JobTyped'
    BY TypeGroups DEF ReplyEnds, JobTyped
  <2>4. AccountTyped'
    BY TypeGroups DEF ReplyEnds, AccountTyped
  <2>5. UNCHANGED <<mode, entry>>
    BY DEF ReplyEnds
  <2> QED
    BY <2>1, <2>2, <2>3, <2>4, <2>5 DEF LeadTypeOK, GateTyped, LoopTyped, JobTyped, AccountTyped
<1>2. Stages'
  BY DEF ReplyEnds, Go, Stages
<1>3. Calls' /\ AssessedOnce' /\ OneDone'
  BY DEF ReplyEnds, Go, Calls, AssessedOnce, OneDone
<1>4. Worker'
  BY DEF ReplyEnds, Go, Worker
<1>5. Parked'
  BY DEF ReplyEnds, Go, Parked
<1>6. Remembered'
  BY DEF ReplyEnds, Go, Remembered
<1> QED
  BY <1>1, <1>2, <1>3, <1>4, <1>5, <1>6

LEMMA ReplyKeeps == ASSUME LeadInv, Reply PROVE LeadInv'
<1> USE LeadAssumption
    DEF LeadInv, session, gate, loop, job, account, Over, Single, Legacy, LastStep, NoLoop, Quality,
        Guidance, NoWork, Free
<1>1. LeadTypeOK'
  BY DEF Reply, Go, LeadTypeOK
<1>2. Stages'
  BY DEF Reply, Go, Stages
<1>3. Calls' /\ AssessedOnce' /\ OneDone'
  BY DEF Reply, Go, Calls, AssessedOnce, OneDone
<1>4. Worker'
  BY DEF Reply, Go, Worker
<1>5. Parked'
  BY DEF Reply, Go, Parked
<1>6. Remembered'
  BY DEF Reply, Go, Remembered
<1> QED
  BY <1>1, <1>2, <1>3, <1>4, <1>5, <1>6

LEMMA RefuseKeeps == ASSUME LeadInv, Refuse PROVE LeadInv'
<1> USE LeadAssumption
    DEF LeadInv, session, gate, loop, job, account, Over, Single, Legacy, LastStep, NoLoop, Quality,
        Guidance, NoWork, Free
<1>1. LeadTypeOK'
  BY DEF Refuse, Answer, LeadTypeOK, Calls
<1>2. Stages'
  BY DEF Refuse, Stages
<1>3. Calls' /\ AssessedOnce' /\ OneDone'
  BY DEF Refuse, Answer, Calls, AssessedOnce, OneDone
<1>4. Worker'
  BY DEF Refuse, Worker
<1>5. Parked'
  BY DEF Refuse, Parked
<1>6. Remembered'
  BY DEF Refuse, Remembered
<1> QED
  BY <1>1, <1>2, <1>3, <1>4, <1>5, <1>6

LEMMA ObserveKeeps == ASSUME LeadInv, Observe PROVE LeadInv'
<1> USE LeadAssumption
    DEF LeadInv, session, gate, loop, job, account, Over, Single, Legacy, LastStep, NoLoop, Quality,
        Guidance, NoWork, Free
<1>1. LeadTypeOK'
  <2>1. GateTyped'
    BY TypeGroups DEF Observe, GateTyped
  <2>2. LoopTyped'
    BY TypeGroups DEF Observe, Answer, Spend, LoopTyped, Calls
  <2>3. JobTyped'
    BY TypeGroups DEF Observe, JobTyped
  <2>4. AccountTyped'
    BY TypeGroups DEF Observe, AccountTyped
  <2>5. UNCHANGED <<mode, entry>>
    BY DEF Observe
  <2> QED
    BY <2>1, <2>2, <2>3, <2>4, <2>5 DEF LeadTypeOK, GateTyped, LoopTyped, JobTyped, AccountTyped
<1>2. Stages'
  BY DEF Observe, Stages
<1>3. Calls' /\ AssessedOnce' /\ OneDone'
  BY DEF Observe, Answer, Calls, AssessedOnce, OneDone
<1>4. Worker'
  BY DEF Observe, Worker
<1>5. Parked'
  BY DEF Observe, Parked
<1>6. Remembered'
  BY DEF Observe, Remembered
<1> QED
  BY <1>1, <1>2, <1>3, <1>4, <1>5, <1>6

LEMMA DispatchKeeps == ASSUME LeadInv, Dispatch PROVE LeadInv'
<1> USE LeadAssumption
    DEF LeadInv, session, gate, loop, job, account, Over, Single, Legacy, LastStep, NoLoop, Quality,
        Guidance, NoWork, Free
<1>1. LeadTypeOK'
  <2>1. GateTyped'
    BY TypeGroups DEF Dispatch, GateTyped
  <2>2. LoopTyped'
    BY TypeGroups DEF Dispatch, Go, Spend, LoopTyped
  <2>3. JobTyped'
    BY TypeGroups DEF Dispatch, RunWorker, Bypass, ReviewedByWorker, JobTyped
  <2>4. AccountTyped'
    BY TypeGroups DEF Dispatch, AccountTyped
  <2>5. UNCHANGED <<mode, entry>>
    BY DEF Dispatch
  <2> QED
    BY <2>1, <2>2, <2>3, <2>4, <2>5 DEF LeadTypeOK, GateTyped, LoopTyped, JobTyped, AccountTyped
<1>2. Stages'
  BY DEF Dispatch, Go, Stages
<1>3. Calls' /\ AssessedOnce' /\ OneDone'
  BY DEF Dispatch, Go, Calls, AssessedOnce, OneDone
<1>4. Worker'
  <2>1. PICK goal \in Goals, class \in {"dispatch", "repair"} : RunWorker(goal, "none", class = "repair")
    BY DEF Dispatch
  <2>2. Single /\ resumed = NoGoal /\ pc = "calls" /\ pc' = "work" /\ UNCHANGED <<mode, resumed>>
    BY DEF Dispatch, Go, Stages
  <2>3. /\ work'.goal = goal /\ work'.review = (Legacy \/ pc = "guard")
        /\ kernel' = "running" /\ result' = "none"
    BY <2>1 DEF RunWorker, ReviewedByWorker
  <2>4. ~work'.review
    BY <2>2, <2>3
  <2> QED
    BY <2>2, <2>3, <2>4 DEF Worker
<1>5. Parked'
  BY DEF Dispatch, Go, Parked
<1>6. Remembered'
  <2>1. PICK goal \in Goals, class \in {"dispatch", "repair"} : RunWorker(goal, "none", class = "repair")
    BY DEF Dispatch
  <2>2. Single /\ resumed = NoGoal /\ pc = "calls" /\ pc' = "work" /\ UNCHANGED <<mode, resumed>>
    BY DEF Dispatch, Go, Stages
  <2>3. /\ work'.goal = goal /\ work'.bypass = Bypass(goal, class = "repair")
        /\ memo' = memo /\ seen' = seen \cup {goal}
    BY <2>1, <2>2 DEF RunWorker
  <2>4. \A m \in memo : m.goal \in seen
    BY <2>2 DEF Remembered
  <2>5. ~work'.bypass => goal \notin seen
    BY <2>2, <2>3 DEF Bypass
  <2>6. /\ \A m \in memo' : m.goal \in seen' /\ (~work'.bypass => m.goal # work'.goal)
        /\ work'.goal \in seen'
    BY <2>3, <2>4, <2>5
  <2> QED
    BY <2>2, <2>6 DEF Remembered
<1> QED
  BY <1>1, <1>2, <1>3, <1>4, <1>5, <1>6

LEMMA ReviewKeeps == ASSUME LeadInv, Review PROVE LeadInv'
<1> USE LeadAssumption
    DEF LeadInv, session, gate, loop, job, account, Over, Single, Legacy, LastStep, NoLoop, Quality,
        Guidance, NoWork, Free
<1>1. LeadTypeOK'
  <2>1. GateTyped'
    BY TypeGroups DEF Review, GateTyped
  <2>2. LoopTyped'
    BY TypeGroups DEF Review, Go, Answer, LoopTyped, Calls
  <2>3. JobTyped'
    BY TypeGroups DEF Review, JobTyped
  <2>4. AccountTyped'
    BY TypeGroups DEF Review, Go, AccountTyped, AssessedOnce
  <2>5. UNCHANGED <<mode, entry>>
    BY DEF Review
  <2> QED
    BY <2>1, <2>2, <2>3, <2>4, <2>5 DEF LeadTypeOK, GateTyped, LoopTyped, JobTyped, AccountTyped
<1>2. Stages'
  BY DEF Review, Go, Stages
<1>3. Calls' /\ AssessedOnce' /\ OneDone'
  BY DEF Review, Go, Answer, Calls, AssessedOnce, OneDone
<1>4. Worker'
  BY DEF Review, Go, Worker
<1>5. Parked'
  BY DEF Review, Go, Parked
<1>6. Remembered'
  BY DEF Review, Go, Remembered
<1> QED
  BY <1>1, <1>2, <1>3, <1>4, <1>5, <1>6

LEMMA TerminalKeeps == ASSUME LeadInv, Terminal PROVE LeadInv'
<1> USE LeadAssumption
    DEF LeadInv, session, gate, loop, job, account, Over, Single, Legacy, LastStep, NoLoop, Quality,
        Guidance, NoWork, Free
<1>1. LeadTypeOK'
  <2>1. GateTyped'
    <3>1. GateTyped
      BY TypeGroups
    <3>2. CASE UNCHANGED gate
      BY <3>1, <3>2 DEF GateTyped
    <3>3. ASSUME NEW kind \in {"confirm", "clarify"}, Park(kind) PROVE GateTyped'
      BY <3>1, <3>3 DEF GateTyped, Park
    <3> QED
      BY <3>2, <3>3 DEF Terminal
  <2>2. LoopTyped'
    BY TypeGroups DEF Terminal, Go, LoopTyped, Calls
  <2>3. JobTyped'
    BY TypeGroups DEF Terminal, JobTyped
  <2>4. AccountTyped'
    BY TypeGroups DEF Terminal, AccountTyped
  <2>5. UNCHANGED <<mode, entry>>
    BY DEF Terminal
  <2> QED
    BY <2>1, <2>2, <2>3, <2>4, <2>5 DEF LeadTypeOK, GateTyped, LoopTyped, JobTyped, AccountTyped
<1>2. Stages'
  BY DEF Terminal, Go, Stages
<1>3. Calls' /\ AssessedOnce' /\ OneDone'
  BY DEF Terminal, Go, Calls, AssessedOnce, OneDone
<1>4. Worker'
  BY DEF Terminal, Go, Worker
<1>5. Parked'
  <2>1. pc = "calls" /\ pc' = "post"
    BY DEF Terminal, Go
  <2>2. CASE UNCHANGED gate
    BY <2>1, <2>2 DEF Parked
  <2>3. ASSUME NEW kind \in {"confirm", "clarify"}, Park(kind) PROVE Parked'
    BY <2>1, <2>3 DEF Parked, Park, LeadTypeOK
  <2> QED
    BY <2>2, <2>3 DEF Terminal
<1>6. Remembered'
  BY DEF Terminal, Go, Park, Remembered
<1> QED
  BY <1>1, <1>2, <1>3, <1>4, <1>5, <1>6

LEMMA StepEndsKeeps == ASSUME LeadInv, StepEnds PROVE LeadInv'
<1> USE LeadAssumption
    DEF LeadInv, session, gate, loop, job, account, Over, Single, Legacy, LastStep, NoLoop, Quality,
        Guidance, NoWork, Free
<1>1. LeadTypeOK'
  <2>1. GateTyped'
    BY TypeGroups DEF StepEnds, GateTyped
  <2>2. LoopTyped'
    BY TypeGroups DEF StepEnds, NextStep, LoopTyped, Stages, Calls
  <2>3. JobTyped'
    BY TypeGroups DEF StepEnds, JobTyped
  <2>4. AccountTyped'
    BY TypeGroups DEF StepEnds, NextStep, AccountTyped
  <2>5. UNCHANGED <<mode, entry>>
    BY DEF StepEnds
  <2> QED
    BY <2>1, <2>2, <2>3, <2>4, <2>5 DEF LeadTypeOK, GateTyped, LoopTyped, JobTyped, AccountTyped
<1>2. Stages'
  BY DEF StepEnds, NextStep, LeadTypeOK, Stages
<1>3. Calls' /\ AssessedOnce' /\ OneDone'
  BY DEF StepEnds, NextStep, Calls, AssessedOnce, OneDone
<1>4. Worker'
  BY DEF StepEnds, NextStep, Worker
<1>5. Parked'
  BY DEF StepEnds, NextStep, Parked
<1>6. Remembered'
  BY DEF StepEnds, NextStep, Remembered
<1> QED
  BY <1>1, <1>2, <1>3, <1>4, <1>5, <1>6

LEMMA DecideAskKeeps == ASSUME LeadInv, DecideAsk PROVE LeadInv'
<1> USE LeadAssumption
    DEF LeadInv, session, gate, loop, job, account, Over, Single, Legacy, LastStep, NoLoop, Quality,
        Guidance, NoWork, Free
<1>1. LeadTypeOK'
  <2>1. GateTyped'
    BY TypeGroups DEF DecideAsk, Park, GateTyped
  <2>2. LoopTyped'
    BY TypeGroups DEF DecideAsk, Go, LoopTyped
  <2>3. JobTyped'
    BY TypeGroups DEF DecideAsk, JobTyped
  <2>4. AccountTyped'
    BY TypeGroups DEF DecideAsk, AccountTyped
  <2>5. UNCHANGED <<mode, entry>>
    BY DEF DecideAsk
  <2> QED
    BY <2>1, <2>2, <2>3, <2>4, <2>5 DEF LeadTypeOK, GateTyped, LoopTyped, JobTyped, AccountTyped
<1>2. Stages'
  BY DEF DecideAsk, Go, Stages
<1>3. Calls' /\ AssessedOnce' /\ OneDone'
  BY DEF DecideAsk, Go, Calls, AssessedOnce, OneDone
<1>4. Worker'
  BY DEF DecideAsk, Go, Worker
<1>5. Parked'
  BY DEF DecideAsk, Go, Park, LeadTypeOK, Parked
<1>6. Remembered'
  BY DEF DecideAsk, Remembered
<1> QED
  BY <1>1, <1>2, <1>3, <1>4, <1>5, <1>6

LEMMA DecideEndKeeps == ASSUME LeadInv, DecideEnd PROVE LeadInv'
<1> USE LeadAssumption
    DEF LeadInv, session, gate, loop, job, account, Over, Single, Legacy, LastStep, NoLoop, Quality,
        Guidance, NoWork, Free
<1>1. LeadTypeOK'
  <2>1. GateTyped'
    BY TypeGroups DEF DecideEnd, GateTyped
  <2>2. LoopTyped'
    BY TypeGroups DEF DecideEnd, Go, LoopTyped
  <2>3. JobTyped'
    BY TypeGroups DEF DecideEnd, JobTyped
  <2>4. AccountTyped'
    BY TypeGroups DEF DecideEnd, AccountTyped
  <2>5. UNCHANGED <<mode, entry>>
    BY DEF DecideEnd
  <2> QED
    BY <2>1, <2>2, <2>3, <2>4, <2>5 DEF LeadTypeOK, GateTyped, LoopTyped, JobTyped, AccountTyped
<1>2. Stages'
  BY DEF DecideEnd, Go, Stages
<1>3. Calls' /\ AssessedOnce' /\ OneDone'
  BY DEF DecideEnd, Go, Calls, AssessedOnce, OneDone
<1>4. Worker'
  BY DEF DecideEnd, Go, Worker
<1>5. Parked'
  BY DEF DecideEnd, Go, Parked
<1>6. Remembered'
  BY DEF DecideEnd, Remembered
<1> QED
  BY <1>1, <1>2, <1>3, <1>4, <1>5, <1>6

LEMMA DecideAnalysisKeeps == ASSUME LeadInv, DecideAnalysis PROVE LeadInv'
<1> USE LeadAssumption
    DEF LeadInv, session, gate, loop, job, account, Over, Single, Legacy, LastStep, NoLoop, Quality,
        Guidance, NoWork, Free
<1>1. LeadTypeOK'
  <2>1. GateTyped'
    BY TypeGroups DEF DecideAnalysis, GateTyped
  <2>2. LoopTyped'
    BY TypeGroups DEF DecideAnalysis, LoopTyped
  <2>3. JobTyped'
    <3>1. JobTyped
      BY TypeGroups
    <3>2. CASE UNCHANGED job
      BY <3>1, <3>2 DEF JobTyped
    <3>3. ASSUME NEW goal \in Goals, NEW guidance \in Guidance, RunWorker(goal, guidance, FALSE)
          PROVE  JobTyped'
      BY <3>1, <3>3 DEF JobTyped, RunWorker, Bypass, ReviewedByWorker
    <3> QED
      BY <3>2, <3>3 DEF DecideAnalysis
  <2>4. AccountTyped'
    BY TypeGroups DEF DecideAnalysis, AccountTyped
  <2>5. UNCHANGED <<mode, entry>>
    BY DEF DecideAnalysis
  <2> QED
    BY <2>1, <2>2, <2>3, <2>4, <2>5 DEF LeadTypeOK, GateTyped, LoopTyped, JobTyped, AccountTyped
<1>2. Stages'
  BY DEF DecideAnalysis, Stages
<1>3. Calls' /\ AssessedOnce' /\ OneDone'
  BY DEF DecideAnalysis, Calls, AssessedOnce, OneDone
<1>4. Worker'
  <2>1. Legacy /\ pc = "ask" /\ UNCHANGED <<mode, resumed>>
    BY DEF DecideAnalysis
  <2>2. CASE pc' = "post" /\ UNCHANGED job
    BY <2>1, <2>2 DEF Worker
  <2>3. ASSUME NEW goal \in Goals, NEW guidance \in Guidance, RunWorker(goal, guidance, FALSE),
               pc' = "work"
        PROVE  Worker'
    <3>1. /\ work'.goal = goal /\ work'.review = ReviewedByWorker
          /\ kernel' = "running" /\ result' = "none"
      BY <2>3 DEF RunWorker
    <3> QED
      BY <2>1, <2>3, <3>1 DEF Worker, ReviewedByWorker
  <2> QED
    BY <2>2, <2>3 DEF DecideAnalysis
<1>5. Parked'
  BY DEF DecideAnalysis, Parked
<1>6. Remembered'
  BY DEF DecideAnalysis, Remembered
<1> QED
  BY <1>1, <1>2, <1>3, <1>4, <1>5, <1>6

LEMMA CollectKeeps == ASSUME LeadInv, Collect PROVE LeadInv'
<1> USE LeadAssumption
    DEF LeadInv, session, gate, loop, job, account, Over, Single, Legacy, LastStep, NoLoop, Quality,
        Guidance, NoWork, Free
<1>1. LeadTypeOK'
  <2>1. GateTyped'
    BY TypeGroups DEF Collect, GateTyped
  <2>2. LoopTyped'
    BY TypeGroups DEF Collect, NextStep, Answer, LoopTyped, Stages, Calls
  <2>3. JobTyped'
    BY TypeGroups DEF Collect, JobTyped
  <2>4. AccountTyped'
    <3>1. owed = 0 /\ owed' \in 0 .. 1
      BY DEF Collect, AssessedOnce
    <3>2. AccountTyped /\ UNCHANGED <<dones, dropped>>
      BY TypeGroups DEF Collect
    <3>3. degraded' \in BOOLEAN
      BY <3>2 DEF Collect, NextStep, AccountTyped
    <3> QED
      BY <3>1, <3>2, <3>3 DEF AccountTyped
  <2>5. UNCHANGED <<mode, entry>>
    BY DEF Collect
  <2> QED
    BY <2>1, <2>2, <2>3, <2>4, <2>5 DEF LeadTypeOK, GateTyped, LoopTyped, JobTyped, AccountTyped
<1>2. Stages'
  BY DEF Collect, NextStep, LeadTypeOK, Stages
<1>3. Calls' /\ AssessedOnce' /\ OneDone'
  BY DEF Collect, NextStep, Answer, Calls, Worker, AssessedOnce, OneDone
<1>4. Worker'
  BY DEF Collect, Collectable, NextStep, LeadTypeOK, Worker
<1>5. Parked'
  BY DEF Collect, NextStep, Parked
<1>6. Remembered'
  BY DEF Collect, Remembered
<1> QED
  BY <1>1, <1>2, <1>3, <1>4, <1>5, <1>6

LEMMA FinishKeeps == ASSUME LeadInv, Finish PROVE LeadInv'
<1> USE LeadAssumption
    DEF LeadInv, session, gate, loop, job, account, Over, Single, Legacy, LastStep, NoLoop, Quality,
        Guidance, NoWork, Free
<1>1. LeadTypeOK'
  <2>1. GateTyped'
    BY TypeGroups DEF Finish, GateTyped
  <2>2. LoopTyped'
    BY TypeGroups DEF Finish, Go, LoopGone, LoopTyped
  <2>3. JobTyped'
    BY TypeGroups DEF Finish, LoopGone, JobTyped
  <2>4. AccountTyped'
    <3>1. dones' \in 0 .. 1
      BY DEF Finish, Go, OneDone
    <3>2. owed' = 0 /\ degraded' = FALSE /\ dropped' = "none"
      BY DEF Finish, LoopGone
    <3>3. {owed', dones'} \subseteq 0 .. 1
      BY <3>1, <3>2
    <3> QED
      BY <3>2, <3>3 DEF AccountTyped
  <2>5. UNCHANGED <<mode, entry>>
    BY DEF Finish
  <2> QED
    BY <2>1, <2>2, <2>3, <2>4, <2>5 DEF LeadTypeOK, GateTyped, LoopTyped, JobTyped, AccountTyped
<1>2. Stages'
  BY DEF Finish, Go, LoopGone, Stages
<1>3. Calls' /\ AssessedOnce' /\ OneDone'
  BY DEF Finish, Go, LoopGone, Calls, AssessedOnce, OneDone
<1>4. Worker'
  BY DEF Finish, Go, LoopGone, Worker
<1>5. Parked'
  BY DEF Finish, Go, Parked
<1>6. Remembered'
  BY DEF Finish, Go, LoopGone, Remembered
<1> QED
  BY <1>1, <1>2, <1>3, <1>4, <1>5, <1>6

LEMMA MemoHitKeeps == ASSUME LeadInv, MemoHit PROVE LeadInv'
<1> USE LeadAssumption
    DEF LeadInv, session, gate, loop, job, account, Over, Single, Legacy, LastStep, NoLoop, Quality,
        Guidance, NoWork, Free
<1>1. LeadTypeOK'
  BY DEF MemoHit, KernelEnds, Cached, LeadTypeOK
<1>2. Stages'
  BY DEF MemoHit, KernelEnds, Stages
<1>3. Calls' /\ AssessedOnce' /\ OneDone'
  BY DEF MemoHit, Calls, AssessedOnce, OneDone
<1>4. Worker'
  BY DEF MemoHit, KernelEnds, Cached, LeadTypeOK, Worker
<1>5. Parked'
  BY DEF MemoHit, Parked
<1>6. Remembered'
  BY DEF MemoHit, KernelEnds, Remembered
<1> QED
  BY <1>1, <1>2, <1>3, <1>4, <1>5, <1>6

LEMMA ClearDirectlyKeeps == ASSUME LeadInv, ClearDirectly PROVE LeadInv'
<1> USE LeadAssumption
    DEF LeadInv, session, gate, loop, job, account, Over, Single, Legacy, LastStep, NoLoop, Quality,
        Guidance, NoWork, Free
<1>1. LeadTypeOK'
  <2>1. GateTyped'
    BY TypeGroups DEF ClearDirectly, GateTyped
  <2>2. LoopTyped'
    BY TypeGroups DEF ClearDirectly, LoopTyped
  <2>3. JobTyped'
    BY TypeGroups DEF ClearDirectly, KernelEnds, GateTyped, JobTyped, Parked
  <2>4. AccountTyped'
    BY TypeGroups DEF ClearDirectly, AccountTyped
  <2>5. UNCHANGED <<mode, entry>>
    BY DEF ClearDirectly
  <2> QED
    BY <2>1, <2>2, <2>3, <2>4, <2>5 DEF LeadTypeOK, GateTyped, LoopTyped, JobTyped, AccountTyped
<1>2. Stages'
  BY DEF ClearDirectly, KernelEnds, Stages
<1>3. Calls' /\ AssessedOnce' /\ OneDone'
  BY DEF ClearDirectly, Calls, AssessedOnce, OneDone
<1>4. Worker'
  BY DEF ClearDirectly, KernelEnds, Worker
<1>5. Parked'
  BY DEF ClearDirectly, Parked
<1>6. Remembered'
  BY DEF ClearDirectly, KernelEnds, Remembered
<1> QED
  BY <1>1, <1>2, <1>3, <1>4, <1>5, <1>6

LEMMA AnalyseKeeps == ASSUME LeadInv, Analyse PROVE LeadInv'
<1> USE LeadAssumption
    DEF LeadInv, session, gate, loop, job, account, Over, Single, Legacy, LastStep, NoLoop, Quality,
        Guidance, NoWork, Free
<1>1. LeadTypeOK'
  BY DEF Analyse, KernelEnds, Forwarded, LeadTypeOK, Worker
<1>2. Stages'
  BY DEF Analyse, KernelEnds, Stages
<1>3. Calls' /\ AssessedOnce' /\ OneDone'
  BY DEF Analyse, Forwarded, Calls, AssessedOnce, OneDone
<1>4. Worker'
  BY DEF Analyse, KernelEnds, Worker
<1>5. Parked'
  BY DEF Analyse, Parked
<1>6. Remembered'
  BY DEF Analyse, KernelEnds, Worker, Remembered
<1> QED
  BY <1>1, <1>2, <1>3, <1>4, <1>5, <1>6

LEMMA AnalysisRaisesKeeps == ASSUME LeadInv, AnalysisRaises PROVE LeadInv'
<1> USE LeadAssumption
    DEF LeadInv, session, gate, loop, job, account, Over, Single, Legacy, LastStep, NoLoop, Quality,
        Guidance, NoWork, Free
<1>1. LeadTypeOK'
  BY DEF AnalysisRaises, KernelEnds, LeadTypeOK
<1>2. Stages'
  BY DEF AnalysisRaises, KernelEnds, Stages
<1>3. Calls' /\ AssessedOnce' /\ OneDone'
  BY DEF AnalysisRaises, Calls, AssessedOnce, OneDone
<1>4. Worker'
  BY DEF AnalysisRaises, KernelEnds, Worker
<1>5. Parked'
  BY DEF AnalysisRaises, Parked
<1>6. Remembered'
  BY DEF AnalysisRaises, KernelEnds, Remembered
<1> QED
  BY <1>1, <1>2, <1>3, <1>4, <1>5, <1>6

LEMMA NewRequestKeeps == ASSUME LeadInv, NewRequest PROVE LeadInv'
<1> USE LeadAssumption
    DEF LeadInv, session, gate, loop, job, account, Over, Single, Legacy, LastStep, NoLoop, Quality,
        Guidance, NoWork, Free
<1>1. LeadTypeOK'
  BY DEF NewRequest, LeadTypeOK
<1>2. Stages'
  BY DEF NewRequest, Stages
<1>3. Calls' /\ AssessedOnce' /\ OneDone'
  BY DEF NewRequest, Calls, AssessedOnce, OneDone
<1>4. Worker'
  BY DEF NewRequest, Worker
<1>5. Parked'
  BY DEF NewRequest, LeadTypeOK, Parked
<1>6. Remembered'
  BY DEF NewRequest, Stages, Remembered
<1> QED
  BY <1>1, <1>2, <1>3, <1>4, <1>5, <1>6

LEMMA PendingExpiresKeeps == ASSUME LeadInv, PendingExpires PROVE LeadInv'
<1> USE LeadAssumption
    DEF LeadInv, session, gate, loop, job, account, Over, Single, Legacy, LastStep, NoLoop, Quality,
        Guidance, NoWork, Free
<1>1. LeadTypeOK'
  BY DEF PendingExpires, LeadTypeOK
<1>2. Stages'
  BY DEF PendingExpires, Stages
<1>3. Calls' /\ AssessedOnce' /\ OneDone'
  BY DEF PendingExpires, Calls, AssessedOnce, OneDone
<1>4. Worker'
  BY DEF PendingExpires, Worker
<1>5. Parked'
  BY DEF PendingExpires, Parked
<1>6. Remembered'
  BY DEF PendingExpires, Remembered
<1> QED
  BY <1>1, <1>2, <1>3, <1>4, <1>5, <1>6

LEMMA OrphanEndsKeeps == ASSUME LeadInv, OrphanEnds PROVE LeadInv'
<1> USE LeadAssumption
    DEF LeadInv, session, gate, loop, job, account, Over, Single, Legacy, LastStep, NoLoop, Quality,
        Guidance, NoWork, Free
<1>1. LeadTypeOK'
  <2>1. GateTyped'
    BY TypeGroups DEF OrphanEnds, GateTyped
  <2>2. LoopTyped'
    BY TypeGroups DEF OrphanEnds, LoopTyped
  <2>3. JobTyped'
    BY TypeGroups DEF OrphanEnds, GateTyped, JobTyped, Parked
  <2>4. AccountTyped'
    BY TypeGroups DEF OrphanEnds, AccountTyped
  <2>5. UNCHANGED <<mode, entry>>
    BY DEF OrphanEnds
  <2> QED
    BY <2>1, <2>2, <2>3, <2>4, <2>5 DEF LeadTypeOK, GateTyped, LoopTyped, JobTyped, AccountTyped
<1>2. Stages'
  BY DEF OrphanEnds, Stages
<1>3. Calls' /\ AssessedOnce' /\ OneDone'
  BY DEF OrphanEnds, Calls, AssessedOnce, OneDone
<1>4. Worker'
  BY DEF OrphanEnds, Worker
<1>5. Parked'
  BY DEF OrphanEnds, Parked
<1>6. Remembered'
  BY DEF OrphanEnds, Remembered
<1> QED
  BY <1>1, <1>2, <1>3, <1>4, <1>5, <1>6

LEMMA CancelledKeeps == ASSUME LeadInv, Cancelled PROVE LeadInv'
<1> USE LeadAssumption
    DEF LeadInv, session, gate, loop, job, account, Over, Single, Legacy, LastStep, NoLoop, Quality,
        Guidance, NoWork, Free
<1>1. LeadTypeOK'
  <2>1. GateTyped'
    BY TypeGroups DEF Cancelled, GateTyped
  <2>2. LoopTyped'
    BY TypeGroups DEF Cancelled, LoopGone, LoopTyped
  <2>3. JobTyped'
    BY TypeGroups DEF Cancelled, LoopGone, JobTyped, Worker
  <2>4. AccountTyped'
    BY TypeGroups DEF Cancelled, LoopGone, AccountTyped, OneDone
  <2>5. UNCHANGED <<mode, entry>>
    BY DEF Cancelled
  <2> QED
    BY <2>1, <2>2, <2>3, <2>4, <2>5 DEF LeadTypeOK, GateTyped, LoopTyped, JobTyped, AccountTyped
<1>2. Stages'
  BY DEF Cancelled, LoopGone, Stages
<1>3. Calls' /\ AssessedOnce' /\ OneDone'
  BY DEF Cancelled, LoopGone, Calls, AssessedOnce, OneDone
<1>4. Worker'
  BY DEF Cancelled, LoopGone, Worker
<1>5. Parked'
  BY DEF Cancelled, Parked
<1>6. Remembered'
  BY DEF Cancelled, LoopGone, Remembered
<1> QED
  BY <1>1, <1>2, <1>3, <1>4, <1>5, <1>6

-----------------------------------------------------------------------------
(***************************************************************************)
(* The theorems.                                                           *)
(***************************************************************************)
LEMMA Initially == LeadInit => LeadInv
<1> SUFFICES ASSUME LeadInit PROVE LeadInv
  OBVIOUS
<1> USE LeadAssumption DEF LeadInit, NoLoop, NoWork, Free
<1>1. GateTyped /\ LoopTyped
  BY DEF GateTyped, LoopTyped
<1>2. JobTyped
  <2>1. work \in [goal : Goals \cup {NoGoal}, guidance : Guidance, bypass : BOOLEAN,
                  review : BOOLEAN]
    BY DEF Guidance
  <2> QED
    BY <2>1 DEF JobTyped
<1>6. AccountTyped
  <2>1. {owed, dones} \subseteq 0 .. 1 /\ dropped \in {"none", "fallback", "repair"}
    OBVIOUS
  <2>2. degraded \in BOOLEAN
    OBVIOUS
  <2> QED
    BY <2>1, <2>2 DEF AccountTyped
<1>3. LeadTypeOK
  BY <1>1, <1>2, <1>6, TypeGroups
<1>4. Stages /\ Calls /\ Worker
  BY DEF Stages, Calls, Worker
<1>5. Parked /\ Remembered /\ AssessedOnce /\ OneDone
  BY DEF Parked, Remembered, AssessedOnce, OneDone
<1> QED
  BY <1>3, <1>4, <1>5 DEF LeadInv

LEMMA StutterKeeps == ASSUME LeadInv, UNCHANGED leadVars PROVE LeadInv'
<1> USE DEF leadVars, session, gate, loop, job, account, LeadInv
<1>1. LeadTypeOK' /\ AssessedOnce' /\ OneDone'
  BY DEF LeadTypeOK, AssessedOnce, OneDone
<1>2. Stages' /\ Calls' /\ Worker'
  BY DEF Stages, Calls, Worker, NoLoop, Single, Legacy, LastStep
<1>3. Parked' /\ Remembered'
  BY DEF Parked, Remembered, Single
<1> QED
  BY <1>1, <1>2, <1>3

\* One case per action.
LEMMA LeadKept == LeadInv /\ [LeadNext]_leadVars => LeadInv'
<1>1. LeadInv /\ Turn => LeadInv'
  BY GuardResumeKeeps, GuardClosesKeeps, GuardPassesKeeps, ReplyEndsKeeps, ReplyKeeps, RefuseKeeps,
     ObserveKeeps, DispatchKeeps, ReviewKeeps, TerminalKeeps, StepEndsKeeps, DecideAskKeeps,
     DecideEndKeeps, DecideAnalysisKeeps, CollectKeeps, FinishKeeps DEF Turn
<1>2. LeadInv /\ Kernel => LeadInv'
  BY MemoHitKeeps, ClearDirectlyKeeps, AnalyseKeeps, AnalysisRaisesKeeps DEF Kernel
<1> QED
  BY <1>1, <1>2, NewRequestKeeps, PendingExpiresKeeps, OrphanEndsKeeps, CancelledKeeps,
     StutterKeeps DEF LeadNext

\* The invariant holds in every behaviour of the agent.
THEOREM LeadInvariant == LeadSpec => []LeadInv
BY LeadKept, Initially, PTL DEF LeadSpec

\* The state of LeadAgent's loops keeps its types; the calls at hand stay
\* within one reply.
THEOREM LeadTypeCorrect == LeadSpec => []LeadTypeOK
BY LeadInvariant, PTL DEF LeadInv

\* Whatever the model answers: when it is asked again every call has its tool
\* message, every result is assessed once, and a request has one done.
THEOREM BooksBalance == LeadSpec => []RoundAccounted
<1>1. LeadInv => RoundAccounted
  BY DEF LeadInv, Calls, RoundAccounted, EveryCallAnswered
<1> QED
  BY <1>1, LeadInvariant, PTL

-----------------------------------------------------------------------------
(***************************************************************************)
(* What no step of a turn does.                                            *)
(***************************************************************************)
\* Only run_review_stage takes a turn from its review back to its calls, and it
\* adjudges a failed result a failure.
LEMMA FailureStands ==
    ASSUME LeadInv, [LeadNext]_leadVars, pc = "review", pc' = "calls", Hard(result)
    PROVE  degraded'
<1>1. Review
  BY DEF LeadNext, Turn, Kernel, leadVars, loop, Go, GuardResume, GuardCloses, GuardPasses,
     ReplyEnds, Reply, Refuse, Observe, Dispatch, Terminal, StepEnds, DecideAsk, DecideEnd,
     DecideAnalysis, Collect, Finish, MemoHit, ClearDirectly, Analyse, AnalysisRaises, NewRequest,
     PendingExpires, OrphanEnds, Cancelled
<1>2. Adjudged(result) = {"fail"}
  BY DEF Adjudged, Hard
<1> QED
  BY <1>1, <1>2 DEF Review

\* Only the guard resumes, and what it finds parked is of the request before.
LEMMA ResumesInTurn ==
    ASSUME LeadInv, [LeadNext]_leadVars, resumed' # NoGoal, resumed = NoGoal
    PROVE  pending.by = guarded /\ pending.by < request
<1>1. GuardResume
  BY DEF LeadNext, Turn, Kernel, leadVars, gate, Park, GuardCloses, GuardPasses, ReplyEnds, Reply,
     Refuse, Observe, Dispatch, Terminal, StepEnds, Review, DecideAsk, DecideEnd, DecideAnalysis,
     Collect, Finish, MemoHit, ClearDirectly, Analyse, AnalysisRaises, NewRequest, PendingExpires,
     OrphanEnds, Cancelled
<1> QED
  BY <1>1 DEF GuardResume, LeadInv, Parked

\* A worker ends by a hit of the memo, or without one.
LEMMA RedoneIsRun ==
    ASSUME LeadInv, [LeadNext]_leadVars, Single, kernel = "running", kernel' = "finished"
    PROVE  ~Hit
BY DEF Hit, Cached, LeadInv, Remembered

\* From the second round on only a decision that is not degraded is executed.
LEMMA DegradedEnds ==
    ASSUME LeadInv, [LeadNext]_leadVars, Legacy, pc = "ask", pc' = "work", step > 0
    PROVE  degraded' = degraded
<1>1. DecideAnalysis
  BY DEF LeadNext, Turn, Kernel, leadVars, loop, Go, GuardResume, GuardCloses, GuardPasses,
     ReplyEnds, Reply, Refuse, Observe, Dispatch, Terminal, StepEnds, Review, DecideAsk, DecideEnd,
     Collect, Finish, MemoHit, ClearDirectly, Analyse, AnalysisRaises, NewRequest, PendingExpires,
     OrphanEnds, Cancelled
<1>2. step # 0 /\ degraded \in BOOLEAN
  BY DEF LeadInv, LeadTypeOK
<1> QED
  BY <1>1, <1>2 DEF DecideAnalysis, Executed

\* No step of LeadAgent's turn talks a failed result into passing, resumes a
\* goal out of turn, takes an old result for a new run, or starts a second
\* analysis on a failing decider.
THEOREM TurnsAreRuled == LeadSpec => TurnRules
<1>1. LeadInv /\ [LeadNext]_leadVars =>
          /\ pc = "review" /\ pc' = "calls" /\ Hard(result) => degraded'
          /\ resumed' # NoGoal /\ resumed = NoGoal => pending.by = guarded /\ pending.by < request
          /\ Single /\ kernel = "running" /\ kernel' = "finished" => ~Hit
          /\ Legacy /\ pc = "ask" /\ pc' = "work" /\ step > 0 => degraded' = degraded
  BY FailureStands, ResumesInTurn, RedoneIsRun, DegradedEnds
<1> QED
  BY <1>1, LeadInvariant, PTL DEF LeadSpec, TurnRules, HardStands, ResumeFollowsAsk, RedoRuns,
     DegradedEndsTurn

-----------------------------------------------------------------------------
(***************************************************************************)
(* Arithmetic of positions.                                                *)
(***************************************************************************)
\* How many user messages lie at or before position w.
Half(w) == (w + 1) \div 2

LEMMA Halves ==
    ASSUME NEW w \in Nat
    PROVE  Half(w) \in Nat /\ (2 * Half(w) = w \/ 2 * Half(w) = w + 1)
BY DEF Half

LEMMA HalfGrows ==
    ASSUME NEW v \in Nat, NEW w \in Nat, NEW n \in Nat, v + 2 * n <= w
    PROVE  Half(v) + n <= Half(w)
BY Halves

LEMMA Intervals ==
    ASSUME NEW a \in Int, NEW b \in Int
    PROVE  /\ IsFiniteSet(a .. b) /\ Cardinality(a .. b) \in Nat
           /\ a <= b + 1 => Cardinality(a .. b) = b + 1 - a
           /\ a > b => Cardinality(a .. b) = 0
           /\ \A S \in SUBSET (a .. b) : /\ IsFiniteSet(S) /\ Cardinality(S) \in Nat
                                        /\ Cardinality(S) <= Cardinality(a .. b)
<1>1. IsFiniteSet(a .. b) /\ Cardinality(a .. b) = IF a > b THEN 0 ELSE b - a + 1
  BY FS_Interval
<1>2. ASSUME NEW S \in SUBSET (a .. b)
      PROVE  /\ IsFiniteSet(S) /\ Cardinality(S) \in Nat
             /\ Cardinality(S) <= Cardinality(a .. b)
  BY <1>1, FS_Subset, FS_CardinalityType
<1> QED
  BY <1>1, <1>2

\* The user messages after position v, up to position w, are of consecutive rounds.
LEMMA Between ==
    ASSUME NEW v \in Nat, NEW w \in Nat, v <= w, NEW b \in Nat, Half(w) <= b
    PROVE  /\ {j \in 1 .. b : v < UserAt(j) /\ UserAt(j) <= w} = Half(v) + 1 .. Half(w)
           /\ Cardinality(Half(v) + 1 .. Half(w)) = Half(w) - Half(v)
<1>1. /\ Half(v) \in Nat /\ (2 * Half(v) = v \/ 2 * Half(v) = v + 1)
      /\ Half(w) \in Nat /\ (2 * Half(w) = w \/ 2 * Half(w) = w + 1)
  BY Halves
<1>2. \A j \in 1 .. b : v < UserAt(j) /\ UserAt(j) <= w <=> j \in Half(v) + 1 .. Half(w)
  BY <1>1 DEF UserAt
<1>3. Half(v) + 1 .. Half(w) \subseteq 1 .. b
  BY <1>1
<1>4. Half(v) + 1 \in Int /\ Half(w) \in Int /\ Half(v) + 1 <= Half(w) + 1
  BY <1>1
<1>5. Cardinality(Half(v) + 1 .. Half(w)) = Half(w) + 1 - (Half(v) + 1)
  BY <1>4, Intervals
<1> QED
  BY <1>1, <1>2, <1>3, <1>5

LEMMA Limits ==
    /\ MaxRound \in Nat \ {0} /\ MergeRounds \in Nat \ {0} /\ Window \in Nat \ {0}
    /\ MaxMessages \in Nat \ {0} /\ MaxFailures \in Nat \ {0}
    /\ MergeRounds + MaxFailures <= Window + 1
    /\ MaxMessages >= 2 * (Window + 1)
BY MemoryAssumption

LEMMA MaxOfInterval ==
    ASSUME NEW a \in Int, NEW b \in Int, a <= b
    PROVE  Max(a .. b) = b
BY DEF Max

LEMMA Extremes ==
    ASSUME NEW x \in Int, NEW y \in Int
    PROVE  /\ Max({x, y}) = IF x > y THEN x ELSE y
           /\ Min({x, y}) = IF x > y THEN y ELSE x
<1>1. \A m \in {x, y} : (\A z \in {x, y} : m >= z) => m = IF x > y THEN x ELSE y
  OBVIOUS
<1>2. \A m \in {x, y} : (\A z \in {x, y} : m <= z) => m = IF x > y THEN y ELSE x
  OBVIOUS
<1>3. \E m \in {x, y} : \A z \in {x, y} : m >= z
  <2>1. CASE x > y
    BY <2>1
  <2>2. CASE ~(x > y)
    BY <2>2
  <2> QED
    BY <2>1, <2>2
<1>4. \E m \in {x, y} : \A z \in {x, y} : m <= z
  <2>1. CASE x > y
    BY <2>1
  <2>2. CASE ~(x > y)
    BY <2>2
  <2> QED
    BY <2>1, <2>2
<1> QED
  BY <1>1, <1>2, <1>3, <1>4 DEF Max, Min

-----------------------------------------------------------------------------
(***************************************************************************)
(* What a memory step reads and writes.                                    *)
(***************************************************************************)
Running(i) == phase[i] = "running"
From(i) == IF context[i].watermark >= UserAt(first) THEN context[i].watermark + 1
                                                    ELSE UserAt(first)
To(i) == IF From(i) + MaxMessages - 1 < AnswerAt(total) THEN From(i) + MaxMessages - 1
                                                        ELSE AnswerAt(total)

LEMMA Parts ==
    ASSUME MemoryTypeOK
    PROVE  /\ total \in 0 .. MaxRound /\ first \in 1 .. MaxRound + 1 /\ filled \subseteq Positions
           /\ memory.summary \subseteq Positions /\ memory.covered \in 0 .. MaxRound
           /\ memory.watermark \in 0 .. 2 * MaxRound /\ memory.fails \in 0 .. MaxFailures + 1
           /\ \A i \in Rounds : /\ context[i] \in Memory
                                /\ context[i].summary \subseteq Positions
                                /\ context[i].covered \in 0 .. MaxRound
                                /\ context[i].watermark \in 0 .. 2 * MaxRound
                                /\ context[i].fails \in 0 .. MaxFailures + 1
<1>1. memory \in Memory /\ \A i \in Rounds : context[i] \in Memory
  BY DEF MemoryTypeOK
<1> QED
  BY <1>1 DEF MemoryTypeOK, Memory

\* A segment that is not empty ends at the last message, or is as long as a merge may be.
LEMMA Segments ==
    ASSUME MemoryTypeOK, NEW i \in Rounds, Segment(i) # {}
    PROVE  /\ Segment(i) = From(i) .. To(i) /\ Max(Segment(i)) = To(i)
           /\ From(i) \in Nat \ {0} /\ To(i) \in 1 .. AnswerAt(total) /\ From(i) <= To(i)
           /\ To(i) = AnswerAt(total) \/ To(i) = From(i) + MaxMessages - 1
           /\ AnswerAt(total) \in 0 .. 2 * MaxRound
<1>1. context[i].watermark \in Nat /\ total \in 0 .. MaxRound /\ first \in Nat \ {0}
  BY Parts
<1>2. Segment(i) = From(i) .. To(i)
  BY DEF Segment, From, To
<1>3. From(i) \in Nat \ {0} /\ To(i) \in Int /\ AnswerAt(total) \in 0 .. 2 * MaxRound
  BY <1>1, Limits DEF From, To, UserAt, AnswerAt
<1>4. From(i) <= To(i)
  BY <1>2, <1>3
<1>5. Max(Segment(i)) = To(i)
  BY <1>2, <1>3, <1>4, MaxOfInterval
<1>6. To(i) <= AnswerAt(total) /\ (To(i) = AnswerAt(total) \/ To(i) = From(i) + MaxMessages - 1)
  BY <1>3, Limits DEF To
<1> QED
  BY <1>2, <1>3, <1>4, <1>5, <1>6

\* The count that is written is at most what the segment added.
LEMMA Counts ==
    ASSUME MemoryTypeOK, NEW i \in Rounds, Segment(i) # {}
    PROVE  /\ Covered(i) \in 0 .. MaxRound
           /\ first = 1 => Covered(i) <= context[i].covered + (Half(To(i)) - Half(context[i].watermark))
<1> DEFINE merged == Cardinality(UsersOf(Kept(i)))
<1>1. /\ context[i].watermark \in Nat /\ total \in 0 .. MaxRound /\ first \in Nat \ {0}
      /\ context[i].covered \in 0 .. MaxRound
  BY Parts
<1>2. Count \in Int /\ Count <= MaxRound /\ Progress(i) \in 0 .. context[i].covered
  BY <1>1, Limits DEF Count, Progress
<1>3. UsersOf(Kept(i)) \in SUBSET (first .. total) /\ first \in Int /\ total \in Int
  BY <1>1 DEF UsersOf
<1>4. merged \in Nat
  BY <1>3, Intervals
<1> HIDE DEF merged
<1>5. /\ Covered(i) = Min({Progress(i) + merged, Max({0, Count - 1})})
      /\ Max({0, Count - 1}) = IF 0 > Count - 1 THEN 0 ELSE Count - 1
  BY <1>2, Extremes DEF Covered, merged
<1>6. Covered(i) \in 0 .. MaxRound /\ Covered(i) <= Progress(i) + merged
  <2> DEFINE x == Progress(i) + merged
             y == Max({0, Count - 1})
  <2>1. x \in Nat /\ y \in 0 .. MaxRound
    BY <1>1, <1>2, <1>4, <1>5, Limits
  <2>2. Covered(i) = Min({x, y})
    BY <1>5
  <2> HIDE DEF x, y
  <2>3. Covered(i) \in 0 .. MaxRound /\ Covered(i) <= x
    <3>1. x \in Int /\ y \in Int
      BY <2>1
    <3>2. Min({x, y}) = IF x > y THEN y ELSE x
      BY <3>1, Extremes
    <3> QED
      BY <2>1, <2>2, <3>2, Limits
  <2> QED
    BY <2>3 DEF x
<1>7. ASSUME first = 1
      PROVE  merged <= Half(To(i)) - Half(context[i].watermark)
  <2> DEFINE v == context[i].watermark
             w == To(i)
  <2>1. /\ From(i) = v + 1 /\ w \in Nat /\ v \in Nat /\ v <= w
        /\ w <= 2 * total /\ Segment(i) = v + 1 .. w
    BY <1>1, <1>7, Segments, Limits DEF From, UserAt, AnswerAt
  <2> HIDE DEF v, w
  <2>2. Half(w) \in Nat /\ Half(v) \in Nat /\ Half(w) <= total
    <3>1. /\ Half(v) \in Nat
          /\ Half(w) \in Nat /\ (2 * Half(w) = w \/ 2 * Half(w) = w + 1)
      BY <2>1, Halves
    <3> QED
      BY <1>1, <2>1, <3>1
  <2>3. /\ {j \in 1 .. total : v < UserAt(j) /\ UserAt(j) <= w} = Half(v) + 1 .. Half(w)
        /\ Cardinality(Half(v) + 1 .. Half(w)) = Half(w) - Half(v)
    BY <1>1, <2>1, <2>2, Between
  <2>4. UsersOf(Kept(i)) \in SUBSET (Half(v) + 1 .. Half(w))
    <3>1. \A j \in UsersOf(Kept(i)) : j \in 1 .. total /\ v < UserAt(j) /\ UserAt(j) <= w
      BY <1>1, <1>7, <2>1 DEF UsersOf, Kept, UserAt
    <3> QED
      BY <2>3, <3>1
  <2>5. merged <= Half(w) - Half(v)
    <3>1. Half(v) + 1 \in Int /\ Half(w) \in Int
      BY <2>2
    <3>2. merged <= Cardinality(Half(v) + 1 .. Half(w))
      BY <2>4, <3>1, Intervals DEF merged
    <3> QED
      BY <2>3, <3>2
  <2> QED
    BY <2>5 DEF v, w
<1>8. ASSUME first = 1
      PROVE  Covered(i) <= context[i].covered + (Half(To(i)) - Half(context[i].watermark))
  <2> DEFINE d == Half(To(i)) - Half(context[i].watermark)
  <2>1. d \in Int
    <3>1. Half(To(i)) \in Nat
      BY Segments, Halves
    <3>2. Half(context[i].watermark) \in Nat
      BY <1>1, Halves
    <3> QED
      BY <3>1, <3>2 DEF d
  <2>2. merged <= d
    BY <1>7, <1>8
  <2> HIDE DEF d
  <2>3. Covered(i) <= context[i].covered + d
    BY <1>1, <1>2, <1>4, <1>6, <2>1, <2>2
  <2> QED
    BY <2>3 DEF d
<1> QED
  BY <1>6, <1>8

-----------------------------------------------------------------------------
(***************************************************************************)
(* Types.                                                                  *)
(***************************************************************************)
\* Rounds begin in their order and store their question.
Begun ==
    \A j \in Rounds : /\ j > total => phase[j] = "idle"
                      /\ j <= total => UserAt(j) \in filled

\* A round that will count its failure if its merge fails.
Trying(i) == Running(i) /\ context[i].fails < MaxFailures

\* Two rounds at most are live, and each adds at most one failure to a count
\* that it read below the limit.
FailuresBounded ==
    /\ \A i, j, k \in Rounds : Live(i) /\ Live(j) /\ Live(k) => i = j \/ j = k \/ i = k
    /\ memory.fails = MaxFailures => \A i, j \in Rounds : Trying(i) /\ Trying(j) => i = j
    /\ memory.fails = MaxFailures + 1 => \A i \in Rounds : ~Trying(i)

MemoryStep(i) == Wait(i) \/ Merge(i) \/ MergeFails(i) \/ Fallback(i) \/ Skip(i)

LEMMA FewLive ==
    ASSUME Cardinality({i \in Rounds : Live(i)}) < 2
    PROVE  \A i, j \in Rounds : Live(i) /\ Live(j) => i = j
<1> DEFINE S == {i \in Rounds : Live(i)}
<1>1. MaxRound \in Int /\ 1 \in Int /\ S \in SUBSET (1 .. MaxRound)
  BY Limits DEF Rounds
<1>2. IsFiniteSet(S) /\ Cardinality(S) \in Nat
  BY <1>1, Intervals
<1>3. CASE Cardinality(S) = 0
  BY <1>2, <1>3, FS_EmptySet
<1>4. CASE Cardinality(S) = 1
  <2>1. PICK x : S = {x}
    BY <1>2, <1>4, FS_Singleton
  <2> QED
    BY <2>1
<1> QED
  BY <1>2, <1>3, <1>4

\* What the steps of a round do to its phase and to the failures.
LEMMA Stepping ==
    ASSUME MemoryTypeOK, NEW i \in Rounds, MemoryStep(i)
    PROVE  /\ phase[i] = "running" /\ phase' = [phase EXCEPT ![i] = "saving"]
           /\ UNCHANGED <<total, first, context, filled, overlap>>
           /\ \/ memory' = memory
              \/ memory'.fails = 0
              \/ context[i].fails < MaxFailures /\ memory'.fails = memory.fails + 1
<1>1. CASE Wait(i)
  BY <1>1 DEF Wait, Step
<1>2. CASE Merge(i)
  BY <1>2 DEF Merge, Step, Upsert
<1>3. CASE MergeFails(i)
  <2>1. context[i].fails \in Nat /\ memory \in Memory
    BY Parts DEF MemoryTypeOK
  <2>2. memory'.fails = memory.fails + 1
    BY <1>3, <2>1 DEF MergeFails, Memory
  <2> QED
    BY <1>3, <2>1, <2>2, Limits DEF MergeFails, CircuitOpen, Step
<1>4. CASE Fallback(i)
  BY <1>4 DEF Fallback, Step, Upsert
<1>5. CASE Skip(i)
  BY <1>5 DEF Skip
<1> QED
  BY <1>1, <1>2, <1>3, <1>4, <1>5 DEF MemoryStep

\* What is written is a memory, whoever writes it.
LEMMA Upserts ==
    ASSUME MemoryTypeOK, NEW i \in Rounds, Segment(i) # {},
           NEW old \in SUBSET Positions, NEW items \in SUBSET Positions,
           Upsert(i, old, items)
    PROVE  memory' \in Memory /\ skipped' \in Nat
<1>1. /\ Max(Segment(i)) = To(i) /\ To(i) \in 1 .. AnswerAt(total)
      /\ AnswerAt(total) \in 0 .. 2 * MaxRound
  BY Segments
<1>2. Covered(i) \in 0 .. MaxRound /\ Max(Segment(i)) \in 0 .. 2 * MaxRound
  BY <1>1, Counts, Limits
<1>3. 0 \in 0 .. MaxFailures + 1
  BY Limits
<1> QED
  BY <1>2, <1>3 DEF Upsert, Memory, MemoryTypeOK

LEMMA TypeStep ==
    ASSUME MemoryTypeOK, Begun, FailuresBounded, [MemoryNext]_memoryVars
    PROVE  MemoryTypeOK'
<1>1. CASE Begin
  <2>1. total + 1 \in Rounds /\ total' \in 0 .. MaxRound
    BY <1>1, Limits DEF Begin, MemoryTypeOK, Rounds
  <2>2. UserAt(total + 1) \in Positions
    BY <2>1, Limits DEF UserAt, Positions, Rounds
  <2> QED
    BY <1>1, <2>1, <2>2 DEF Begin, MemoryTypeOK
<1>2. CASE NewConversation
  <2>1. total + 1 \in 1 .. MaxRound + 1
    BY Limits DEF MemoryTypeOK
  <2> QED
    BY <1>2, <2>1 DEF NewConversation, MemoryTypeOK
<1>3. ASSUME NEW i \in Rounds, MemoryStep(i)
      PROVE  MemoryTypeOK'
  <2>1. /\ phase[i] = "running" /\ phase' = [phase EXCEPT ![i] = "saving"]
        /\ UNCHANGED <<total, first, context, filled, overlap>>
    BY <1>3, Stepping
  <2>2. Kept(i) \in SUBSET Positions /\ context[i].summary \in SUBSET Positions
        /\ {UserAt(j) : j \in Lines(i)} \in SUBSET Positions
    BY Parts DEF Kept, Lines, UsersOf
  <2>3. memory' \in Memory /\ skipped' \in Nat /\ lossy' \in BOOLEAN
    <3>1. CASE Wait(i)
      BY <3>1 DEF Wait, MemoryTypeOK
    <3>2. CASE Merge(i)
      <4>1. context[i].summary \cup Kept(i) \in SUBSET Positions
        BY <2>2
      <4>2. Segment(i) # {} /\ Upsert(i, context[i].summary, Kept(i)) /\ lossy' = lossy
        BY <3>2 DEF Merge, Due
      <4> QED
        BY <2>2, <4>2, Upserts DEF MemoryTypeOK
    <3>3. CASE MergeFails(i)
      <4>1. memory.fails + 1 \in 0 .. MaxFailures + 1
        <5>1. Trying(i)
          BY <2>1, <3>3, Parts, Limits DEF MergeFails, CircuitOpen, Trying, Running
        <5>2. memory.fails \in 0 .. MaxFailures + 1 /\ memory.fails # MaxFailures + 1
          BY <5>1, Parts DEF FailuresBounded
        <5> QED
          BY <5>2, Limits
      <4> QED
        BY <3>3, <4>1 DEF MergeFails, MemoryTypeOK, Memory
    <3>4. CASE Fallback(i)
      <4>1. Segment(i) # {} /\ Upsert(i, {}, {UserAt(j) : j \in Lines(i)}) /\ lossy' = TRUE
        BY <3>4 DEF Fallback, Due
      <4> QED
        BY <2>2, <4>1, Upserts
    <3>5. CASE Skip(i)
      BY <3>5 DEF Skip, MemoryTypeOK
    <3> QED
      BY <1>3, <3>1, <3>2, <3>3, <3>4, <3>5 DEF MemoryStep
  <2> QED
    BY <2>1, <2>3 DEF MemoryTypeOK
<1>4. ASSUME NEW i \in Rounds, Save(i)
      PROVE  MemoryTypeOK'
  <2>1. AnswerAt(i) \in Positions /\ NoMemory \in Memory
    BY Limits DEF AnswerAt, Positions, Rounds, NoMemory, Memory
  <2> QED
    BY <1>4, <2>1 DEF Save, MemoryTypeOK
<1>5. CASE UNCHANGED memoryVars
  BY <1>5 DEF memoryVars, MemoryTypeOK
<1> QED
  BY <1>1, <1>2, <1>3, <1>4, <1>5 DEF MemoryNext, MemoryStep

\* Rounds begin in their order.
LEMMA BegunStep ==
    ASSUME MemoryTypeOK, Begun, [MemoryNext]_memoryVars
    PROVE  Begun'
<1>0. total \in 0 .. MaxRound
  BY Parts
<1>1. CASE Begin
  BY <1>0, <1>1 DEF Begin, Begun, MemoryTypeOK, Rounds
<1>2. CASE NewConversation
  BY <1>2 DEF NewConversation, Begun
<1>3. ASSUME NEW i \in Rounds, MemoryStep(i)
      PROVE  Begun'
  <2>1. /\ phase[i] = "running" /\ phase' = [phase EXCEPT ![i] = "saving"]
        /\ UNCHANGED <<total, filled>>
    BY <1>3, Stepping
  <2> QED
    BY <2>1 DEF Begun, MemoryTypeOK
<1>4. ASSUME NEW i \in Rounds, Save(i)
      PROVE  Begun'
  BY <1>4 DEF Save, Begun, MemoryTypeOK
<1>5. CASE UNCHANGED memoryVars
  BY <1>5 DEF memoryVars, Begun
<1> QED
  BY <1>1, <1>2, <1>3, <1>4, <1>5 DEF MemoryNext, MemoryStep

LEMMA FailuresStep ==
    ASSUME MemoryTypeOK, Begun, FailuresBounded, [MemoryNext]_memoryVars
    PROVE  FailuresBounded'
<1>0. memory.fails \in 0 .. MaxFailures + 1 /\ total \in 0 .. MaxRound
  BY Parts
<1>1. CASE Begin
  <2>1. \A i, j \in Rounds : Live(i) /\ Live(j) => i = j
    BY <1>1, FewLive DEF Begin
  <2>2. \A i \in Rounds : Live(i)' => i = total + 1 \/ Live(i)
    BY <1>1 DEF Begin, Live, MemoryTypeOK
  <2>3. \A i \in Rounds : Trying(i)' => (i = total + 1 /\ memory.fails < MaxFailures) \/ (Live(i) /\ Trying(i))
    BY <1>1 DEF Begin, Trying, Running, Live, MemoryTypeOK
  <2>4. memory' = memory
    BY <1>1 DEF Begin
  <2> QED
    BY <1>0, <2>1, <2>2, <2>3, <2>4, Limits DEF FailuresBounded
<1>2. CASE NewConversation
  BY <1>2 DEF NewConversation, FailuresBounded, Trying, Running, Live
<1>3. ASSUME NEW i \in Rounds, MemoryStep(i)
      PROVE  FailuresBounded'
  <2>1. /\ phase[i] = "running" /\ phase' = [phase EXCEPT ![i] = "saving"]
        /\ context' = context
        /\ \/ memory' = memory
           \/ memory'.fails = 0
           \/ context[i].fails < MaxFailures /\ memory'.fails = memory.fails + 1
    BY <1>3, Stepping
  <2>2. \A j \in Rounds : Live(j)' => Live(j)
    BY <2>1 DEF Live, MemoryTypeOK
  <2>3. \A j \in Rounds : Trying(j)' => Trying(j) /\ j # i /\ Live(j)
    BY <2>1 DEF Trying, Running, Live, MemoryTypeOK
  <2>4. CASE memory' = memory
    BY <2>2, <2>3, <2>4 DEF FailuresBounded
  <2>5. CASE memory'.fails = 0
    BY <2>2, <2>3, <2>5, Limits DEF FailuresBounded
  <2>6. CASE context[i].fails < MaxFailures /\ memory'.fails = memory.fails + 1
    <3>1. Trying(i) /\ Live(i)
      BY <2>1, <2>6 DEF Trying, Running, Live
    <3>2. \A j, k \in Rounds : Trying(j)' /\ Trying(k)' => j = k
      BY <2>3, <3>1 DEF FailuresBounded
    <3>3. memory.fails = MaxFailures => \A j \in Rounds : ~Trying(j)'
      BY <2>3, <3>1 DEF FailuresBounded
    <3>4. memory'.fails = MaxFailures + 1 => memory.fails = MaxFailures
      BY <1>0, <2>6, Limits
    <3> QED
      BY <2>2, <3>2, <3>3, <3>4 DEF FailuresBounded
  <2> QED
    BY <2>1, <2>4, <2>5, <2>6
<1>4. ASSUME NEW i \in Rounds, Save(i)
      PROVE  FailuresBounded'
  <2>1. \A j \in Rounds : /\ Live(j)' => Live(j)
                          /\ Trying(j)' => Trying(j)
    BY <1>4 DEF Save, Live, Trying, Running, MemoryTypeOK
  <2> QED
    BY <1>4, <2>1 DEF Save, FailuresBounded
<1>5. CASE UNCHANGED memoryVars
  BY <1>5 DEF memoryVars, FailuresBounded, Trying, Running, Live
<1> QED
  BY <1>1, <1>2, <1>3, <1>4, <1>5 DEF MemoryNext, MemoryStep

LEMMA InitiallyTyped ==
    ASSUME MemoryInit
    PROVE  MemoryTypeOK /\ Begun /\ FailuresBounded
<1>1. NoMemory \in Memory
  BY Limits DEF NoMemory, Memory
<1>2. MemoryTypeOK
  <2>1. total \in 0 .. MaxRound /\ first \in 1 .. MaxRound + 1 /\ skipped \in Nat
    BY Limits DEF MemoryInit
  <2>2. context \in [Rounds -> Memory] /\ memory \in Memory
    BY <1>1 DEF MemoryInit
  <2>3. /\ phase \in [Rounds -> {"idle", "running", "saving", "over"}]
        /\ filled \in SUBSET Positions /\ {lossy, overlap} \subseteq BOOLEAN
    BY DEF MemoryInit
  <2> QED
    BY <2>1, <2>2, <2>3 DEF MemoryTypeOK
<1>3. Begun
  BY DEF MemoryInit, Begun, Rounds
<1>4. \A i \in Rounds : ~Live(i) /\ ~Trying(i)
  BY DEF MemoryInit, Live, Trying, Running
<1> QED
  BY <1>2, <1>3, <1>4 DEF FailuresBounded

-----------------------------------------------------------------------------
(***************************************************************************)
(* The summary, its count and its watermark.                               *)
(***************************************************************************)
\* A memory speaks of the rounds up to its watermark, and counts no more.
Agrees(m) ==
    /\ m.watermark <= 2 * total
    /\ m.covered <= Half(m.watermark)
    /\ ~lossy => \A j \in Rounds : UserAt(j) <= m.watermark => UserAt(j) \in m.summary

\* So does the row, and what each running round has read of it.
AllAgree == Whole => Agrees(memory) /\ \A i \in Rounds : Running(i) => Agrees(context[i])

\* Rounds that follow one another: a round works with the memory as it is.
InTurn ==
    ~overlap => /\ \A i \in Rounds : Live(i) => i = total
                /\ \A i \in Rounds : Running(i) => context[i] = memory

\* The rounds whose memory step is over.
Past == IF \E i \in Rounds : Running(i) THEN total - 1 ELSE total

\* So many of them may wait for a merge: each failed merge lets one more pass,
\* and with the circuit open the window fills up.
Slack == IF memory.fails < MaxFailures THEN MergeRounds - 1 + memory.fails ELSE Window

Through ==
    Whole /\ ~overlap => Past - Half(memory.watermark) <= skipped + Slack

MemoryInv ==
    /\ MemoryTypeOK /\ Begun /\ FailuresBounded
    /\ AllAgree /\ InTurn /\ Through

\* After a merge the row agrees with itself, whatever other rounds wrote since this
\* one read it.
LEMMA MergedAgrees ==
    ASSUME MemoryTypeOK, Begun, NEW i \in Rounds, first = 1, Segment(i) # {}, Agrees(context[i]),
           NEW old, NEW items, Upsert(i, old, items), UNCHANGED total,
           lossy' \/ (lossy' = lossy /\ old = context[i].summary /\ items = Kept(i))
    PROVE  Agrees(memory)'
<1> DEFINE v == context[i].watermark
           w == To(i)
<1>1. /\ v \in Nat /\ context[i].covered \in Nat /\ total \in 0 .. MaxRound
  BY Parts
<1>2. /\ From(i) = v + 1 /\ w \in Nat /\ v <= w /\ w <= 2 * total /\ Segment(i) = v + 1 .. w
  BY <1>1, Segments, Limits DEF From, UserAt, AnswerAt
<1>3. memory'.watermark = w /\ memory'.covered = Covered(i) /\ memory'.summary = old \cup items
  BY Segments DEF Upsert
<1>4. memory'.covered <= Half(w)
  <2>1. Half(w) \in Nat /\ Half(v) \in Nat
    BY <1>1, <1>2, Halves
  <2>2. Covered(i) \in Nat /\ Covered(i) <= context[i].covered + (Half(w) - Half(v))
    BY Counts, Limits
  <2>3. context[i].covered <= Half(v)
    BY DEF Agrees
  <2> HIDE DEF v, w
  <2> QED
    BY <1>1, <1>3, <2>1, <2>2, <2>3
<1>5. ASSUME ~lossy', NEW j \in Rounds, UserAt(j) <= w
      PROVE  UserAt(j) \in old \cup items
  <2>1. ~lossy /\ old = context[i].summary /\ items = Kept(i)
    BY <1>5
  <2>2. CASE UserAt(j) <= v
    BY <2>1, <2>2 DEF Agrees
  <2>3. CASE ~(UserAt(j) <= v)
    <3>1. j <= total /\ UserAt(j) \in v + 1 .. w
      BY <1>1, <1>2, <1>5, <2>3 DEF UserAt, Rounds
    <3> QED
      BY <1>2, <2>1, <3>1 DEF Kept, Begun
  <2> QED
    BY <2>2, <2>3
<1> QED
  BY <1>2, <1>3, <1>4, <1>5 DEF Agrees

LEMMA AgreeStep ==
    ASSUME MemoryTypeOK, Begun, AllAgree, [MemoryNext]_memoryVars
    PROVE  AllAgree'
<1>0. total \in 0 .. MaxRound /\ first \in Nat \ {0}
  BY Parts
<1>1. CASE Begin
  <2>1. /\ total' = total + 1 /\ total + 1 \in Rounds /\ UNCHANGED <<first, memory, lossy>>
        /\ context' = [context EXCEPT ![total + 1] = memory]
        /\ phase' = [phase EXCEPT ![total + 1] = "running"]
    BY <1>0, <1>1, Limits DEF Begin, Rounds
  <2>3. memory \in Memory /\ \A i \in Rounds : context[i] \in Memory
    BY DEF MemoryTypeOK
  <2>4. ASSUME Whole PROVE Agrees(memory)' /\ \A i \in Rounds : Running(i)' => Agrees(context[i])'
    <3>1. Agrees(memory) /\ \A i \in Rounds : Running(i) => Agrees(context[i])
      BY <2>4 DEF AllAgree
    <3>2. ASSUME NEW m \in Memory, Agrees(m)
          PROVE  m.watermark <= 2 * total' /\ m.covered <= Half(m.watermark)
                 /\ (~lossy' => \A j \in Rounds : UserAt(j) <= m.watermark => UserAt(j) \in m.summary)
      BY <1>0, <2>1, <3>2 DEF Agrees, Memory
    <3>3. Agrees(memory)'
      BY <2>1, <2>3, <3>1, <3>2 DEF Agrees
    <3>4. ASSUME NEW i \in Rounds, Running(i)'
          PROVE  Agrees(context[i])'
      <4>1. CASE i = total + 1
        <5>1. context'[i] = memory
          BY <2>1, <4>1 DEF MemoryTypeOK
        <5> QED
          BY <2>3, <3>1, <3>2, <5>1 DEF Agrees
      <4>2. CASE i # total + 1
        <5>1. context'[i] = context[i] /\ Running(i)
          BY <2>1, <3>4, <4>2 DEF MemoryTypeOK, Running
        <5> QED
          BY <2>3, <3>1, <3>2, <5>1 DEF Agrees
      <4> QED
        BY <4>1, <4>2
    <3> QED
      BY <3>3, <3>4
  <2> QED
    BY <2>1, <2>4 DEF AllAgree, Whole
<1>2. CASE NewConversation
  BY <1>0, <1>2 DEF NewConversation, AllAgree, Whole
<1>3. ASSUME NEW i \in Rounds, MemoryStep(i), Whole
      PROVE  Agrees(memory)' /\ \A j \in Rounds : Running(j)' => Agrees(context[j])'
  <2>1. /\ phase[i] = "running" /\ phase' = [phase EXCEPT ![i] = "saving"]
        /\ UNCHANGED <<total, first, context>>
    BY <1>3, Stepping
  <2>2. Agrees(memory) /\ \A j \in Rounds : Running(j) => Agrees(context[j])
    BY <1>3 DEF AllAgree
  <2>3. lossy' \/ lossy' = lossy
    BY <1>3 DEF MemoryStep, Wait, Merge, MergeFails, Fallback, Skip
  <2>4. \A j \in Rounds : Running(j)' => Agrees(context[j])'
    BY <2>1, <2>2, <2>3 DEF Running, Agrees, MemoryTypeOK
  <2>5. Agrees(memory)'
    <3>1. CASE memory' = memory
      BY <2>1, <2>2, <2>3, <3>1 DEF Agrees
    <3>2. CASE MergeFails(i)
      <4>1. /\ memory'.watermark = memory.watermark /\ memory'.covered = memory.covered
            /\ memory'.summary = memory.summary
        BY <3>2 DEF MergeFails, MemoryTypeOK, Memory
      <4> QED
        BY <2>1, <2>2, <2>3, <4>1 DEF Agrees
    <3>3. CASE Merge(i)
      BY <1>3, <2>1, <2>2, <3>3, MergedAgrees DEF Merge, Due, Whole, Running
    <3>4. CASE Fallback(i)
      BY <1>3, <2>1, <2>2, <3>4, MergedAgrees DEF Fallback, Due, Whole, Running
    <3> QED
      BY <1>3, <3>1, <3>2, <3>3, <3>4 DEF MemoryStep, Wait, Skip
  <2> QED
    BY <2>4, <2>5
<1>4. ASSUME NEW i \in Rounds, Save(i)
      PROVE  AllAgree'
  BY <1>4 DEF Save, AllAgree, Whole, Running, Agrees, MemoryTypeOK
<1>5. CASE UNCHANGED memoryVars
  BY <1>5 DEF memoryVars, AllAgree, Whole, Running, Agrees
<1>6. ASSUME NEW i \in Rounds, MemoryStep(i)
      PROVE  AllAgree'
  <2>1. first' = first
    BY <1>6, Stepping
  <2> QED
    BY <1>3, <1>6, <2>1 DEF AllAgree, Whole
<1> QED
  BY <1>1, <1>2, <1>4, <1>5, <1>6 DEF MemoryNext, MemoryStep

\* Rounds that follow one another, step by step.
LEMMA TurnStep ==
    ASSUME MemoryTypeOK, Begun, InTurn, [MemoryNext]_memoryVars
    PROVE  InTurn'
<1>0. total \in 0 .. MaxRound
  BY Parts
<1>1. CASE Begin
  <2>1. ASSUME ~overlap'
        PROVE  \A i \in Rounds : ~Live(i)
    BY <1>1, <2>1 DEF Begin
  <2>2. \A i \in Rounds : ~Live(i) => ~Running(i)
    BY DEF Live, Running
  <2>3. ASSUME NEW i \in Rounds, ~Live(i), Live(i)' \/ Running(i)'
        PROVE  i = total' /\ context'[i] = memory'
    BY <1>1, <2>3 DEF Begin, MemoryTypeOK, Live, Running
  <2> QED
    BY <2>1, <2>3 DEF InTurn
<1>2. CASE NewConversation
  BY <1>2 DEF NewConversation, InTurn, Live, Running
<1>3. ASSUME NEW i \in Rounds, MemoryStep(i)
      PROVE  InTurn'
  <2>1. /\ phase[i] = "running" /\ phase' = [phase EXCEPT ![i] = "saving"]
        /\ UNCHANGED <<total, overlap, context>>
    BY <1>3, Stepping
  <2>2. \A j \in Rounds : /\ Live(j)' => Live(j)
                          /\ Running(j)' => Running(j) /\ Live(j) /\ j # i
    BY <2>1 DEF Live, Running, MemoryTypeOK
  <2>3. Live(i)
    BY <2>1 DEF Live
  <2> QED
    BY <2>1, <2>2, <2>3 DEF InTurn
<1>4. ASSUME NEW i \in Rounds, Save(i)
      PROVE  InTurn'
  <2>1. \A j \in Rounds : /\ Live(j)' => Live(j)
                          /\ Running(j)' => Running(j) /\ context'[j] = context[j]
    BY <1>4 DEF Save, Live, Running, MemoryTypeOK
  <2> QED
    BY <1>4, <2>1 DEF Save, InTurn
<1>5. CASE UNCHANGED memoryVars
  BY <1>5 DEF memoryVars, InTurn, Live, Running
<1> QED
  BY <1>1, <1>2, <1>3, <1>4, <1>5 DEF MemoryNext, MemoryStep

\* A merge takes in all there is, or more rounds than may have waited.
LEMMA MergedThrough ==
    ASSUME MemoryTypeOK, NEW i \in Rounds, first = 1, Segment(i) # {}, context[i] = memory,
           NEW old, NEW items, Upsert(i, old, items),
           total - 1 - Half(memory.watermark) <= skipped + Slack
    PROVE  total - Half(memory'.watermark) <= skipped' + Slack'
<1> DEFINE v == memory.watermark
           w == To(i)
<1>1. /\ v \in Nat /\ total \in 0 .. MaxRound /\ memory.fails \in Nat /\ skipped \in Nat
  BY Parts DEF MemoryTypeOK
<1>2. /\ From(i) = v + 1 /\ w \in Nat
      /\ w = 2 * total \/ w = v + MaxMessages
  <2>1. From(i) = v + 1
    BY <1>1 DEF From, UserAt
  <2>2. /\ w \in Nat
        /\ w = 2 * total \/ w = From(i) + MaxMessages - 1
    BY Segments DEF AnswerAt
  <2> QED
    BY <1>1, <2>1, <2>2, Limits
<1>3. /\ memory'.watermark = w
      /\ skipped' = IF w = 2 * total THEN 0 ELSE skipped
      /\ Slack' = MergeRounds - 1
  BY Segments, Limits DEF Upsert, Slack, AnswerAt
<1>4. Slack \in Nat /\ Slack <= Window
  BY <1>1, Limits DEF Slack
<1> HIDE DEF v, w, Slack
<1>5. CASE w = 2 * total
  <2>1. Half(w) = total
    <3>1. Half(w) \in Nat /\ (2 * Half(w) = w \/ 2 * Half(w) = w + 1)
      BY <1>2, Halves
    <3> QED
      BY <1>1, <1>5, <3>1
  <2> QED
    BY <1>1, <1>3, <1>5, <2>1, Limits
<1>6. CASE w # 2 * total
  <2>1. Half(v) + (Window + 1) <= Half(w) /\ Half(v) \in Nat /\ Half(w) \in Nat
    <3>1. /\ v \in Nat /\ w \in Nat /\ Window + 1 \in Nat
          /\ v + 2 * (Window + 1) <= w
      BY <1>1, <1>2, <1>6, Limits
    <3>2. Half(v) \in Nat /\ Half(w) \in Nat
      BY <3>1, Halves
    <3> QED
      BY <3>1, <3>2, HalfGrows
  <2>2. total - 1 - Half(v) <= skipped + Slack
    BY DEF v
  <2> QED
    BY <1>1, <1>3, <1>4, <1>6, <2>1, <2>2, Limits
<1> QED
  BY <1>5, <1>6

\* A round that does not merge has nothing to, or few enough wait.
LEMMA WaitedThrough ==
    ASSUME MemoryTypeOK, NEW i \in Rounds, first = 1, context[i] = memory, ~Due(i),
           Agrees(memory)
    PROVE  total - Half(memory.watermark) <= skipped + Slack
<1> DEFINE v == memory.watermark
<1>1. /\ v \in Nat /\ total \in 0 .. MaxRound /\ memory.fails \in Nat /\ skipped \in Nat
      /\ memory.covered \in Nat
  BY Parts DEF MemoryTypeOK
<1>2. Half(v) \in Nat /\ (2 * Half(v) = v \/ 2 * Half(v) = v + 1)
  BY <1>1, Halves
<1>3. Slack \in Nat
  BY <1>1, Limits DEF Slack
<1>4. CASE Segment(i) = {}
  <2>1. From(i) = v + 1 /\ AnswerAt(total) = 2 * total
    BY <1>1 DEF From, UserAt, AnswerAt
  <2>2. Segment(i) = From(i) .. To(i)
    BY DEF Segment, From, To
  <2>3. ~(v + 1 <= 2 * total)
    <3>1. ASSUME v + 1 <= 2 * total PROVE v + 1 \in From(i) .. To(i)
      BY <1>1, <2>1, <3>1, Limits DEF To
    <3> QED
      BY <1>4, <2>2, <3>1
  <2> QED
    BY <1>1, <1>2, <1>3, <2>3
<1>5. CASE Segment(i) # {}
  <2>1. Count = total /\ Progress(i) \in Nat /\ Progress(i) <= Half(v)
    BY <1>1, <1>2 DEF Count, Progress, Agrees
  <2>2. total - Progress(i) <= Window
        /\ (memory.fails < MaxFailures => total - Progress(i) < MergeRounds)
    BY <1>1, <1>5, <2>1, Limits DEF Due, CircuitOpen
  <2>3. total - Half(v) <= Slack
    BY <1>1, <1>2, <2>1, <2>2, Limits DEF Slack
  <2> QED
    BY <1>1, <1>2, <1>3, <2>3
<1> QED
  BY <1>4, <1>5

LEMMA ThroughStep ==
    ASSUME MemoryTypeOK, Begun, AllAgree, InTurn, Through, [MemoryNext]_memoryVars
    PROVE  Through'
<1>0. /\ total \in 0 .. MaxRound /\ memory.fails \in Nat /\ skipped \in Nat
      /\ first \in Nat \ {0} /\ Half(memory.watermark) \in Nat
  BY Parts, Halves DEF MemoryTypeOK
<1>1. CASE Begin
  <2> SUFFICES ASSUME Whole', ~overlap'
               PROVE  Past' - Half(memory'.watermark) <= skipped' + Slack'
    BY DEF Through
  <2>1. /\ total' = total + 1 /\ total + 1 \in Rounds /\ UNCHANGED <<first, memory, skipped>>
        /\ phase' = [phase EXCEPT ![total + 1] = "running"]
        /\ ~overlap /\ \A i \in Rounds : ~Live(i)
    <3>1. total + 1 \in Rounds
      BY <1>0, <1>1, Limits DEF Begin, Rounds
    <3>2. ~overlap /\ ~\E i \in Rounds : Live(i)
      BY <1>1 DEF Begin
    <3> QED
      BY <1>1, <3>1, <3>2 DEF Begin
  <2>2. Past = total
    BY <2>1 DEF Past, Running, Live
  <2>3. Past' = total
    <3>1. phase'[total + 1] = "running"
      BY <2>1 DEF MemoryTypeOK
    <3>2. total' - 1 = total
      BY <1>0, <2>1
    <3> QED
      BY <2>1, <3>1, <3>2 DEF Past, Running
  <2> QED
    BY <2>1, <2>2, <2>3 DEF Through, Whole, Slack
<1>2. CASE NewConversation
  BY <1>0, <1>2 DEF NewConversation, Through, Whole
<1>3. ASSUME NEW i \in Rounds, MemoryStep(i)
      PROVE  Through'
  <2> SUFFICES ASSUME Whole', ~overlap'
               PROVE  Past' - Half(memory'.watermark) <= skipped' + Slack'
    BY DEF Through
  <2>1. /\ phase[i] = "running" /\ phase' = [phase EXCEPT ![i] = "saving"]
        /\ UNCHANGED <<total, first, context, overlap>> /\ first = 1 /\ ~overlap
    BY <1>3, Stepping DEF Whole
  <2>2. context[i] = memory /\ i = total /\ \A j \in Rounds : Running(j) => j = i
    BY <2>1 DEF InTurn, Running, Live
  <2>3. Past = total - 1 /\ Past' = total
    BY <2>1, <2>2 DEF Past, Running, MemoryTypeOK
  <2>4. total - 1 - Half(memory.watermark) <= skipped + Slack
    BY <2>1, <2>3 DEF Through, Whole
  <2>5. Agrees(memory)
    BY <2>1 DEF AllAgree, Whole
  <2>6. CASE Wait(i)
    <3>1. UNCHANGED <<memory, skipped>> /\ ~Due(i)
      BY <2>6 DEF Wait
    <3> QED
      BY <2>1, <2>2, <2>3, <2>5, <3>1, WaitedThrough DEF Slack
  <2>7. CASE Merge(i)
    BY <2>1, <2>2, <2>3, <2>4, <2>7, MergedThrough DEF Merge, Due
  <2>8. CASE Fallback(i)
    BY <2>1, <2>2, <2>3, <2>4, <2>8, MergedThrough DEF Fallback, Due
  <2>9. CASE MergeFails(i)
    <3>1. /\ memory'.watermark = memory.watermark /\ memory'.fails = memory.fails + 1
          /\ skipped' = skipped
      BY <2>9 DEF MergeFails, MemoryTypeOK, Memory
    <3>2. memory.fails < MaxFailures
      BY <1>0, <2>2, <2>9, Limits DEF MergeFails, CircuitOpen
    <3>3. Slack = MergeRounds - 1 + memory.fails
      BY <3>2 DEF Slack
    <3>4. Slack' >= Slack + 1 /\ Slack' \in Nat /\ Slack \in Nat
      BY <1>0, <3>1, <3>2, <3>3, Limits DEF Slack
    <3> QED
      BY <1>0, <2>3, <2>4, <3>1, <3>4
  <2>10. CASE Skip(i)
    <3>1. UNCHANGED memory /\ skipped' = skipped + 1
      BY <2>10 DEF Skip
    <3>2. Slack \in Nat /\ Slack' = Slack
      BY <1>0, <3>1, Limits DEF Slack
    <3> QED
      BY <1>0, <2>3, <2>4, <3>1, <3>2
  <2> QED
    BY <1>3, <2>6, <2>7, <2>8, <2>9, <2>10 DEF MemoryStep
<1>4. ASSUME NEW i \in Rounds, Save(i)
      PROVE  Through'
  <2>1. \A j \in Rounds : Running(j)' <=> Running(j)
    BY <1>4 DEF Save, Running, MemoryTypeOK
  <2> QED
    BY <1>4, <2>1 DEF Save, Through, Whole, Past, Slack
<1>5. CASE UNCHANGED memoryVars
  BY <1>5 DEF memoryVars, Through, Whole, Past, Slack, Running
<1> QED
  BY <1>1, <1>2, <1>3, <1>4, <1>5 DEF MemoryNext, MemoryStep

-----------------------------------------------------------------------------
\* No conversation has a memory at first.
LEMMA MemoryStarts == MemoryInit => MemoryInv
<1> SUFFICES ASSUME MemoryInit PROVE MemoryInv
  OBVIOUS
<1>1. MemoryTypeOK /\ Begun /\ FailuresBounded
  BY InitiallyTyped
<1>2. \A i \in Rounds : ~Live(i) /\ ~Running(i)
  BY DEF MemoryInit, Live, Running
<1>3. Half(0) = 0 /\ memory = NoMemory /\ total = 0 /\ skipped = 0
  BY DEF Half, MemoryInit
<1>4. Agrees(memory)
  BY <1>3 DEF Agrees, NoMemory, UserAt, Rounds
<1>5. Through
  BY <1>2, <1>3, Limits DEF Through, Past, Slack, NoMemory
<1> QED
  BY <1>1, <1>2, <1>4, <1>5 DEF MemoryInv, AllAgree, InTurn

\* Every part of it is kept by every step.
LEMMA MemoryKept == MemoryInv /\ [MemoryNext]_memoryVars => MemoryInv'
BY TypeStep, BegunStep, FailuresStep, AgreeStep, TurnStep, ThroughStep DEF MemoryInv

\* The invariant holds whenever rounds overlap, fail or end without a memory.
THEOREM MemoryInvariant == MemorySpec => []MemoryInv
BY MemoryStarts, MemoryKept, PTL DEF MemorySpec

\* The row of a memory keeps its type, its count of failures included, whatever two
\* overlapping rounds write into it (ai_memories, lead_agent.py).
THEOREM MemoryTypeCorrect == MemorySpec => []MemoryTypeOK
<1>1. MemoryInv => MemoryTypeOK
  BY DEF MemoryInv
<1> QED
  BY <1>1, MemoryInvariant, PTL

\* What the invariant says of the summary, of its count and of the rounds.
LEMMA MemoryTrue == ASSUME MemoryInv PROVE MemorySound
<1> USE DEF MemoryInv
<1>1. /\ total \in 0 .. MaxRound /\ memory.watermark \in 0 .. 2 * MaxRound
      /\ memory.fails \in Nat /\ memory.covered \in Nat /\ skipped \in Nat
  BY Parts DEF MemoryTypeOK
<1> DEFINE v == memory.watermark
<1>2. /\ v \in Nat /\ Half(v) \in Nat /\ (2 * Half(v) = v \/ 2 * Half(v) = v + 1)
      /\ Half(v) <= MaxRound
  BY <1>1, Halves, Limits
<1>3. SummaryMatchesWatermark
  BY DEF SummaryMatchesWatermark, AllAgree, Agrees
<1>4. HonestCount
  <2>1. Half(0) = 0
    BY DEF Half
  <2>2. {j \in Rounds : UserAt(j) <= v} = {j \in 1 .. MaxRound : 0 < UserAt(j) /\ UserAt(j) <= v}
    BY DEF Rounds, UserAt
  <2>3. Cardinality({j \in Rounds : UserAt(j) <= v}) = Half(v)
    <3>1. /\ 0 \in Nat /\ 0 <= v /\ MaxRound \in Nat
          /\ Half(v) - Half(0) = Half(v)
      BY <1>2, <2>1, Limits
    <3> HIDE DEF v
    <3>2. /\ {j \in 1 .. MaxRound : 0 < UserAt(j) /\ UserAt(j) <= v} = Half(0) + 1 .. Half(v)
          /\ Cardinality(Half(0) + 1 .. Half(v)) = Half(v) - Half(0)
      BY <1>2, <3>1, Between
    <3> QED
      BY <2>2, <3>1, <3>2
  <2> QED
    BY <2>3 DEF HonestCount, AllAgree, Agrees
<1>5. ASSUME Whole, Settled
      PROVE  Cardinality(Hole(Window)) <= skipped
  <2>1. Past = total /\ first = 1 /\ ~overlap
    BY <1>5 DEF Past, Settled, Live, Running, Whole
  <2>2. Slack <= Window /\ Slack \in Nat
    BY <1>1, Limits DEF Slack
  <2>3. total - Window - Half(v) <= skipped
    BY <1>1, <1>2, <1>5, <2>1, <2>2, Limits DEF Through
  <2>4. Hole(Window) \in SUBSET (Half(v) + 1 .. total - Window)
    <3>1. \A j \in Hole(Window) : j \in Half(v) + 1 .. total - Window
      BY <1>1, <1>2, <2>1, Limits DEF Hole, UserAt
    <3> QED
      BY <3>1
  <2>5. Half(v) + 1 \in Int /\ total - Window \in Int
    BY <1>1, <1>2, Limits
  <2> DEFINE a == Half(v) + 1
             b == total - Window
  <2>6. b + 1 - a <= skipped /\ skipped \in Nat
    BY <1>1, <1>2, <2>3, Limits
  <2> HIDE DEF a, b
  <2>7. Cardinality(a .. b) <= skipped /\ Cardinality(a .. b) \in Nat
    <3>1. a \in Int /\ b \in Int
      BY <2>5 DEF a, b
    <3>2. /\ Cardinality(a .. b) \in Nat
          /\ a <= b + 1 => Cardinality(a .. b) = b + 1 - a
          /\ a > b => Cardinality(a .. b) = 0
      BY <3>1, Intervals
    <3> QED
      BY <2>6, <3>1, <3>2
  <2>8. Cardinality(Hole(Window)) \in Nat /\ Cardinality(Hole(Window)) <= Cardinality(a .. b)
    BY <2>4, <2>5, Intervals DEF a, b
  <2> QED
    BY <2>6, <2>7, <2>8
<1> QED
  BY <1>3, <1>4, <1>5 DEF MemorySound, NoHole

\* _maybe_summarize: the summary tells of every round below its watermark, its count
\* claims no round that was not merged, and no round leaves the window of recent messages
\* unmerged but for those that ended without a memory step.
THEOREM NothingForgotten == MemorySpec => []MemorySound
<1>1. MemoryInv => MemorySound
  BY MemoryTrue
<1> QED
  BY <1>1, MemoryInvariant, PTL

-----------------------------------------------------------------------------
(***************************************************************************)
(* The suite, in which each of the three acts while the others rest.       *)
(***************************************************************************)
SuiteInv == LeadInv /\ MemoryInv /\ ContextInv

\* A step of the suite is one of the agent, of the memory or of the context.
LEMMA SuiteHolds == Spec => []SuiteInv
<1>1. Init => SuiteInv
  BY Initially, MemoryStarts, ContextStarts DEF Init, SuiteInv
<1>2. [Next]_vars => [LeadNext]_leadVars /\ [MemoryNext]_memoryVars /\ [ContextNext]_contextVars
  BY DEF Next, vars
<1>3. SuiteInv /\ [Next]_vars => SuiteInv'
  BY <1>2, LeadKept, MemoryKept, ContextStepKept DEF SuiteInv
<1> QED
  BY <1>1, <1>3, PTL DEF Spec

\* Whichever of them acts, lead_agent's turn, its session's memory and what the
\* model is shown keep their types and limits.
THEOREM TypeCorrect == Spec => []TypeOK
<1>1. SuiteInv => TypeOK
  BY ContextTyped DEF SuiteInv, TypeOK, LeadInv, MemoryInv
<1> QED
  BY <1>1, SuiteHolds, PTL

\* And what is claimed of each holds in the suite: the books of a round, the
\* memory that forgets no round, and the context the model is shown.
THEOREM SuiteStaysSound == Spec => [](RoundAccounted /\ MemorySound /\ ContextSound)
<1>1. LeadInv => RoundAccounted
  BY DEF LeadInv, Calls, RoundAccounted, EveryCallAnswered
<1>2. SuiteInv => RoundAccounted /\ MemorySound /\ ContextSound
  BY <1>1, MemoryTrue, ContextIsSound DEF SuiteInv
<1> QED
  BY <1>2, SuiteHolds, PTL
=============================================================================
