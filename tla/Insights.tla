------------------------------- MODULE Insights -------------------------------
(***************************************************************************)
(* Watching a data source: suggestions found by a scan and accepted or     *)
(* dismissed, rules, and the runs of a rule (services/insight_engine,      *)
(* api/v1/insights.py).  A run writes a record that says running, works    *)
(* for long, and settles record, rule and report in one transaction; it    *)
(* keeps the row of the rule it began with, and writes of it what differs  *)
(* from that.  Then what the detectors find in a series.                   *)
(***************************************************************************)
EXTENDS Integers, Sequences, SequencesExt, FiniteSets

CONSTANTS
    Rules, Suggestions,
    NoRule,
    Times,        \* times of the day
    Runners,      \* runs, and answers to a suggestion, at a time
    MaxRecords    \* bound: runs in all

ASSUME InsightAssumption == MaxRecords \in Nat /\ NoRule \notin Rules /\ "user" \notin Suggestions

VARIABLES
    rules,         \* insight_rules; an id is used once
    records,       \* insight_records, as they were made
    reports,       \* the records that have a report, by number
    notices,       \* notifications: a record and what is said of it
    suggestions,   \* insight_suggestions
    runs,          \* what each runner does
    torn,          \* ghost: rules that two overlapping runs wrote
    late,          \* ghost: rules a run wrote that had read an older schedule
    clashed        \* ghost: suggestions two answers of which overlapped

insightVars == <<rules, records, reports, notices, suggestions, runs, torn, late, clashed>>

Unused == [is |-> "unused", of |-> "user", time |-> "none", next |-> "none", ran |-> 0, status |-> "none"]
NewRule(of, time) == [Unused EXCEPT !.is = "there", !.of = of, !.time = time, !.next = time]
NoRun == [at |-> "idle"]

InsightInit ==
    /\ rules = [r \in Rules |-> Unused] /\ records = <<>> /\ reports = {} /\ notices = {}
    /\ suggestions = [s \in Suggestions |-> [status |-> "absent", rule |-> NoRule]]
    /\ runs = [k \in Runners |-> NoRun]
    /\ torn = {} /\ late = {} /\ clashed = {}

-----------------------------------------------------------------------------
(* Rules. *)

CreateRule(r, time) ==
    /\ rules[r].is = "unused"
    /\ rules' = [rules EXCEPT ![r] = NewRule("user", time)]
    /\ UNCHANGED <<records, reports, notices, suggestions, runs, torn, late, clashed>>

\* PATCH: a new time moves the next run.
Reschedule_later(r, time) ==
    /\ rules[r].is = "there"
    /\ rules' = [rules EXCEPT ![r].time = time]
    /\ UNCHANGED <<records, reports, notices, suggestions, runs, torn, late, clashed>>
Reschedule(r, time) ==
    /\ rules[r].is = "there"
    /\ rules' = [rules EXCEPT ![r].time = time, ![r].next = time]
    /\ UNCHANGED <<records, reports, notices, suggestions, runs, torn, late, clashed>>

\* The records go with the rule, and the suggestion it came from names it no longer.
DeleteRule(r) ==
    /\ rules[r].is = "there" /\ rules' = [rules EXCEPT ![r].is = "deleted"]
    /\ records' = [n \in DOMAIN records |->
                     IF records[n].rule = r THEN [records[n] EXCEPT !.status = "gone"] ELSE records[n]]
    /\ suggestions' = [s \in Suggestions |->
                         IF suggestions[s].rule = r THEN [suggestions[s] EXCEPT !.rule = NoRule]
                         ELSE suggestions[s]]
    /\ UNCHANGED <<reports, notices, runs, torn, late, clashed>>

NewRecord(r, status) ==
    /\ Len(records) < MaxRecords /\ rules[r].is = "there"
    /\ records' = Append(records, [rule |-> r, status |-> status])
\* POST /rules/{id}/run: a record, which no run takes up.
RunNow(r) ==
    /\ NewRecord(r, "pending")
    /\ UNCHANGED <<rules, reports, notices, suggestions, runs, torn, late, clashed>>

-----------------------------------------------------------------------------
(* InsightRunner.run *)

AtWork(r) == {k \in Runners : runs[k].at = "working" /\ runs[k].rule = r}
Begin(k, r) ==
    /\ runs[k].at = "idle" /\ NewRecord(r, "running")
    /\ runs' = [j \in Runners |->
                  IF j = k THEN [at |-> "working", rule |-> r, record |-> Len(records) + 1,
                                 read |-> rules[r], alone |-> AtWork(r) = {}]
                  ELSE IF j \in AtWork(r) THEN [runs[j] EXCEPT !.alone = FALSE] ELSE runs[j]]
    /\ UNCHANGED <<rules, reports, notices, suggestions, torn, late, clashed>>

\* The time of the next run may come out as the one that was read, and is then not
\* written.
NextRun(read, moved) == IF moved \/ read.next # read.time THEN [of |-> read.time] ELSE [of |-> "none"]
Settle_statusOnly(k, status) ==
    LET run == runs[k]
        r == run.rule
    IN /\ run.at = "working" /\ records[run.record].status # "gone"
       /\ records' = [records EXCEPT ![run.record].status = status]
       /\ rules' = [rules EXCEPT ![r].ran = run.record]
       /\ torn' = IF run.alone THEN torn \ {r} ELSE torn \cup {r}
       /\ late' = IF run.read.time # rules[r].time THEN late \cup {r} ELSE late
       /\ runs' = [runs EXCEPT ![k] = [at |-> "telling", record |-> run.record, status |-> status]]
       /\ UNCHANGED <<notices, suggestions, clashed>>
Settle(k, status) ==
    LET run == runs[k]
        r == run.rule
    IN /\ run.at = "working" /\ records[run.record].status # "gone"
       /\ records' = [records EXCEPT ![run.record].status = status]
       /\ \E moved \in BOOLEAN :
             rules' = [rules EXCEPT ![r].ran = run.record,
                         ![r].status = IF status = run.read.status THEN @ ELSE status,
                         ![r].next = IF NextRun(run.read, moved).of = "none" THEN @ ELSE run.read.time]
       /\ torn' = IF run.alone THEN torn \ {r} ELSE torn \cup {r}
       /\ late' = IF run.read.time # rules[r].time THEN late \cup {r} ELSE late
       /\ runs' = [runs EXCEPT ![k] = [at |-> "telling", record |-> run.record, status |-> status]]
       /\ UNCHANGED <<notices, suggestions, clashed>>

\* The report is flushed and committed with the record and the rule.
Succeed(k) == Settle(k, "success") /\ reports' = reports \cup {runs[k].record}
\* The source is gone, of the wrong kind or unreachable, the query fails or has no
\* rows, or the detection fails.
RunFails(k) == Settle(k, "failed") /\ UNCHANGED reports

\* The database refuses what the run flushes, a record that is gone among it, and with
\* that the session refuses to note the failure; or the process dies.
Break(k) ==
    /\ runs[k].at = "working" /\ runs' = [runs EXCEPT ![k] = [at |-> "broken", record |-> runs[k].record]]
    /\ UNCHANGED <<rules, records, reports, notices, suggestions, torn, late, clashed>>

\* The notification has a transaction of its own; without it the run is what it is.
TellRun_guessed(k) ==
    /\ runs[k].at = "telling" /\ runs' = [runs EXCEPT ![k] = NoRun]
    /\ notices' = notices \cup {<<runs[k].record, "success">>}
    /\ UNCHANGED <<rules, records, reports, suggestions, torn, late, clashed>>
TellRun(k) ==
    /\ runs[k].at = "telling" /\ runs' = [runs EXCEPT ![k] = NoRun]
    /\ notices' = notices \cup {<<runs[k].record, runs[k].status>>}
    /\ UNCHANGED <<rules, records, reports, suggestions, torn, late, clashed>>
NoticeFails(k) ==
    /\ runs[k].at = "telling" /\ runs' = [runs EXCEPT ![k] = NoRun]
    /\ UNCHANGED <<rules, records, reports, notices, suggestions, torn, late, clashed>>

-----------------------------------------------------------------------------
(* Suggestions. *)

Scan(s) ==
    /\ suggestions[s].status = "absent"
    /\ suggestions' = [suggestions EXCEPT ![s].status = "pending"]
    /\ UNCHANGED <<rules, records, reports, notices, runs, torn, late, clashed>>

\* What was answered already is answered with a conflict.
Answerable_always(s) == suggestions[s].status # "absent"
Answerable(s) == suggestions[s].status = "pending"
Answer(c, s, act) ==
    /\ runs[c].at = "idle" /\ Answerable(s)
    /\ runs' = [runs EXCEPT ![c] = [at |-> "read", suggestion |-> s, act |-> act]]
    /\ clashed' = IF \E d \in Runners : runs[d].at = "read" /\ runs[d].suggestion = s
                  THEN clashed \cup {s} ELSE clashed
    /\ UNCHANGED <<rules, records, reports, notices, suggestions, torn, late>>

Accept(c, r, time) ==
    LET s == runs[c].suggestion IN
    /\ runs[c].at = "read" /\ runs[c].act = "accept" /\ rules[r].is = "unused"
    /\ rules' = [rules EXCEPT ![r] = NewRule(s, time)]
    /\ suggestions' = [suggestions EXCEPT ![s] = [status |-> "accepted", rule |-> r]]
    /\ runs' = [runs EXCEPT ![c] = NoRun]
    /\ UNCHANGED <<records, reports, notices, torn, late, clashed>>

Dismiss(c) ==
    /\ runs[c].at = "read" /\ runs[c].act = "dismiss"
    /\ suggestions' = [suggestions EXCEPT ![runs[c].suggestion].status = "dismissed"]
    /\ runs' = [runs EXCEPT ![c] = NoRun]
    /\ UNCHANGED <<rules, records, reports, notices, torn, late, clashed>>

InsightNext ==
    \/ \E r \in Rules :
          \/ \E time \in Times : CreateRule(r, time) \/ Reschedule(r, time)
          \/ DeleteRule(r) \/ RunNow(r) \/ \E k \in Runners : Begin(k, r)
          \/ \E c \in Runners, time \in Times : Accept(c, r, time)
    \/ \E k \in Runners : Succeed(k) \/ RunFails(k) \/ Break(k) \/ TellRun(k) \/ NoticeFails(k)
    \/ \E s \in Suggestions : Scan(s) \/ \E c \in Runners, act \in {"accept", "dismiss"} : Answer(c, s, act)
    \/ \E c \in Runners : Dismiss(c)

InsightSpec == InsightInit /\ [][InsightNext]_insightVars

-----------------------------------------------------------------------------
(* Properties. *)

Numbers == 1 .. MaxRecords
Statuses == {"pending", "running", "success", "failed", "gone"}
InsightTypeOK ==
    /\ \A r \in Rules : /\ rules[r].is \in {"unused", "there", "deleted"} /\ rules[r].ran \in 0 .. MaxRecords
                        /\ rules[r].is # "unused" => rules[r].time \in Times /\ rules[r].next \in Times
    /\ Len(records) <= MaxRecords
    /\ \A n \in DOMAIN records : records[n].status \in Statuses
    /\ reports \subseteq Numbers /\ notices \subseteq Numbers \X Statuses
    /\ \A s \in Suggestions : suggestions[s].rule \in Rules \cup {NoRule}
    /\ torn \subseteq Rules /\ late \subseteq Rules /\ clashed \subseteq Suggestions

\* What is published of a run and told of it is how its record ended: a report is there
\* for each record that says success and for no other, and a notification says what
\* the record says; only deleting the rule leaves them behind.
PublishedIsRecorded ==
    \A n \in DOMAIN records :
        /\ records[n].status = "success" => n \in reports
        /\ n \in reports => records[n].status \in {"success", "gone"}
        /\ \A t \in notices : t[1] = n => records[n].status \in {t[2], "gone"}

\* A record that says running has its run at work, unless the run broke off.
RunningIsWorked ==
    \A n \in DOMAIN records :
        records[n].status = "running" =>
            \E k \in Runners : runs[k].at \in {"working", "broken"} /\ runs[k].record = n

\* What a rule says of its last run is what that run's record says, and its next run is
\* at the time the user chose: unless two runs of it overlapped, or a run that wrote
\* it had begun before the user moved the time.
RuleIsCurrent ==
    \A r \in Rules : rules[r].is = "there" =>
        /\ rules[r].ran # 0 /\ r \notin torn => rules[r].status = records[rules[r].ran].status
        /\ r \notin late => rules[r].next = rules[r].time

\* A suggestion is answered once, unless two answers overlapped: a rule comes of it if it
\* was accepted, one at most, and it names that rule while the rule is there.
AnsweredOnce ==
    \A s \in Suggestions \ clashed :
        LET made == {r \in Rules : rules[r].of = s /\ rules[r].is # "unused"}
        IN /\ Cardinality(made) <= 1
           /\ made # {} => suggestions[s].status = "accepted"
           /\ \A r \in made : rules[r].is = "there" => suggestions[s].rule = r

InsightSound == PublishedIsRecorded /\ RunningIsWorked /\ RuleIsCurrent /\ AnsweredOnce

-----------------------------------------------------------------------------
(***************************************************************************)
(* What a run finds in the series of one measure                           *)
(* (services/insight_engine/detector.py): the last point against all       *)
(* before it, against last week's, last year's and the mean of the last    *)
(* days.  Places in the series stand for days, whatever days they are of.  *)
(* Means are fractions, not floats: thresholds are met exactly.            *)
(***************************************************************************)

CONSTANTS
    Values,       \* what a point may be
    MaxPoints,    \* bound: points of the series
    Week,         \* 7: last week's point is that many before
    Year,         \* 365: the series' length from which there is a last year
    MinHistory,   \* min_history
    Window,       \* ma_window
    ZTenths,      \* z_score in tenths
    WowPercent, YoyPercent, MaPercent

ASSUME DetectAssumption ==
    /\ Week \in Nat /\ Year \in Nat \ {0} /\ MinHistory \in Nat \ {0} /\ Window \in Nat \ {0}
    /\ {ZTenths, WowPercent, YoyPercent, MaPercent} \subseteq Nat \ {0}

VARIABLE
    series        \* the points, by time

DetectInit == series \in {[i \in 1 .. MinHistory - 1 |-> v] : v \in Values}
Extend(v) == Len(series) < MaxPoints /\ series' = Append(series, v)
DetectNext == \E v \in Values : Extend(v)
DetectSpec == DetectInit /\ [][DetectNext]_series

-----------------------------------------------------------------------------
Size(x) == IF x < 0 THEN -x ELSE x
Total(s) == FoldLeft(LAMBDA a, b : a + b, 0, s)

\* _pct_change of c against sum / n, as a fraction.
Change_signed(c, sum, n) == IF sum = 0 THEN <<0, 1>> ELSE <<c * n - sum, sum>>
Change(c, sum, n) == IF sum = 0 THEN <<0, 1>> ELSE <<c * n - sum, Size(sum)>>
Exceeds(change, percent) == 100 * Size(change[1]) >= percent * change[2]

\* _severity_from_deviation, from whether twice the threshold and the threshold are met.
Severity(twice, once) == IF twice THEN "critical" ELSE IF once THEN "warning" ELSE "info"
Anomaly(type, c, sum, n, severity) ==
    [type |-> type, severity |-> severity, deviation |-> Change(c, sum, n)[1],
     direction |-> IF c * n > sum THEN "up" ELSE "down", expected |-> sum]

\* Against the mean and the deviation of all points before the last.
ZScore(s) ==
    LET history == Front(s)
        n == Len(history)
        sum == Total(history)
        gap == n * Last(s) - sum
        spread == n * Total([i \in 1 .. n |-> history[i] * history[i]]) - sum * sum
        far(k) == 100 * gap * gap * (n - 1) >= k * k * ZTenths * ZTenths * n * spread
    IN IF Len(s) >= MinHistory + 1 /\ spread # 0 /\ far(1)
       THEN {Anomaly("z_score", Last(s), sum, n, Severity(far(2), far(1)))} ELSE {}

\* Against one earlier point or the mean of several.
Against(type, c, sum, n, percent) ==
    LET change == Change(c, sum, n) IN
    IF Exceeds(change, percent)
    THEN {Anomaly(type, c, sum, n, Severity(Exceeds(change, 2 * percent), Exceeds(change, percent)))}
    ELSE {}
WeekOnWeek(s) ==
    IF Len(s) < Week + 1 THEN {} ELSE Against("wow", Last(s), s[Len(s) - Week], 1, WowPercent)
YearOnYear(s) ==
    IF Len(s) < Year THEN {} ELSE Against("yoy", Last(s), s[Len(s) - Year + 1], 1, YoyPercent)
MovingAverage_current(s) ==
    LET sum == Total(SubSeq(s, Len(s) - Window + 1, Len(s))) IN
    IF Len(s) < Window + 1 \/ sum = 0 THEN {}
    ELSE Against("moving_average", Last(s), sum, Window, MaPercent)
MovingAverage(s) ==
    LET sum == Total(SubSeq(s, Len(s) - Window, Len(s) - 1)) IN
    IF Len(s) < Window + 1 \/ sum = 0 THEN {}
    ELSE Against("moving_average", Last(s), sum, Window, MaPercent)

\* detect_anomalies
Found(s) ==
    IF Len(s) < MinHistory THEN {}
    ELSE ZScore(s) \cup WeekOnWeek(s) \cup YearOnYear(s) \cup MovingAverage(s)

-----------------------------------------------------------------------------
(* Properties. *)

DetectTypeOK == series \in Seq(Values) /\ Len(series) <= MaxPoints

Kinds(s) == {[type |-> a.type, severity |-> a.severity, direction |-> a.direction] : a \in Found(s)}
Multiple(k, s) == [i \in DOMAIN s |-> k * s[i]]

\* Losses are watched as gains are: a series and its mirror image show the same
\* anomalies, up for down.
Mirrored ==
    Kinds(Multiple(-1, series)) = {[a EXCEPT !.direction = IF @ = "up" THEN "down" ELSE "up"] : a \in Kinds(series)}

\* The unit of the measure does not matter.
Scaled == Kinds(Multiple(3, series)) = Kinds(series)

\* What is told of an anomaly fits: it is never as mild as no anomaly, and the sign of
\* its deviation is its direction, unless what was expected is nothing.
AnomaliesFit ==
    \A a \in Found(series) :
        /\ a.severity # "info"
        /\ a.expected # 0 => (a.direction = "up" <=> a.deviation > 0)

\* A last point that lies further out shows what a nearer one shows, at least as severe.
FurtherIsWorse ==
    \A a \in Found(series), v \in Values :
        (IF a.direction = "up" THEN v > Last(series) ELSE v < Last(series)) =>
            \E b \in Found(Append(Front(series), v)) :
                /\ b.type = a.type /\ b.direction = a.direction
                /\ a.severity = "critical" => b.severity = "critical"

\* Where nothing changes nothing is found.
SteadyIsQuiet == (\A i \in DOMAIN series : series[i] = Last(series)) => Found(series) = {}

DetectSound == Mirrored /\ Scaled /\ AnomaliesFit /\ FurtherIsWorse /\ SteadyIsQuiet

=============================================================================
