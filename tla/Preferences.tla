------------------------------ MODULE Preferences ------------------------------
(***************************************************************************)
(* What is remembered of a user's liking (services/user_preference_        *)
(* service.py and its repository): a preference is set in two steps, it is *)
(* looked for and then written, it gains strength with every time it is    *)
(* told, and fades when it is not.  The strengths are percents.            *)
(***************************************************************************)
EXTENDS Integers, Sequences, SequencesExt, FiniteSets

CONSTANTS
    Likings,     \* the keys of one type of preference
    Memos,       \* rows of the table
    NoMemo,
    Setters,     \* requests
    InitialStrength, StrengthStep,  \* the strength of a first hint, and what a further one adds
    Full, Faint, \* the most and the least
    DecayDays,   \* a preference fades when it was not used for longer
    Keeps,       \* how much of the strength a number of decays leaves: 0.95^n in the code
    TopLimit,    \* how many of a type are told: the code tells 3
    MaxToday,    \* bound on the days that pass
    MaxTold      \* bound on what is told of a key

ASSUME PreferenceAssumption ==
    /\ {InitialStrength, StrengthStep, Full, Faint} \subseteq Nat
    /\ {DecayDays, MaxToday, MaxTold, TopLimit} \subseteq Nat
    /\ 0 < Faint /\ Faint <= InitialStrength /\ InitialStrength <= Full /\ 0 < DecayDays
    /\ Keeps \in [0 .. MaxToday -> 0 .. 100]
    /\ NoMemo \notin Memos /\ "none" \notin Likings

VARIABLES
    memo,        \* row -> its key, strength, evidence and the day it was last used
    setter,      \* request -> what it is about and what it read
    today,
    tellings         \* key -> how often the liking was told and written

preferenceVars == <<memo, setter, today, tellings>>

NoLiking == [key |-> "none", strength |-> 0, evidence |-> 0, used |-> 0]
Idle == [at |-> "idle"]

\* The rows of a key: nothing in the table keeps them from being several.
RowsOf(k) == {p \in Memos : memo[p].key = k}
Remembered == {p \in Memos : memo[p].key \in Likings}

PreferenceInit ==
    /\ memo = [p \in Memos |-> NoLiking] /\ setter = [r \in Setters |-> Idle]
    /\ today = 0 /\ tellings = [k \in Likings |-> 0]

PassDay == today < MaxToday /\ today' = today + 1 /\ UNCHANGED <<memo, setter, tellings>>

-----------------------------------------------------------------------------
(* Setting: the row is read, and written when the request commits. *)

\* Two rows of a key are one too many for scalar_one_or_none: the call raises.
LookUp(r, k, explicit) ==
    /\ setter[r] = Idle /\ tellings[k] < MaxTold /\ ~\E p, q \in RowsOf(k) : p # q
    /\ \E p \in RowsOf(k) \cup {NoMemo} :
          /\ RowsOf(k) # {} => p \in RowsOf(k)
          /\ setter' = [setter EXCEPT ![r] =
                [at |-> "found", key |-> k, row |-> p, explicit |-> explicit,
                 read |-> IF p = NoMemo THEN NoLiking ELSE memo[p]]]
    /\ UNCHANGED <<memo, today, tellings>>

\* Mutation: nothing bounds the strength.
Stronger_unbounded(s) == s + StrengthStep
Stronger(s) == IF s + StrengthStep < Full THEN s + StrengthStep ELSE Full

\* The UPDATE carries the columns that changed, as they follow from what was read.
Strengthened(now, read, new) == IF new = read THEN now ELSE new
Update(r) ==
    LET s == setter[r]
        new == IF s.explicit THEN Full ELSE Stronger(s.read.strength)
    IN  /\ s.at = "found" /\ s.row # NoMemo
        /\ memo' = [memo EXCEPT ![s.row] =
              [key |-> s.key, strength |-> Strengthened(@.strength, s.read.strength, new),
               evidence |-> s.read.evidence + 1, used |-> today]]
        /\ setter' = [setter EXCEPT ![r] = Idle]
        /\ tellings' = [tellings EXCEPT ![s.key] = @ + 1]
        /\ UNCHANGED today

Create(r) ==
    LET s == setter[r]
    IN  /\ s.at = "found" /\ s.row = NoMemo
        /\ \E p \in Memos \ Remembered : memo' = [memo EXCEPT ![p] =
              [key |-> s.key, strength |-> IF s.explicit THEN Full ELSE InitialStrength,
               evidence |-> 1, used |-> today]]
        /\ setter' = [setter EXCEPT ![r] = Idle]
        /\ tellings' = [tellings EXCEPT ![s.key] = @ + 1]
        /\ UNCHANGED today

-----------------------------------------------------------------------------
(* Fading.  To be written is to be used: the days are counted anew. *)

DaysSince(row, now) == now - row.used
Decayed(row, now) == (row.strength * Keeps[DaysSince(row, now) \div DecayDays]) \div 100
\* Mutation: what became too faint is written as well.
Fades_tooFaint(row, now) == row.key \in Likings /\ DaysSince(row, now) > DecayDays
Fades(row, now) ==
    row.key \in Likings /\ DaysSince(row, now) > DecayDays /\ Decayed(row, now) >= Faint

DecayReads(r) ==
    /\ setter[r] = Idle /\ \E p \in Memos : Fades(memo[p], today)
    /\ setter' = [setter EXCEPT ![r] = [at |-> "fading", now |-> today, read |-> memo]]
    /\ UNCHANGED <<memo, today, tellings>>

\* What became too faint is to be deleted, and stays as it was: the session's delete is
\* a coroutine that nobody awaits.  The same holds of delete_preference, which changes
\* nothing and says that it did.
ApplyDecay(r) ==
    LET s == setter[r]
    IN  /\ s.at = "fading"
        /\ memo' = [p \in Memos |-> IF ~Fades(s.read[p], s.now) THEN memo[p] ELSE
              [memo[p] EXCEPT !.used = today,
                 !.strength = Strengthened(@, s.read[p].strength, Decayed(s.read[p], s.now))]]
        /\ setter' = [setter EXCEPT ![r] = Idle]
        /\ UNCHANGED <<today, tellings>>

PreferenceNext ==
    \/ PassDay
    \/ \E r \in Setters :
         \/ \E k \in Likings, explicit \in BOOLEAN : LookUp(r, k, explicit)
         \/ Update(r) \/ Create(r) \/ DecayReads(r) \/ ApplyDecay(r)
PreferenceSpec == PreferenceInit /\ [][PreferenceNext]_preferenceVars

-----------------------------------------------------------------------------
(* What a prompt is told: the strongest first, no more than the limit. *)

ByStrength == SetToSortSeq(Remembered, LAMBDA p, q : memo[p].strength > memo[q].strength)
\* Mutation: the faintest are told.
TopPreferences_faintest ==
    LET some == Reverse(ByStrength) IN SubSeq(some, 1, IF Len(some) < TopLimit THEN Len(some) ELSE TopLimit)
TopPreferences ==
    SubSeq(ByStrength, 1, IF Len(ByStrength) < TopLimit THEN Len(ByStrength) ELSE TopLimit)

-----------------------------------------------------------------------------
MemoRow == [key : Likings \cup {"none"}, strength : 0 .. Full, evidence : Nat, used : 0 .. today]
FoundMemo == [at : {"found"}, key : Likings, row : Memos \cup {NoMemo}, explicit : BOOLEAN, read : MemoRow]
FadingMemos == [at : {"fading"}, now : 0 .. today, read : [Memos -> MemoRow]]
PreferenceTypeOK ==
    /\ memo \in [Memos -> MemoRow] /\ today \in 0 .. MaxToday /\ tellings \in [Likings -> Nat]
    /\ setter \in [Setters -> {Idle} \cup FoundMemo \cup FadingMemos]

\* However sets and decays overlap, a preference is never stronger than full nor fainter
\* than the least (strength gains and decays in set_preference and apply_decay), it never
\* claims more evidence than it was told, and what was told once is never forgotten.
PreferencesSound ==
    /\ \A p \in Remembered :
         /\ Faint <= memo[p].strength /\ memo[p].strength <= Full
         /\ 1 <= memo[p].evidence /\ memo[p].evidence <= tellings[memo[p].key]
    /\ \A k \in Likings : tellings[k] > 0 => RowsOf(k) # {}

\* The strongest are told, and no more of them than the limit (get_top_preferences).
TopTrue ==
    \A p \in Remembered \ Range(TopPreferences) :
        /\ Len(TopPreferences) = TopLimit
        /\ \A q \in Range(TopPreferences) : memo[q].strength >= memo[p].strength

=============================================================================
