------------------------ MODULE ContextWindow_proofs ------------------------
(***************************************************************************)
(* What is proved of ContextWindow for any talk, lengths and limits: the   *)
(* types, and that the window is recent, the newest turn is seen, a step's *)
(* messages only extend those of the step before, and every call stands    *)
(* with its result.                                                        *)
(***************************************************************************)
EXTENDS ContextWindow, SequenceTheorems, FiniteSetTheorems, WellFoundedInduction, TLAPS

-----------------------------------------------------------------------------
(***************************************************************************)
(* Sequences and sums.                                                     *)
(***************************************************************************)
\* A sequence's entries are its own.
LEMMA Entries ==
    ASSUME NEW S, NEW s \in Seq(S)
    PROVE  /\ Len(s) \in Nat /\ DOMAIN s = 1 .. Len(s)
           /\ \A i \in 1 .. Len(s) : s[i] \in S
BY LenProperties, ElementOfSeq

\* A sequence with one entry more.
LEMMA Extended ==
    ASSUME NEW S, NEW s \in Seq(S), NEW p \in S
    PROVE  /\ Append(s, p) \in Seq(S) /\ Len(Append(s, p)) = Len(s) + 1
           /\ \A i \in 1 .. Len(s) : Append(s, p)[i] = s[i]
           /\ Append(s, p)[Len(s) + 1] = p
BY AppendProperties

\* A part of a sequence, entry by entry.
LEMMA Slice ==
    ASSUME NEW S, NEW s \in Seq(S), NEW m \in 1 .. Len(s) + 1, NEW n \in m - 1 .. Len(s)
    PROVE  /\ SubSeq(s, m, n) \in Seq(S) /\ Len(SubSeq(s, m, n)) = n - m + 1
           /\ \A i \in 1 .. n - m + 1 : SubSeq(s, m, n)[i] = s[m + i - 1]
<1>1. Len(s) \in Nat /\ \A i \in 1 .. Len(s) : s[i] \in S
  BY Entries
<1>2. m \in Int /\ n \in Int /\ \A i \in m .. n : s[i] \in S
  BY <1>1
<1>3. Len(SubSeq(s, m, n)) = n - m + 1
  BY <1>1, <1>2, SubSeqProperties
<1> QED
  BY <1>1, <1>2, <1>3, SubSeqProperties

\* LastN, entry by entry: it ends as the whole does.
LEMMA Newest ==
    ASSUME NEW S, NEW s \in Seq(S), NEW n \in Nat
    PROVE  /\ LastN(s, n) \in Seq(S) /\ Len(LastN(s, n)) = IF Len(s) > n THEN n ELSE Len(s)
           /\ \A i \in 1 .. Len(LastN(s, n)) : LastN(s, n)[i] = s[Len(s) - Len(LastN(s, n)) + i]
           /\ Len(s) > 0 /\ n > 0 => LastN(s, n) # <<>> /\ Last(LastN(s, n)) = Last(s)
<1>1. Len(s) \in Nat
  BY Entries
<1> DEFINE m == IF Len(s) > n THEN Len(s) - n + 1 ELSE 1
           kept == IF Len(s) > n THEN n ELSE Len(s)
<1>2. /\ m \in 1 .. Len(s) + 1 /\ Len(s) \in m - 1 .. Len(s)
      /\ Len(s) - m + 1 = kept /\ kept \in Nat /\ m - 1 = Len(s) - kept
  BY <1>1
<1>3. LastN(s, n) = SubSeq(s, m, Len(s))
  BY DEF LastN
<1> HIDE DEF m, kept
<1>4. /\ LastN(s, n) \in Seq(S) /\ Len(LastN(s, n)) = kept
      /\ \A i \in 1 .. kept : LastN(s, n)[i] = s[m + i - 1]
  <2>1. /\ SubSeq(s, m, Len(s)) \in Seq(S) /\ Len(SubSeq(s, m, Len(s))) = Len(s) - m + 1
        /\ \A i \in 1 .. Len(s) - m + 1 : SubSeq(s, m, Len(s))[i] = s[m + i - 1]
    BY <1>2, Slice
  <2> QED
    BY <1>2, <1>3, <2>1
<1>5. \A i \in 1 .. kept : m + i - 1 = Len(s) - kept + i
  BY <1>1, <1>2
<1>6. Len(s) > 0 /\ n > 0 => LastN(s, n) # <<>> /\ Last(LastN(s, n)) = Last(s)
  <2> SUFFICES ASSUME Len(s) > 0, n > 0 PROVE LastN(s, n) # <<>> /\ Last(LastN(s, n)) = Last(s)
    OBVIOUS
  <2>1. kept \in 1 .. kept /\ Len(s) - kept + kept = Len(s)
    BY <1>1 DEF kept
  <2>2. LastN(s, n)[kept] = s[Len(s)]
    BY <1>4, <1>5, <2>1
  <2>3. LastN(s, n) # <<>>
    BY <1>4, <2>1, EmptySeq
  <2> QED
    BY <1>4, <2>2, <2>3 DEF Last
<1> QED
  BY <1>4, <1>5, <1>6 DEF kept

\* FirstN of what is short enough is all of it.
LEMMA KeptWhole ==
    ASSUME NEW S, NEW s \in Seq(S), NEW n \in Nat, Len(s) <= n
    PROVE  FirstN(s, n) = s
<1>1. Len(s) \in Nat
  BY Entries
<1>2. FirstN(s, n) = SubSeq(s, 1, Len(s))
  BY <1>1 DEF FirstN
<1>3. /\ SubSeq(s, 1, Len(s)) \in Seq(S) /\ Len(SubSeq(s, 1, Len(s))) = Len(s)
      /\ \A i \in 1 .. Len(s) : SubSeq(s, 1, Len(s))[i] = s[i]
  <2>1. 1 \in 1 .. Len(s) + 1 /\ Len(s) \in 1 - 1 .. Len(s)
    BY <1>1
  <2>2. /\ SubSeq(s, 1, Len(s)) \in Seq(S) /\ Len(SubSeq(s, 1, Len(s))) = Len(s) - 1 + 1
        /\ \A i \in 1 .. Len(s) - 1 + 1 : SubSeq(s, 1, Len(s))[i] = s[1 + i - 1]
    BY <2>1, Slice
  <2>3. Len(s) - 1 + 1 = Len(s) /\ \A i \in 1 .. Len(s) : 1 + i - 1 = i
    BY <1>1
  <2> QED
    BY <2>2, <2>3
<1> QED
  BY <1>2, <1>3, SeqEqual

\* Induction, by the least counterexample.
LEMMA Leasts ==
    ASSUME NEW T \in SUBSET Nat, T # {}
    PROVE  Least(T) \in T /\ \A k \in T : Least(T) <= k
<1>1. PICK m \in T : \A k \in T : <<k, m>> \notin OpToRel(<, Nat)
  BY WFMin, NatLessThanWellFounded, Zenon
<1>2. \A k \in T : ~(k < m)
  BY <1>1, Zenon DEF OpToRel
<1>3. \E k \in T : \A j \in T : k <= j
  BY <1>2
<1> QED
  BY <1>3, Zenon DEF Least

\* The greatest of some numbers up to n.
LEMMA Largests ==
    ASSUME NEW n \in Nat, NEW T \in SUBSET (1 .. n), T # {}
    PROVE  Largest(T) \in T /\ \A k \in T : k <= Largest(T)
<1> DEFINE U == {n - k : k \in T}
<1>1. U \in SUBSET Nat /\ U # {}
  <2>1. \A k \in T : n - k \in Nat
    OBVIOUS
  <2> QED
    BY <2>1
<1>2. Least(U) \in U /\ \A k \in U : Least(U) <= k
  BY <1>1, Leasts
<1>3. PICK m \in T : Least(U) = n - m
  BY <1>2
<1>4. \A k \in T : n - k \in U /\ n - m <= n - k
  BY <1>2, <1>3
<1>5. \A k \in T : k <= m
  BY <1>4
<1>6. \E k \in T : \A j \in T : j <= k
  BY <1>3, <1>5
<1> QED
  BY <1>6, Zenon DEF Largest

-----------------------------------------------------------------------------
(***************************************************************************)
(* The recursive functions define what they say.                           *)
(***************************************************************************)
\* The recursion of Characters, of Said and of NoteLines, as a function that
\* exists: each is defined by a CHOOSE over the functions that fulfil it.
LEMMA CharactersSteps ==
    ASSUME NEW s \in Seq(Int)
    PROVE  \E L : /\ Characters(s) = L[Len(s)] /\ L[0] = 0
                  /\ \A n \in 1 .. Len(s) : L[n] = L[n - 1] + s[n]
<1> DEFINE UpTo(f, m) == f = [n \in 0 .. m |-> IF n = 0 THEN 0 ELSE f[n - 1] + s[n]]
           Bad == {m \in Nat : ~ \E f : UpTo(f, m)}
<1>1. ASSUME Bad # {} PROVE FALSE
  <2>1. PICK m \in Bad : \A k \in Bad : m <= k
    BY <1>1, Leasts
  <2>2. CASE m = 0
    <3> DEFINE f == [n \in 0 .. 0 |-> 0]
    <3>1. UpTo(f, 0)
      OBVIOUS
    <3> QED
      BY <2>1, <2>2, <3>1
  <2>3. CASE m # 0
    <3>1. m - 1 \in Nat /\ m - 1 \notin Bad
      <4>1. m \in Nat
        BY <2>1
      <4> HIDE DEF Bad
      <4> QED
        BY <2>1, <2>3, <4>1
    <3>2. PICK f : UpTo(f, m - 1)
      BY <3>1
    <3> DEFINE g == [n \in 0 .. m |-> IF n = m THEN f[m - 1] + s[m] ELSE f[n]]
    <3>3. UpTo(g, m)
      <4>1. \A n \in 0 .. m - 1 : f[n] = IF n = 0 THEN 0 ELSE f[n - 1] + s[n]
        BY <3>2
      <4>2. \A n \in 0 .. m : g[n] = IF n = 0 THEN 0 ELSE g[n - 1] + s[n]
        BY <2>1, <2>3, <4>1
      <4> QED
        BY <4>2
    <3> QED
      BY <2>1, <3>3
  <2> QED
    BY <2>2, <2>3
<1>2. Len(s) \in Nat
  BY Entries
<1>3. \E f : UpTo(f, Len(s))
  BY <1>1, <1>2
<1> DEFINE L == CHOOSE f : UpTo(f, Len(s))
<1>4. UpTo(L, Len(s))
  BY <1>3, Zenon
<1>5. Characters(s) = L[Len(s)]
  BY Zenon DEF Characters
<1> HIDE DEF L
<1>6. \A n \in 0 .. Len(s) : L[n] = IF n = 0 THEN 0 ELSE L[n - 1] + s[n]
  BY <1>4
<1>7. L[0] = 0
  BY <1>2, <1>6
<1>8. \A n \in 1 .. Len(s) : L[n] = L[n - 1] + s[n]
  BY <1>2, <1>6
<1> QED
  BY <1>5, <1>7, <1>8

LEMMA SaidSteps ==
    ASSUME NEW S, NEW s \in Seq(S), NEW own
    PROVE  \E L : /\ Said(s, own) = L[Len(s)] /\ L[0] = <<>>
                  /\ \A n \in 1 .. Len(s) :
                        L[n] = IF s[n].at = own \/ (s[n].role = "assistant" /\ s[n].len = 0)
                               THEN L[n - 1] ELSE Append(L[n - 1], s[n])
<1> DEFINE Gone(n) == s[n].at = own \/ (s[n].role = "assistant" /\ s[n].len = 0)
           UpTo(f, m) == f = [n \in 0 .. m |-> IF n = 0 THEN <<>>
                                 ELSE IF s[n].at = own \/ (s[n].role = "assistant" /\ s[n].len = 0)
                                 THEN f[n - 1] ELSE Append(f[n - 1], s[n])]
           Bad == {m \in Nat : ~ \E f : UpTo(f, m)}
<1>1. ASSUME Bad # {} PROVE FALSE
  <2>1. PICK m \in Bad : \A k \in Bad : m <= k
    BY <1>1, Leasts
  <2>2. CASE m = 0
    <3> DEFINE f == [n \in 0 .. 0 |-> <<>>]
    <3>1. UpTo(f, 0)
      OBVIOUS
    <3> QED
      BY <2>1, <2>2, <3>1
  <2>3. CASE m # 0
    <3>1. m - 1 \in Nat /\ m - 1 \notin Bad
      <4>1. m \in Nat
        BY <2>1
      <4> HIDE DEF Bad
      <4> QED
        BY <2>1, <2>3, <4>1
    <3>2. PICK f : UpTo(f, m - 1)
      BY <3>1
    <3> DEFINE next == IF Gone(m) THEN f[m - 1] ELSE Append(f[m - 1], s[m])
               g == [n \in 0 .. m |-> IF n = m THEN next ELSE f[n]]
    <3>3. UpTo(g, m)
      <4>1. \A n \in 0 .. m - 1 :
               f[n] = IF n = 0 THEN <<>> ELSE IF Gone(n) THEN f[n - 1] ELSE Append(f[n - 1], s[n])
        BY <3>2
      <4>2. \A n \in 0 .. m :
               g[n] = IF n = 0 THEN <<>> ELSE IF Gone(n) THEN g[n - 1] ELSE Append(g[n - 1], s[n])
        <5>1. m \in Nat /\ \A n \in 0 .. m - 1 : n \in 0 .. m /\ n # m
          BY <2>1
        <5>2. g[m] = next /\ \A n \in 0 .. m - 1 : g[n] = f[n]
          BY <5>1
        <5> HIDE DEF g, Gone
        <5>3. ASSUME NEW n \in 0 .. m - 1
              PROVE  g[n] = IF n = 0 THEN <<>> ELSE IF Gone(n) THEN g[n - 1] ELSE Append(g[n - 1], s[n])
          <6>1. n = 0 \/ n - 1 \in 0 .. m - 1
            BY <5>1
          <6> QED
            BY <4>1, <5>2, <6>1
        <5>4. m - 1 \in 0 .. m - 1
          BY <2>3, <5>1
        <5>5. \A n \in 0 .. m : n = m \/ n \in 0 .. m - 1
          BY <5>1
        <5> QED
          BY <2>3, <5>2, <5>3, <5>4, <5>5
      <4> QED
        BY <4>2
    <3> QED
      BY <2>1, <3>3
  <2> QED
    BY <2>2, <2>3
<1>2. Len(s) \in Nat
  BY Entries
<1>3. \E f : UpTo(f, Len(s))
  BY <1>1, <1>2
<1> DEFINE L == CHOOSE f : UpTo(f, Len(s))
<1>4. UpTo(L, Len(s))
  BY <1>3, Zenon
<1>5. Said(s, own) = L[Len(s)]
  BY Zenon DEF Said
<1> HIDE DEF L
<1>6. \A n \in 0 .. Len(s) :
         L[n] = IF n = 0 THEN <<>> ELSE IF Gone(n) THEN L[n - 1] ELSE Append(L[n - 1], s[n])
  BY <1>4
<1>7. L[0] = <<>>
  BY <1>2, <1>6
<1>8. \A n \in 1 .. Len(s) : L[n] = IF Gone(n) THEN L[n - 1] ELSE Append(L[n - 1], s[n])
  BY <1>2, <1>6
<1> QED
  BY <1>5, <1>7, <1>8

LEMMA NoteSteps ==
    ASSUME NEW S, NEW s \in Seq(S)
    PROVE  \E L : /\ NoteLines(s) = L[Len(s)] /\ L[0] = 0
                  /\ \A n \in 1 .. Len(s) : L[n] = Used(s[n].charts, L[n - 1])
<1> DEFINE UpTo(f, m) == f = [n \in 0 .. m |-> IF n = 0 THEN 0 ELSE Used(s[n].charts, f[n - 1])]
           Bad == {m \in Nat : ~ \E f : UpTo(f, m)}
<1>1. ASSUME Bad # {} PROVE FALSE
  <2>1. PICK m \in Bad : \A k \in Bad : m <= k
    BY <1>1, Leasts
  <2>2. CASE m = 0
    <3> DEFINE f == [n \in 0 .. 0 |-> 0]
    <3>1. UpTo(f, 0)
      OBVIOUS
    <3> QED
      BY <2>1, <2>2, <3>1
  <2>3. CASE m # 0
    <3>1. m - 1 \in Nat /\ m - 1 \notin Bad
      <4>1. m \in Nat
        BY <2>1
      <4> HIDE DEF Bad
      <4> QED
        BY <2>1, <2>3, <4>1
    <3>2. PICK f : UpTo(f, m - 1)
      BY <3>1
    <3> DEFINE g == [n \in 0 .. m |-> IF n = m THEN Used(s[m].charts, f[m - 1]) ELSE f[n]]
    <3>3. UpTo(g, m)
      <4>1. \A n \in 0 .. m - 1 : f[n] = IF n = 0 THEN 0 ELSE Used(s[n].charts, f[n - 1])
        BY <3>2
      <4>2. \A n \in 0 .. m : g[n] = IF n = 0 THEN 0 ELSE Used(s[n].charts, g[n - 1])
        BY <2>1, <2>3, <4>1
      <4> QED
        BY <4>2
    <3> QED
      BY <2>1, <3>3
  <2> QED
    BY <2>2, <2>3
<1>2. Len(s) \in Nat
  BY Entries
<1>3. \E f : UpTo(f, Len(s))
  BY <1>1, <1>2
<1> DEFINE L == CHOOSE f : UpTo(f, Len(s))
<1>4. UpTo(L, Len(s))
  BY <1>3, Zenon
<1>5. NoteLines(s) = L[Len(s)]
  BY Zenon DEF NoteLines
<1> HIDE DEF L
<1>6. \A n \in 0 .. Len(s) : L[n] = IF n = 0 THEN 0 ELSE Used(s[n].charts, L[n - 1])
  BY <1>4
<1>7. L[0] = 0
  BY <1>2, <1>6
<1>8. \A n \in 1 .. Len(s) : L[n] = Used(s[n].charts, L[n - 1])
  BY <1>2, <1>6
<1> QED
  BY <1>5, <1>7, <1>8

-----------------------------------------------------------------------------
(***************************************************************************)
(* The window.                                                             *)
(***************************************************************************)
\* A round of the conversation, a row of it, and a row that says something.
PastRound == [ask : Lengths, answer : Lengths \cup {0}, charts : Charts \cup {<<>>}]
Row == {r \in [role : {"user", "assistant"}, len : Lengths \cup {0}, charts : Seq(Nat), at : Nat] :
           r.role = "user" => r.len # 0}
Spoken == [role : {"user", "assistant"}, len : Lengths, charts : Seq(Nat), at : Nat]

\* What ContextAssumption says of each constant by itself.
LEMMA Numbers ==
    /\ WindowRounds \in Nat /\ WindowRounds > 0 /\ TurnsInContext \in Nat /\ TurnsInContext > 0
    /\ DecisionLimit \in Nat /\ LiveReserve \in Nat /\ AnswerLimit \in Nat /\ NoteLimit \in Nat
    /\ KeepMessages \in Nat /\ LoopSteps \in Nat /\ MaxTalk \in Nat
    /\ \A n \in Lengths : n \in Nat /\ n > 0
    /\ Summaries \subseteq Nat /\ Charts \subseteq Seq(Nat)
BY ContextAssumption, SMTT(30)

\* ai_messages: each round has its question and its answer behind it.
LEMMA StoredRows ==
    ASSUME NEW rounds \in Seq(PastRound)
    PROVE  /\ Stored(rounds) \in Seq(Row) /\ Len(Stored(rounds)) = 2 * Len(rounds)
           /\ \A i \in 1 .. Len(rounds) :
                 /\ Stored(rounds)[2 * i - 1]
                       = [role |-> "user", len |-> rounds[i].ask, charts |-> <<>>, at |-> 2 * i - 1]
                 /\ Stored(rounds)[2 * i] = [role |-> "assistant", len |-> rounds[i].answer,
                                             charts |-> rounds[i].charts, at |-> 2 * i]
<1>1. Len(rounds) \in Nat /\ \A i \in 1 .. Len(rounds) : rounds[i] \in PastRound
  BY Entries
<1> DEFINE Question(i, k) == [role |-> "user", len |-> rounds[i].ask, charts |-> <<>>, at |-> k]
           Answered(i, k) == [role |-> "assistant", len |-> rounds[i].answer,
                              charts |-> rounds[i].charts, at |-> k]
           Stands(k) == IF k % 2 = 1 THEN Question((k + 1) \div 2, k) ELSE Answered((k + 1) \div 2, k)
<1>2. Stored(rounds) = [k \in 1 .. 2 * Len(rounds) |-> Stands(k)]
  BY DEF Stored
<1>3. \A i \in 1 .. Len(rounds) : \A k \in Nat : Question(i, k) \in Row /\ Answered(i, k) \in Row
  <2> SUFFICES ASSUME NEW i \in 1 .. Len(rounds), NEW k \in Nat
               PROVE  Question(i, k) \in Row /\ Answered(i, k) \in Row
    OBVIOUS
  <2>1. rounds[i].ask \in Lengths /\ rounds[i].answer \in Lengths \cup {0}
        /\ rounds[i].charts \in Charts \cup {<<>>}
    BY <1>1 DEF PastRound
  <2>2. <<>> \in Seq(Nat) /\ rounds[i].charts \in Seq(Nat)
    BY <2>1, Numbers, EmptySeq
  <2>3. rounds[i].ask # 0
    BY <2>1, Numbers
  <2> QED
    BY <2>1, <2>2, <2>3 DEF Row
<1> HIDE DEF Question, Answered
<1>4. \A k \in 1 .. 2 * Len(rounds) : (k + 1) \div 2 \in 1 .. Len(rounds)
  BY <1>1
<1>5. \A k \in 1 .. 2 * Len(rounds) : Stands(k) \in Row
  BY <1>1, <1>3, <1>4
<1>6. \A i \in 1 .. Len(rounds) : /\ 2 * i - 1 \in 1 .. 2 * Len(rounds) /\ 2 * i \in 1 .. 2 * Len(rounds)
                                  /\ (2 * i - 1) % 2 = 1 /\ (2 * i) % 2 = 0
                                  /\ (2 * i - 1 + 1) \div 2 = i /\ (2 * i + 1) \div 2 = i
  BY <1>1
<1>7. \A i \in 1 .. Len(rounds) : /\ Stands(2 * i - 1) = Question(i, 2 * i - 1)
                                  /\ Stands(2 * i) = Answered(i, 2 * i)
  BY <1>6
<1> HIDE DEF Stands
<1>8. 2 * Len(rounds) \in Nat
  BY <1>1
<1>9. Stored(rounds) \in Seq(Row) /\ Len(Stored(rounds)) = 2 * Len(rounds)
  BY <1>2, <1>5, <1>8, IsASeq, LenProperties
<1>10. \A i \in 1 .. Len(rounds) : /\ Stored(rounds)[2 * i - 1] = Question(i, 2 * i - 1)
                                   /\ Stored(rounds)[2 * i] = Answered(i, 2 * i)
  BY <1>2, <1>6, <1>7
<1> QED
  BY <1>9, <1>10 DEF Question, Answered

\* Of what was read only what says something stays, and the end of it is known.
LEMMA SaidEnds ==
    ASSUME NEW s \in Seq(Row), NEW own, Len(s) >= 2,
           s[Len(s) - 1].at = own, s[Len(s)].role = "assistant", s[Len(s)].len = 0
    PROVE  /\ Said(s, own) \in Seq(Spoken) /\ Len(Said(s, own)) <= Len(s) - 2
           /\ Len(s) >= 4 /\ s[Len(s) - 3].role = "user" /\ s[Len(s) - 3].at # own
                /\ s[Len(s) - 2].role = "assistant" /\ s[Len(s) - 2].at # own =>
                 /\ Said(s, own) # <<>> /\ \E i \in DOMAIN Said(s, own) : Said(s, own)[i].role = "user"
                 /\ Last(Said(s, own)) = IF s[Len(s) - 2].len = 0 THEN s[Len(s) - 3] ELSE s[Len(s) - 2]
<1> DEFINE Gone(n) == s[n].at = own \/ (s[n].role = "assistant" /\ s[n].len = 0)
<1>0. \E L : /\ Said(s, own) = L[Len(s)] /\ L[0] = <<>>
             /\ \A n \in 1 .. Len(s) :
                   L[n] = IF s[n].at = own \/ (s[n].role = "assistant" /\ s[n].len = 0)
                          THEN L[n - 1] ELSE Append(L[n - 1], s[n])
  <2> HIDE DEF Gone
  <2>1. s \in Seq(Row)
    OBVIOUS
  <2> QED
    BY <2>1, SaidSteps, SMTT(30)
<1>1. PICK L : /\ Said(s, own) = L[Len(s)] /\ L[0] = <<>>
               /\ \A n \in 1 .. Len(s) : L[n] = IF Gone(n) THEN L[n - 1] ELSE Append(L[n - 1], s[n])
  BY <1>0, Zenon
<1>2. Len(s) \in Nat /\ \A i \in 1 .. Len(s) : s[i] \in Row
  BY Entries
<1> DEFINE Good(n) == L[n] \in Seq(Spoken) /\ Len(L[n]) <= n
           Bad == {n \in 0 .. Len(s) : ~Good(n)}
<1>3. Good(0)
  BY <1>1, EmptySeq
<1>4. ASSUME NEW n \in 1 .. Len(s), ~Gone(n) PROVE s[n] \in Spoken
  <2>1. s[n] \in Row
    BY <1>2
  <2>2. s[n].len # 0
    BY <1>4, <2>1 DEF Row
  <2> QED
    BY <2>1, <2>2 DEF Row, Spoken
<1> HIDE DEF Gone
<1>5. ASSUME NEW n \in 1 .. Len(s), Good(n - 1) PROVE Good(n)
  <2>1. n \in Nat /\ n - 1 \in Nat /\ Len(L[n - 1]) \in Nat
    BY <1>2, <1>5, Entries
  <2>2. CASE Gone(n)
    BY <1>1, <1>5, <2>1, <2>2
  <2>3. CASE ~Gone(n)
    <3>1. L[n] = Append(L[n - 1], s[n]) /\ s[n] \in Spoken
      BY <1>1, <1>4, <2>3
    <3>2. L[n] \in Seq(Spoken) /\ Len(L[n]) = Len(L[n - 1]) + 1
      BY <1>5, <3>1, Extended
    <3> QED
      BY <1>5, <2>1, <3>2
  <2> QED
    BY <2>2, <2>3
<1>6. \A n \in 0 .. Len(s) : Good(n)
  <2>1. ASSUME Bad # {} PROVE FALSE
    <3>1. Bad \in SUBSET Nat
      BY <1>2
    <3>2. PICK m \in Bad : \A k \in Bad : m <= k
      BY <2>1, <3>1, Leasts
    <3> HIDE DEF Good
    <3>3. m # 0 /\ m \in 1 .. Len(s)
      BY <1>2, <1>3, <3>2
    <3>4. Good(m - 1)
      BY <1>2, <3>2, <3>3
    <3> QED
      BY <1>5, <3>2, <3>3, <3>4
  <2> HIDE DEF Good
  <2> QED
    BY <2>1
<1> DEFINE n == Len(s)
<1>7. Said(s, own) = L[n - 2]
  <2>1. n \in 1 .. Len(s) /\ n - 1 \in 1 .. Len(s) /\ n - 1 - 1 = n - 2
    BY <1>2
  <2>2. Gone(n) /\ Gone(n - 1)
    BY DEF Gone
  <2> QED
    BY <1>1, <2>1, <2>2
<1>8. Said(s, own) \in Seq(Spoken) /\ Len(Said(s, own)) <= n - 2
  <2>1. n - 2 \in 0 .. Len(s)
    BY <1>2
  <2> QED
    BY <1>6, <1>7, <2>1
<1>9. ASSUME n >= 4, s[n - 3].role = "user", s[n - 3].at # own,
             s[n - 2].role = "assistant", s[n - 2].at # own
      PROVE  /\ Said(s, own) # <<>> /\ \E i \in DOMAIN Said(s, own) : Said(s, own)[i].role = "user"
             /\ Last(Said(s, own)) = IF s[n - 2].len = 0 THEN s[n - 3] ELSE s[n - 2]
  <2>1. n - 2 \in 1 .. Len(s) /\ n - 3 \in 1 .. Len(s) /\ n - 4 \in 0 .. Len(s)
        /\ n - 2 - 1 = n - 3 /\ n - 3 - 1 = n - 4
    BY <1>2, <1>9
  <2>2. ~Gone(n - 3) /\ (Gone(n - 2) <=> s[n - 2].len = 0)
    BY <1>9 DEF Gone
  <2> DEFINE a == L[n - 4]
             b == L[n - 3]
  <2>3. a \in Seq(Spoken) /\ b = Append(a, s[n - 3]) /\ s[n - 3] \in Spoken
    BY <1>1, <1>4, <1>6, <2>1, <2>2
  <2> HIDE DEF a
  <2>4. /\ b \in Seq(Spoken) /\ Len(b) = Len(a) + 1 /\ Len(a) \in Nat
        /\ b[Len(a) + 1] = s[n - 3]
    BY <2>3, Extended, Entries
  <2>5. Last(b) = s[n - 3] /\ Len(a) + 1 \in 1 .. Len(b) /\ DOMAIN b = 1 .. Len(b) /\ b # <<>>
    BY <2>4, Entries, EmptySeq DEF Last
  <2>6. CASE s[n - 2].len = 0
    <3>1. Said(s, own) = b
      BY <1>1, <1>7, <2>1, <2>2, <2>6
    <3> HIDE DEF b
    <3> QED
      BY <1>9, <2>4, <2>5, <2>6, <3>1
  <2>7. CASE s[n - 2].len # 0
    <3>1. Said(s, own) = Append(b, s[n - 2]) /\ s[n - 2] \in Spoken
      BY <1>1, <1>4, <1>7, <2>1, <2>2, <2>7
    <3> HIDE DEF b
    <3> DEFINE w == Append(b, s[n - 2])
    <3>2. /\ w \in Seq(Spoken) /\ Len(w) = Len(b) + 1 /\ Len(b) \in Nat
          /\ \A i \in 1 .. Len(b) : w[i] = b[i]
          /\ w[Len(b) + 1] = s[n - 2]
      BY <2>4, <3>1, Extended, Entries
    <3> HIDE DEF w
    <3>3. DOMAIN w = 1 .. Len(w) /\ w # <<>>
      BY <3>2, Entries, EmptySeq
    <3>4. Last(w) = s[n - 2] /\ w[Len(a) + 1].role = "user" /\ Len(a) + 1 \in DOMAIN w
      BY <1>9, <2>4, <2>5, <3>2, <3>3 DEF Last
    <3> QED
      BY <2>7, <3>1, <3>3, <3>4 DEF w
  <2> QED
    BY <2>6, <2>7
<1> QED
  BY <1>8, <1>9

\* Align drops what is before the first question, and no question means nothing.
LEMMA Aligned ==
    ASSUME NEW S, NEW h \in Seq(S)
    PROVE  /\ Align(h) \in Seq(S) /\ Len(Align(h)) <= Len(h)
           /\ Align(h) # <<>> => /\ Align(h)[1].role = "user" /\ Last(Align(h)) = Last(h)
                                 /\ \E q \in 1 .. Len(h) : Align(h) = SubSeq(h, q, Len(h))
           /\ (\E i \in DOMAIN h : h[i].role = "user") => Align(h) # <<>>
<1>1. Len(h) \in Nat /\ DOMAIN h = 1 .. Len(h)
  BY Entries
<1> DEFINE Q == {i \in DOMAIN h : h[i].role = "user"}
           q == Least(Q)
<1>2. CASE Q = {}
  <2>1. Align(h) = <<>>
    BY <1>2 DEF Align
  <2> QED
    BY <1>1, <1>2, <2>1, EmptySeq
<1>3. CASE Q # {}
  <2>1. Q \in SUBSET Nat
    BY <1>1
  <2>2. q \in Q
    BY <1>3, <2>1, Leasts
  <2>3. Align(h) = SubSeq(h, q, Len(h))
    BY <1>3 DEF Align
  <2>4. q \in 1 .. Len(h) /\ h[q].role = "user"
    BY <1>1, <2>2
  <2> HIDE DEF q
  <2>5. q \in 1 .. Len(h) + 1 /\ Len(h) \in q - 1 .. Len(h)
    BY <1>1, <2>4
  <2>6. /\ Align(h) \in Seq(S) /\ Len(Align(h)) = Len(h) - q + 1
        /\ \A i \in 1 .. Len(h) - q + 1 : Align(h)[i] = h[q + i - 1]
    BY <2>3, <2>5, Slice
  <2>7. /\ 1 \in 1 .. Len(h) - q + 1 /\ q + 1 - 1 = q /\ Len(h) - q + 1 > 0
        /\ Len(h) - q + 1 \in 1 .. Len(h) - q + 1
        /\ q + (Len(h) - q + 1) - 1 = Len(h) /\ Len(h) - q + 1 <= Len(h)
    BY <1>1, <2>4
  <2>8. Align(h)[1].role = "user" /\ Last(Align(h)) = Last(h)
    BY <2>4, <2>6, <2>7 DEF Last
  <2>9. Align(h) # <<>>
    BY <2>6, <2>7, EmptySeq
  <2> QED
    BY <2>3, <2>4, <2>6, <2>7, <2>8, <2>9
<1> QED
  BY <1>2, <1>3

\* ai._load_server_window: what is read for a round ends with the newest row
\* that says something.
LEMMA WindowIs ==
    ASSUME NEW rounds \in Seq(PastRound), Len(rounds) > 0, rounds[Len(rounds)].answer = 0
    PROVE  /\ ServerWindow(rounds) \in Seq(Spoken) /\ Len(ServerWindow(rounds)) <= 2 * WindowRounds
           /\ Len(rounds) > 1 =>
                 /\ ServerWindow(rounds) # <<>> /\ ServerWindow(rounds)[1].role = "user"
                 /\ Last(ServerWindow(rounds)).at = IF rounds[Len(rounds) - 1].answer = 0
                                                    THEN 2 * (Len(rounds) - 1) - 1 ELSE 2 * (Len(rounds) - 1)
<1> DEFINE n == Len(rounds)
           all == Stored(rounds)
           most == 2 * WindowRounds + 2
           read == LastN(all, most)
           r == Len(read)
           own == 2 * n - 1
           said == Said(read, own)
<1>1. n \in Nat /\ n > 0
  BY Entries
<1>2. /\ all \in Seq(Row) /\ Len(all) = 2 * n
      /\ \A i \in 1 .. n :
            /\ all[2 * i - 1] = [role |-> "user", len |-> rounds[i].ask, charts |-> <<>>, at |-> 2 * i - 1]
            /\ all[2 * i] = [role |-> "assistant", len |-> rounds[i].answer,
                             charts |-> rounds[i].charts, at |-> 2 * i]
  BY StoredRows
<1>3. most \in Nat /\ most >= 4 /\ most - 2 = 2 * WindowRounds
  BY Numbers
<1> HIDE DEF all, most
<1>4. /\ read \in Seq(Row) /\ r = IF 2 * n > most THEN most ELSE 2 * n
      /\ \A i \in 1 .. r : read[i] = all[2 * n - r + i]
  <2>0. all \in Seq(Row) /\ most \in Nat
    BY <1>2, <1>3
  <2>1. /\ read \in Seq(Row) /\ r = IF Len(all) > most THEN most ELSE Len(all)
        /\ \A i \in 1 .. r : read[i] = all[Len(all) - r + i]
    BY <2>0, Newest
  <2> HIDE DEF read
  <2> QED
    BY <1>2, <2>1
<1> HIDE DEF read
<1>5. r \in Nat /\ r >= 2 /\ r <= most /\ (n > 1 => r >= 4)
  BY <1>1, <1>3, <1>4
<1>6. read[r] = all[2 * n] /\ read[r - 1] = all[2 * n - 1]
  <2>1. /\ r \in 1 .. r /\ r - 1 \in 1 .. r /\ 2 * n - r + r = 2 * n
        /\ 2 * n - r + (r - 1) = 2 * n - 1
    BY <1>1, <1>5
  <2> QED
    BY <1>4, <2>1
<1>7. n \in 1 .. n
  BY <1>1
<1>8. read[r - 1].at = own /\ read[r].role = "assistant" /\ read[r].len = 0
  <2>1. /\ all[2 * n - 1] = [role |-> "user", len |-> rounds[n].ask, charts |-> <<>>, at |-> 2 * n - 1]
        /\ all[2 * n] = [role |-> "assistant", len |-> rounds[n].answer,
                         charts |-> rounds[n].charts, at |-> 2 * n]
    BY <1>2, <1>7
  <2> QED
    BY <1>6, <2>1
<1>9. /\ said \in Seq(Spoken) /\ Len(said) <= r - 2
      /\ r >= 4 /\ read[r - 3].role = "user" /\ read[r - 3].at # own
           /\ read[r - 2].role = "assistant" /\ read[r - 2].at # own =>
            /\ said # <<>> /\ \E i \in DOMAIN said : said[i].role = "user"
            /\ Last(said) = IF read[r - 2].len = 0 THEN read[r - 3] ELSE read[r - 2]
  BY <1>4, <1>5, <1>8, SaidEnds
<1> HIDE DEF said
<1>10. /\ Align(said) \in Seq(Spoken) /\ Len(Align(said)) <= Len(said)
       /\ Align(said) # <<>> => Align(said)[1].role = "user" /\ Last(Align(said)) = Last(said)
       /\ (\E i \in DOMAIN said : said[i].role = "user") => Align(said) # <<>>
  BY <1>9, Aligned
<1>11. ServerWindow(rounds) = Align(said) /\ Len(Align(said)) <= 2 * WindowRounds
  <2>1. Len(Align(said)) \in Nat /\ Len(said) \in Nat
    BY <1>9, <1>10, Entries
  <2>2. Len(Align(said)) <= 2 * WindowRounds /\ 2 * WindowRounds \in Nat
    BY <1>3, <1>5, <1>9, <1>10, <2>1, Numbers
  <2>3. FirstN(Align(said), 2 * WindowRounds) = Align(said)
    BY <1>10, <2>2, KeptWhole
  <2> QED
    BY <2>2, <2>3 DEF ServerWindow, said, own, read, most, all
<1>12. ASSUME n > 1
       PROVE  /\ Align(said) # <<>> /\ Align(said)[1].role = "user"
              /\ Last(Align(said)).at = IF rounds[n - 1].answer = 0
                                        THEN 2 * (n - 1) - 1 ELSE 2 * (n - 1)
  <2>1. read[r - 2] = all[2 * (n - 1)] /\ read[r - 3] = all[2 * (n - 1) - 1]
    <3>1. /\ r - 2 \in 1 .. r /\ r - 3 \in 1 .. r /\ 2 * n - r + (r - 2) = 2 * (n - 1)
          /\ 2 * n - r + (r - 3) = 2 * (n - 1) - 1
      BY <1>1, <1>5, <1>12
    <3> QED
      BY <1>4, <3>1
  <2>2. n - 1 \in 1 .. n /\ 2 * (n - 1) # own /\ 2 * (n - 1) - 1 # own
    BY <1>1, <1>12
  <2>3. /\ read[r - 3].role = "user" /\ read[r - 3].at = 2 * (n - 1) - 1
        /\ read[r - 2].role = "assistant" /\ read[r - 2].at = 2 * (n - 1)
        /\ read[r - 2].len = rounds[n - 1].answer
    <3>1. /\ all[2 * (n - 1) - 1] = [role |-> "user", len |-> rounds[n - 1].ask, charts |-> <<>>,
                                     at |-> 2 * (n - 1) - 1]
          /\ all[2 * (n - 1)] = [role |-> "assistant", len |-> rounds[n - 1].answer,
                                 charts |-> rounds[n - 1].charts, at |-> 2 * (n - 1)]
      BY <1>2, <2>2
    <3> QED
      BY <2>1, <3>1
  <2>4. /\ \E i \in DOMAIN said : said[i].role = "user"
        /\ Last(said) = IF read[r - 2].len = 0 THEN read[r - 3] ELSE read[r - 2]
    BY <1>5, <1>9, <1>12, <2>2, <2>3
  <2>5. Last(said).at = IF rounds[n - 1].answer = 0 THEN 2 * (n - 1) - 1 ELSE 2 * (n - 1)
    BY <2>3, <2>4
  <2> QED
    BY <1>10, <2>4, <2>5
<1> QED
  BY <1>10, <1>11, <1>12

-----------------------------------------------------------------------------
(***************************************************************************)
(* Sums of lengths.                                                        *)
(***************************************************************************)
\* Lengths add up to a number, at least that of the last.
LEMMA Sums ==
    ASSUME NEW s \in Seq(Nat)
    PROVE  /\ Characters(s) \in Nat
           /\ Len(s) = 0 => Characters(s) = 0
           /\ Len(s) > 0 => Characters(s) >= s[Len(s)]
           /\ Len(s) = 1 => Characters(s) = s[1]
           /\ \E L : /\ Characters(s) = L[Len(s)] /\ L[0] = 0 /\ \A n \in 0 .. Len(s) : L[n] \in Nat
                     /\ \A n \in 1 .. Len(s) : L[n] = L[n - 1] + s[n]
<1>1. Len(s) \in Nat /\ \A i \in 1 .. Len(s) : s[i] \in Nat
  BY Entries
<1>0. s \in Seq(Int)
  <2>1. \A i \in 1 .. Len(s) : s[i] \in Int
    BY <1>1
  <2> QED
    BY <1>1, <2>1, ElementOfSeq, IsASeq, LenProperties
<1>2. PICK L : /\ Characters(s) = L[Len(s)] /\ L[0] = 0
               /\ \A n \in 1 .. Len(s) : L[n] = L[n - 1] + s[n]
  BY <1>0, CharactersSteps
<1> DEFINE Bad == {n \in 0 .. Len(s) : L[n] \notin Nat}
<1>3. ASSUME NEW n \in 1 .. Len(s), L[n - 1] \in Nat PROVE L[n] \in Nat
  BY <1>1, <1>2, <1>3
<1>4. \A n \in 0 .. Len(s) : L[n] \in Nat
  <2>1. ASSUME Bad # {} PROVE FALSE
    <3>1. Bad \in SUBSET Nat
      BY <1>1
    <3>2. PICK m \in Bad : \A k \in Bad : m <= k
      BY <2>1, <3>1, Leasts
    <3>3. m # 0 /\ m \in 1 .. Len(s)
      BY <1>1, <1>2, <3>2
    <3>4. L[m - 1] \in Nat
      BY <1>1, <3>2, <3>3
    <3> QED
      BY <1>3, <3>2, <3>3, <3>4
  <2> QED
    BY <2>1
<1>5. Len(s) > 0 => Characters(s) >= s[Len(s)]
  <2> SUFFICES ASSUME Len(s) > 0 PROVE Characters(s) >= s[Len(s)]
    OBVIOUS
  <2>1. Len(s) \in 1 .. Len(s) /\ Len(s) - 1 \in 0 .. Len(s)
    BY <1>1
  <2>2. /\ L[Len(s)] = L[Len(s) - 1] + s[Len(s)] /\ L[Len(s) - 1] \in Nat
        /\ s[Len(s)] \in Nat
    BY <1>1, <1>2, <1>4, <2>1
  <2> QED
    BY <1>2, <2>2
<1>6. Len(s) = 1 => Characters(s) = s[1]
  BY <1>1, <1>2
<1> QED
  BY <1>1, <1>2, <1>4, <1>5, <1>6

\* The end of a list is no longer than all of it.
LEMMA SumOfEnd ==
    ASSUME NEW s \in Seq(Nat), NEW t \in Seq(Nat), NEW q \in Nat, Len(s) = q + Len(t),
           \A i \in 1 .. Len(t) : t[i] = s[q + i]
    PROVE  Characters(t) <= Characters(s)
<1>1. Len(s) \in Nat /\ Len(t) \in Nat
  BY Entries
<1>2. PICK L : /\ Characters(s) = L[Len(s)] /\ L[0] = 0 /\ \A n \in 0 .. Len(s) : L[n] \in Nat
               /\ \A n \in 1 .. Len(s) : L[n] = L[n - 1] + s[n]
  BY Sums
<1>3. PICK M : /\ Characters(t) = M[Len(t)] /\ M[0] = 0 /\ \A n \in 0 .. Len(t) : M[n] \in Nat
               /\ \A n \in 1 .. Len(t) : M[n] = M[n - 1] + t[n]
  BY Sums
<1> DEFINE Good(n) == M[n] <= L[q + n]
           Bad == {n \in 0 .. Len(t) : ~Good(n)}
<1>4. Good(0)
  BY <1>1, <1>2, <1>3
<1>5. ASSUME NEW n \in 1 .. Len(t), Good(n - 1) PROVE Good(n)
  <2>1. PICK k \in 1 .. Len(s) : k = q + n
    <3>1. q + n \in 1 .. Len(s)
      BY <1>1
    <3> QED
      BY <3>1
  <2>2. k - 1 \in 0 .. Len(s) /\ q + (n - 1) = k - 1 /\ n - 1 \in 0 .. Len(t) /\ k \in 0 .. Len(s)
    BY <1>1, <2>1
  <2>3. L[k] = L[k - 1] + s[k] /\ L[k - 1] \in Nat
    BY <1>2, <2>2
  <2>4. M[n] = M[n - 1] + t[n] /\ M[n - 1] \in Nat
    BY <1>3, <2>2
  <2>5. t[n] = s[k] /\ t[n] \in Nat
    BY <2>1, Entries
  <2>6. M[n - 1] <= L[k - 1]
    BY <1>5, <2>2
  <2>7. \A a, b, c \in Nat : a <= b => a + c <= b + c
    OBVIOUS
  <2>8. M[n - 1] + t[n] <= L[k - 1] + t[n]
    BY <2>3, <2>4, <2>5, <2>6, <2>7
  <2>9. L[k] = L[k - 1] + t[n]
    BY <2>3, <2>5
  <2> QED
    BY <2>1, <2>4, <2>8, <2>9
<1>6. Good(Len(t))
  <2>1. ASSUME Bad # {} PROVE FALSE
    <3>1. Bad \in SUBSET Nat
      BY <1>1
    <3>2. PICK m \in Bad : \A k \in Bad : m <= k
      BY <2>1, <3>1, Leasts
    <3> HIDE DEF Good
    <3>3. m # 0 /\ m \in 1 .. Len(t)
      BY <1>1, <1>4, <3>2
    <3>4. Good(m - 1)
      BY <1>1, <3>2, <3>3
    <3> QED
      BY <1>5, <3>2, <3>3, <3>4
  <2> HIDE DEF Good
  <2> QED
    BY <1>1, <2>1
<1> QED
  BY <1>2, <1>3, <1>6

\* A note of charts outgrows its limit by a newline at most.
LEMMA UsedIs ==
    ASSUME NEW charts \in Seq(Nat), NEW used \in 0 .. NoteLimit + 1
    PROVE  Used(charts, used) \in 0 .. NoteLimit + 1
<1> DEFINE fit == {k \in 1 .. Len(charts) : used + ChartLines(charts, k) - 1 <= NoteLimit}
<1>1. Len(charts) \in Nat /\ NoteLimit \in Nat /\ \A i \in 1 .. Len(charts) : charts[i] \in Nat
  BY Numbers, Entries
<1>2. CASE used >= NoteLimit \/ fit = {}
  BY <1>2 DEF Used
<1>3. CASE ~(used >= NoteLimit \/ fit = {})
  <2> DEFINE k == Largest(fit)
  <2>1. k \in fit
    BY <1>1, <1>3, Largests
  <2>2. Used(charts, used) = used + ChartLines(charts, k)
    BY <1>3 DEF Used
  <2> HIDE DEF k
  <2>3. k \in 1 .. Len(charts) /\ used + ChartLines(charts, k) - 1 <= NoteLimit
    BY <2>1
  <2> DEFINE s == [i \in 1 .. k |-> charts[i] + 1]
  <2>4. k \in Nat /\ \A i \in 1 .. k : charts[i] + 1 \in Nat
    BY <1>1, <2>3
  <2>5. s \in Seq(Nat)
    BY <2>4, IsASeq
  <2> HIDE DEF s
  <2>6. Characters(s) \in Nat
    BY <2>5, Sums
  <2>7. ChartLines(charts, k) = Characters(s)
    BY DEF ChartLines, s
  <2> QED
    BY <1>1, <2>2, <2>3, <2>6, <2>7
<1> QED
  BY <1>2, <1>3

\* And so does the whole note, under its title.
LEMMA NoteIs ==
    ASSUME NEW rounds \in Seq(PastRound)
    PROVE  ChartNote(rounds) \in 0 .. 24 + NoteLimit
<1> DEFINE rows == LastN(Stored(rounds), 6)
<1>1. rows \in Seq(Row)
  BY StoredRows, Newest
<1> HIDE DEF rows
<1>2. Len(rows) \in Nat /\ \A i \in 1 .. Len(rows) : rows[i] \in Row
  BY <1>1, Entries
<1>0. \E L : /\ NoteLines(rows) = L[Len(rows)] /\ L[0] = 0
             /\ \A n \in 1 .. Len(rows) : L[n] = Used(rows[n].charts, L[n - 1])
  BY <1>1, NoteSteps
<1>3. PICK L : /\ NoteLines(rows) = L[Len(rows)] /\ L[0] = 0
               /\ \A n \in 1 .. Len(rows) : L[n] = Used(rows[n].charts, L[n - 1])
  BY <1>0, Zenon
<1> DEFINE Bad == {n \in 0 .. Len(rows) : L[n] \notin 0 .. NoteLimit + 1}
<1>4. NoteLimit \in Nat
  BY Numbers
<1>5. ASSUME NEW n \in 1 .. Len(rows), L[n - 1] \in 0 .. NoteLimit + 1 PROVE L[n] \in 0 .. NoteLimit + 1
  <2>1. rows[n].charts \in Seq(Nat)
    BY <1>2 DEF Row
  <2> QED
    BY <1>3, <1>5, <2>1, UsedIs
<1>6. L[Len(rows)] \in 0 .. NoteLimit + 1
  <2>1. ASSUME Bad # {} PROVE FALSE
    <3>1. Bad \in SUBSET Nat
      BY <1>2
    <3>2. PICK m \in Bad : \A k \in Bad : m <= k
      BY <2>1, <3>1, Leasts
    <3>3. m # 0 /\ m \in 1 .. Len(rows)
      BY <1>2, <1>3, <1>4, <3>2
    <3>4. L[m - 1] \in 0 .. NoteLimit + 1
      BY <1>2, <3>2, <3>3
    <3> QED
      BY <1>5, <3>2, <3>3, <3>4
  <2> QED
    BY <1>2, <2>1
<1> QED
  BY <1>3, <1>4, <1>6 DEF ChartNote, rows

-----------------------------------------------------------------------------
(***************************************************************************)
(* What is chosen of the window.                                           *)
(***************************************************************************)
\* A turn as a model is shown it, cut or not.
Heard == [role : {"user", "assistant"}, len : Nat, charts : Seq(Nat), at : Nat]

\* A turn of the window is one that can be shown.
LEMMA SpokenIsHeard == Spoken \subseteq Heard /\ Seq(Spoken) \subseteq Seq(Heard)
<1>1. Spoken \subseteq Heard
  <2>1. Lengths \subseteq Nat
    BY Numbers
  <2> QED
    BY <2>1 DEF Spoken, Heard
<1>2. ASSUME NEW s \in Seq(Spoken) PROVE s \in Seq(Heard)
  <2>1. Len(s) \in Nat /\ \A i \in 1 .. Len(s) : s[i] \in Heard
    BY <1>1, Entries
  <2>2. s = [i \in 1 .. Len(s) |-> s[i]]
    BY Entries
  <2>3. [i \in 1 .. Len(s) |-> s[i]] \in Seq(Heard)
    BY <2>1, IsASeq
  <2> QED
    BY <2>2, <2>3
<1> QED
  BY <1>1, <1>2

\* What turns need, and at least what is around one of them.
LEMMA Totals ==
    ASSUME NEW ts \in Seq(Heard), NEW around \in Nat
    PROVE  /\ Total(ts, around) \in Nat
           /\ Len(ts) = 1 => Total(ts, around) = ts[1].len + around
           /\ Len(ts) > 0 => Total(ts, around) >= around
<1> DEFINE s == [i \in 1 .. Len(ts) |-> ts[i].len + around]
<1>1. Len(ts) \in Nat /\ DOMAIN ts = 1 .. Len(ts) /\ \A i \in 1 .. Len(ts) : ts[i].len \in Nat
  <2>1. Len(ts) \in Nat /\ DOMAIN ts = 1 .. Len(ts) /\ \A i \in 1 .. Len(ts) : ts[i] \in Heard
    BY Entries
  <2> QED
    BY <2>1 DEF Heard
<1>2. s \in Seq(Nat) /\ Len(s) = Len(ts)
  <2>1. \A i \in 1 .. Len(ts) : ts[i].len + around \in Nat
    BY <1>1
  <2>2. s \in Seq(Nat)
    BY <1>1, <2>1, IsASeq
  <2> QED
    BY <1>1, <2>2, LenProperties
<1>3. Total(ts, around) = Characters(s)
  BY <1>1 DEF Total
<1>4. \A i \in 1 .. Len(ts) : s[i] = ts[i].len + around
  OBVIOUS
<1> HIDE DEF s
<1>5. /\ Characters(s) \in Nat /\ (Len(s) = 1 => Characters(s) = s[1])
      /\ Len(s) > 0 => Characters(s) >= s[Len(s)]
  BY <1>2, Sums
<1>6. ASSUME Len(ts) > 0 PROVE Total(ts, around) >= around
  <2>1. Len(ts) \in 1 .. Len(ts)
    BY <1>1, <1>6
  <2>2. s[Len(ts)] = ts[Len(ts)].len + around /\ ts[Len(ts)].len \in Nat
    BY <1>1, <1>4, <2>1
  <2> QED
    BY <1>2, <1>3, <1>5, <1>6, <2>2
<1>7. ASSUME Len(ts) = 1 PROVE Total(ts, around) = ts[1].len + around
  <2>1. 1 \in 1 .. Len(ts)
    BY <1>7
  <2> QED
    BY <1>2, <1>3, <1>4, <1>5, <1>7, <2>1
<1> QED
  BY <1>3, <1>5, <1>6, <1>7

\* To drop the oldest turns makes it no longer.
LEMMA TotalOfEnd ==
    ASSUME NEW ts \in Seq(Heard), NEW around \in Nat, NEW q \in 1 .. Len(ts)
    PROVE  Total(SubSeq(ts, q, Len(ts)), around) <= Total(ts, around)
<1> DEFINE t == SubSeq(ts, q, Len(ts))
           s == [i \in 1 .. Len(ts) |-> ts[i].len + around]
           e == [i \in 1 .. Len(t) |-> t[i].len + around]
<1>1. Len(ts) \in Nat /\ DOMAIN ts = 1 .. Len(ts) /\ \A i \in 1 .. Len(ts) : ts[i].len \in Nat
  <2>1. Len(ts) \in Nat /\ DOMAIN ts = 1 .. Len(ts) /\ \A i \in 1 .. Len(ts) : ts[i] \in Heard
    BY Entries
  <2> QED
    BY <2>1 DEF Heard
<1>2. /\ t \in Seq(Heard) /\ Len(t) = Len(ts) - q + 1
      /\ \A i \in 1 .. Len(ts) - q + 1 : t[i] = ts[q + i - 1]
  <2>1. q \in 1 .. Len(ts) + 1 /\ Len(ts) \in q - 1 .. Len(ts)
    BY <1>1
  <2> QED
    BY <2>1, Slice
<1> HIDE DEF t
<1>3. Len(t) \in Nat /\ DOMAIN t = 1 .. Len(t) /\ \A i \in 1 .. Len(t) : t[i].len \in Nat
  <2>1. Len(t) \in Nat /\ DOMAIN t = 1 .. Len(t) /\ \A i \in 1 .. Len(t) : t[i] \in Heard
    BY <1>2, Entries
  <2> QED
    BY <2>1 DEF Heard
<1>4. s \in Seq(Nat) /\ Len(s) = Len(ts)
  <2>1. \A i \in 1 .. Len(ts) : ts[i].len + around \in Nat
    BY <1>1
  <2>2. s \in Seq(Nat)
    BY <1>1, <2>1, IsASeq
  <2> QED
    BY <1>1, <2>2, LenProperties
<1>5. e \in Seq(Nat) /\ Len(e) = Len(t)
  <2>1. \A i \in 1 .. Len(t) : t[i].len + around \in Nat
    BY <1>3
  <2>2. e \in Seq(Nat)
    BY <1>3, <2>1, IsASeq
  <2> QED
    BY <1>3, <2>2, LenProperties
<1>6. Total(ts, around) = Characters(s) /\ Total(t, around) = Characters(e)
  BY <1>1, <1>3 DEF Total
<1>7. ASSUME NEW i \in 1 .. Len(t) PROVE e[i] = s[q - 1 + i]
  <2>1. q - 1 + i \in 1 .. Len(ts) /\ q + i - 1 = q - 1 + i /\ i \in 1 .. Len(ts) - q + 1
    BY <1>1, <1>2
  <2> QED
    BY <1>2, <2>1
<1> HIDE DEF s, e
<1>8. q - 1 \in Nat /\ Len(s) = q - 1 + Len(e) /\ \A i \in 1 .. Len(e) : e[i] = s[q - 1 + i]
  BY <1>1, <1>2, <1>4, <1>5, <1>7
<1>9. Characters(e) <= Characters(s)
  BY <1>4, <1>5, <1>8, SumOfEnd
<1> QED
  BY <1>6, <1>9 DEF t

\* Of turns something is chosen, which ends with the newest, and which fits as it is
\* or is the part of the newest that fits.
Choice(ts, room, around, part) == DropLoneAnswer(NewestThatFit(ts, room, around, part))
LEMMA Chosen ==
    ASSUME NEW ts \in Seq(Spoken), ts # <<>>, NEW room \in Int, NEW around \in Nat,
           NEW part \in Nat, part > 0
    PROVE  LET c == Choice(ts, room, around, part)
           IN  /\ c \in Seq(Heard) /\ c # <<>> /\ Last(c).at = Last(ts).at /\ Last(c).len \in Nat
               /\ \/ Total(c, around) <= room /\ Last(c).len = Last(ts).len
                  \/ Total(c, around) <= part + around /\ Last(c).len = part
<1> DEFINE c == Choice(ts, room, around, part)
<1> DEFINE fit == {k \in 1 .. Len(ts) : Total(LastN(ts, k), around) <= room}
           d == NewestThatFit(ts, room, around, part)
<1>1. Len(ts) \in Nat /\ Len(ts) > 0 /\ Last(ts) = ts[Len(ts)] /\ Last(ts) \in Spoken
  <2>1. Len(ts) \in Nat /\ Len(ts) > 0
    BY Entries, EmptySeq
  <2> QED
    BY <2>1, Entries DEF Last
<1>2. /\ d \in Seq(Heard) /\ d # <<>> /\ Last(d).at = Last(ts).at
      /\ \/ Total(d, around) <= room /\ Last(d).len = Last(ts).len
         \/ Total(d, around) = part + around /\ Last(d).len = part
  <2>1. CASE fit # {}
    <3> DEFINE k == Largest(fit)
    <3>1. k \in fit
      BY <1>1, <2>1, Largests
    <3>2. d = LastN(ts, k)
      BY <2>1 DEF NewestThatFit
    <3> HIDE DEF k
    <3>3. k \in Nat /\ k > 0 /\ Total(LastN(ts, k), around) <= room
      BY <3>1
    <3>4. LastN(ts, k) \in Seq(Spoken) /\ LastN(ts, k) # <<>> /\ Last(LastN(ts, k)) = Last(ts)
      BY <1>1, <3>3, Newest
    <3> QED
      BY <3>2, <3>3, <3>4, SpokenIsHeard
  <2>2. CASE fit = {}
    <3> DEFINE x == [Last(ts) EXCEPT !.len = part]
    <3>1. d = <<x>>
      BY <2>2 DEF NewestThatFit
    <3>2. x \in Heard /\ x.at = Last(ts).at /\ x.len = part
      BY <1>1 DEF Spoken, Heard
    <3> HIDE DEF x, d
    <3>3. d \in Seq(Heard) /\ Len(d) = 1 /\ d[1] = x /\ d # <<>> /\ Last(d) = x
      BY <3>1, <3>2 DEF Last
    <3>4. Total(d, around) = x.len + around
      BY <3>3, Totals
    <3> QED
      BY <3>2, <3>3, <3>4
  <2> QED
    BY <2>1, <2>2
<1> HIDE DEF d, fit
<1>3. Last(d).len \in Nat
  <2>1. Len(d) \in Nat /\ Len(d) > 0
    BY <1>2, Entries, EmptySeq
  <2>2. Last(d) \in Heard
    BY <1>2, <2>1, Entries DEF Last
  <2> QED
    BY <2>2 DEF Heard
<1>4. CASE Align(d) = <<>>
  <2>1. c = d
    BY <1>4 DEF DropLoneAnswer, Choice, d
  <2> QED
    BY <1>2, <1>3, <2>1
<1>5. CASE Align(d) # <<>>
  <2>1. c = Align(d)
    BY <1>5 DEF DropLoneAnswer, Choice, d
  <2>2. /\ Align(d) \in Seq(Heard) /\ Last(Align(d)) = Last(d)
        /\ \E q \in 1 .. Len(d) : Align(d) = SubSeq(d, q, Len(d))
    BY <1>2, <1>5, Aligned
  <2>3. Total(c, around) <= Total(d, around)
    BY <1>2, <2>1, <2>2, TotalOfEnd
  <2>4. Total(c, around) \in Nat /\ Total(d, around) \in Nat
    BY <1>2, <2>1, <2>2, Totals
  <2>5. CASE Total(d, around) <= room /\ Last(d).len = Last(ts).len
    BY <1>2, <1>3, <1>5, <2>1, <2>2, <2>3, <2>4, <2>5
  <2>6. CASE Total(d, around) = part + around /\ Last(d).len = part
    BY <1>2, <1>3, <1>5, <2>1, <2>2, <2>3, <2>4, <2>6
  <2> QED
    BY <1>2, <2>5, <2>6
<1> QED
  BY <1>4, <1>5

-----------------------------------------------------------------------------
(***************************************************************************)
(* Messages.                                                               *)
(***************************************************************************)
\* A message to a model.
Message == [role : {"system", "memory", "user", "assistant", "tool"}, id : Nat,
            kind : {"text", "rows", "error", "meta", "plain"}, size : Int, rows : Nat, at : Nat]

\* Texts, and the turns made into them, are messages.
LEMMA Texts ==
    ASSUME NEW role \in {"system", "memory", "user", "assistant", "tool"}, NEW length \in Int
    PROVE  Text(role, length) \in Message
BY DEF Text, Message

LEMMA TurnMessages ==
    ASSUME NEW ts \in Seq(Heard), ts # <<>>
    PROVE  LET said == [i \in 1 .. Len(ts) |-> TurnMessage(ts[i])]
           IN  said \in Seq(Message) /\ Len(said) = Len(ts) /\ said[Len(ts)].at = Last(ts).at
<1> DEFINE said == [i \in 1 .. Len(ts) |-> TurnMessage(ts[i])]
<1>1. Len(ts) \in Nat /\ Len(ts) > 0 /\ \A i \in 1 .. Len(ts) : ts[i] \in Heard
  BY Entries, EmptySeq
<1>2. ASSUME NEW t \in Heard PROVE TurnMessage(t) \in Message /\ TurnMessage(t).at = t.at
  <2>1. t.role \in {"user", "assistant"} /\ t.len \in Int /\ t.at \in Nat
    BY DEF Heard
  <2>2. TurnMessage(t) = [role |-> t.role, id |-> 0, kind |-> "text", size |-> t.len, rows |-> 0, at |-> t.at]
    BY DEF TurnMessage, Text
  <2> QED
    BY <2>1, <2>2 DEF Message
<1>3. \A i \in 1 .. Len(ts) : TurnMessage(ts[i]) \in Message
  BY <1>1, <1>2
<1>4. said \in Seq(Message) /\ Len(said) = Len(ts)
  BY <1>1, <1>3, IsASeq, LenProperties
<1>5. Len(ts) \in 1 .. Len(ts) /\ Last(ts) = ts[Len(ts)]
  BY <1>1 DEF Last
<1> QED
  BY <1>1, <1>2, <1>4, <1>5

\* What stands in the middle stands.
LEMMA Amid ==
    ASSUME NEW S, NEW a \in Seq(S), NEW b \in Seq(S), NEW x \in S, NEW i \in 1 .. Len(b)
    PROVE  \E k \in DOMAIN ((a \o b) \o <<x>>) : ((a \o b) \o <<x>>)[k] = b[i]
<1> DEFINE m == a \o b
<1>1. Len(a) \in Nat /\ Len(b) \in Nat
  BY Entries
<1>2. /\ m \in Seq(S) /\ Len(m) = Len(a) + Len(b)
      /\ \A k \in 1 .. Len(a) + Len(b) : m[k] = IF k <= Len(a) THEN a[k] ELSE b[k - Len(a)]
  BY ConcatProperties, SMTT(30)
<1>3. m[Len(a) + i] = b[i] /\ Len(a) + i \in 1 .. Len(m)
  <2>1. /\ Len(a) + i \in 1 .. Len(a) + Len(b) /\ ~(Len(a) + i <= Len(a)) /\ Len(a) + i - Len(a) = i
    BY <1>1
  <2> QED
    BY <1>2, <2>1
<1> HIDE DEF m
<1>4. /\ Append(m, x) \in Seq(S) /\ Len(Append(m, x)) = Len(m) + 1
      /\ \A k \in 1 .. Len(m) : Append(m, x)[k] = m[k]
  <2>1. m \in Seq(S)
    BY <1>2
  <2> QED
    BY <2>1, Extended
<1>5. m \o <<x>> = Append(m, x)
  BY <1>2, AppendIsConcat
<1>6. DOMAIN Append(m, x) = 1 .. Len(m) + 1 /\ Len(m) \in Nat
  BY <1>2, <1>4, Entries
<1>7. Len(a) + i \in 1 .. Len(m) + 1
  BY <1>3, <1>6
<1> QED
  BY <1>3, <1>4, <1>5, <1>6, <1>7 DEF m

\* provider.for_decision, for_answer and for_worker: the newest turn is in all of
\* them, however long the memory and the note are.
LEMMA DecisionShows ==
    ASSUME window \in Seq(Spoken), window # <<>>, summary \in Nat, note \in Nat
    PROVE  /\ DecisionTurns # <<>> /\ Last(DecisionTurns).at = Last(window).at
           /\ DecisionLength - Last(DecisionTurns).len < DecisionLimit \/ Last(window).len = 1
<1> DEFINE ts == LastN(window, TurnsInContext)
           used == DecisionNote + DecisionMemory
           remain == DecisionLimit - used - 1
           part == IF remain > 40 THEN remain - 3 ELSE 0
           room == DecisionLimit - used
           c == Choice(ts, room, 5, part)
<1>1. Len(window) \in Nat /\ Len(window) > 0
  BY Entries, EmptySeq
<1>2. ts \in Seq(Spoken) /\ ts # <<>> /\ Last(ts) = Last(window)
  BY <1>1, Numbers, Newest
<1>3. DecisionNote \in Nat /\ DecisionNote <= DecisionLimit \div 4 /\ DecisionLimit \div 4 \in Nat
  BY Numbers DEF DecisionNote
<1>4. DecisionMemory \in Nat /\ DecisionMemory <= DecisionLimit - LiveReserve + 1
  <2>1. LiveReserve \in Nat /\ DecisionLimit \in Nat /\ 2 * LiveReserve <= DecisionLimit
    BY ContextAssumption, Numbers
  <2> QED
    BY <2>1 DEF DecisionMemory
<1>5. used \in Nat /\ remain \in Int /\ remain > 40
  <2>1. DecisionLimit \div 4 + 40 + 4 < LiveReserve
    BY ContextAssumption
  <2> QED
    BY <1>3, <1>4, <2>1, Numbers
<1>6. part \in Nat /\ part > 37 /\ part = room - 4 /\ room \in Int
  BY <1>5, Numbers
<1>7. DecisionTurns = c
  BY DEF DecisionTurns, Choice
<1> HIDE DEF ts, part, remain, room
<1>8. /\ c \in Seq(Heard) /\ c # <<>> /\ Last(c).at = Last(ts).at /\ Last(c).len \in Nat
      /\ \/ Total(c, 5) <= room /\ Last(c).len = Last(ts).len
         \/ Total(c, 5) <= part + 5 /\ Last(c).len = part
  <2>1. ts \in Seq(Spoken) /\ ts # <<>> /\ room \in Int /\ 5 \in Nat /\ part \in Nat /\ part > 0
    BY <1>2, <1>6
  <2> QED
    BY <2>1, Chosen
<1> HIDE DEF c
<1>9. Total(c, 5) \in Nat /\ Total(c, 5) >= 5
  <2>1. Len(c) \in Nat /\ Len(c) > 0
    BY <1>8, Entries, EmptySeq
  <2> QED
    BY <1>8, <2>1, Totals
<1>10. DecisionLength <= used + Total(c, 5) + 1 /\ DecisionLength \in Int
  <2> DEFINE total == Total(c, 5)
             line(n) == IF n > 0 THEN n + 1 ELSE 0
             sum == line(DecisionNote) + line(DecisionMemory) + line(total - 1)
  <2>1. DecisionLength = IF sum = 0 THEN 0 ELSE sum - 1
    BY <1>7, <1>8 DEF DecisionLength
  <2>2. line(DecisionNote) \in Nat /\ line(DecisionNote) <= DecisionNote + 1
    BY <1>3
  <2>3. line(DecisionMemory) \in Nat /\ line(DecisionMemory) <= DecisionMemory + 1
    BY <1>4
  <2>4. line(total - 1) = total /\ total \in Nat
    BY <1>9
  <2> HIDE DEF line, total
  <2>5. sum \in Nat /\ sum <= DecisionNote + DecisionMemory + 2 + total
    BY <1>3, <1>4, <2>2, <2>3, <2>4, SMTT(30)
  <2> HIDE DEF sum
  <2>6. DecisionLength <= DecisionNote + DecisionMemory + total + 1 /\ DecisionLength \in Int
    BY <1>3, <1>4, <2>1, <2>4, <2>5
  <2> QED
    BY <2>6 DEF total
<1>11. Last(window).len \in Nat /\ Last(window).len > 0
  <2>1. Len(window) \in 1 .. Len(window)
    BY <1>1
  <2>2. Last(window) \in Spoken
    BY <2>1, Entries DEF Last
  <2> QED
    BY <2>2, Numbers DEF Spoken
<1>12. DecisionLength - Last(c).len < DecisionLimit \/ Last(window).len = 1
  <2> DEFINE length == DecisionLength
             total == Total(c, 5)
             newest == Last(c).len
  <2>1. /\ length \in Int /\ total \in Nat /\ newest \in Nat /\ used \in Nat /\ DecisionLimit \in Nat
        /\ length <= used + total + 1
    BY <1>5, <1>8, <1>9, <1>10, Numbers
  <2>2. room = DecisionLimit - used /\ part = room - 4 /\ part > 37
    BY <1>6 DEF room
  <2>3. ASSUME total <= room, newest = Last(window).len
        PROVE  length - newest < DecisionLimit \/ Last(window).len = 1
    <3> HIDE DEF length, total, newest, used
    <3>1. Last(window).len = 1 \/ newest >= 2
      BY <1>11, <2>3
    <3> QED
      BY <2>1, <2>2, <2>3, <3>1
  <2>4. ASSUME total <= part + 5, newest = part
        PROVE  length - newest < DecisionLimit
    <3> HIDE DEF length, total, newest, used
    <3> QED
      BY <2>1, <2>2, <2>4
  <2>5. Last(ts) = Last(window)
    BY <1>2
  <2> QED
    BY <1>8, <2>3, <2>4, <2>5
<1> QED
  BY <1>2, <1>7, <1>8, <1>12

LEMMA AnswerShows ==
    ASSUME window \in Seq(Spoken), window # <<>>, summary \in Nat
    PROVE  \E i \in DOMAIN AnswerMessages(1) : AnswerMessages(1)[i].at = Last(window).at
<1> DEFINE kept == LastN(window, TurnsInContext)
           ts == LastN(kept, 12)
           c == Choice(ts, AnswerLimit, 0, AnswerLimit)
<1>1. Len(window) \in Nat /\ Len(window) > 0
  BY Entries, EmptySeq
<1>2. kept \in Seq(Spoken) /\ kept # <<>> /\ Last(kept) = Last(window)
  BY <1>1, Numbers, Newest
<1> HIDE DEF kept
<1>3. Len(kept) \in Nat /\ Len(kept) > 0
  BY <1>2, Entries, EmptySeq
<1>4. ts \in Seq(Spoken) /\ ts # <<>> /\ Last(ts) = Last(window)
  BY <1>2, <1>3, Newest
<1>5. AnswerLimit \in Nat /\ AnswerLimit \in Int /\ AnswerLimit > 0
  BY ContextAssumption, Numbers
<1> HIDE DEF ts
<1>6. c \in Seq(Heard) /\ c # <<>> /\ Last(c).at = Last(ts).at
  <2>1. ts \in Seq(Spoken) /\ ts # <<>> /\ 0 \in Nat
    BY <1>4
  <2> QED
    BY <1>5, <2>1, Chosen, ZenonT(60)
<1>7. AnswerTurns = c
  BY DEF AnswerTurns, ts, kept, Choice
<1> HIDE DEF c
<1>8. Len(c) \in Nat /\ Len(c) > 0 /\ DOMAIN c = 1 .. Len(c) /\ Last(c) = c[Len(c)]
  BY <1>6, Entries, EmptySeq DEF Last
<1> DEFINE said == [i \in 1 .. Len(c) |-> TurnMessage(c[i])]
           cap == (DecisionLimit * 5) \div 9
           memory == IF summary = 0 THEN <<>>
                     ELSE <<Text("memory", IF summary > cap THEN cap + 1 ELSE summary)>>
           front == <<Text("system", 0)>> \o memory
           end == Text("user", 1)
<1>9. /\ said \in Seq(Message) /\ Len(said) = Len(c) /\ said[Len(c)].at = Last(c).at
  BY <1>6, <1>8, TurnMessages
<1>10. front \in Seq(Message) /\ Len(front) \in Nat
  <2>1. cap \in Nat
    BY Numbers
  <2> HIDE DEF cap
  <2>2. /\ Text("system", 0) \in Message
        /\ Text("memory", IF summary > cap THEN cap + 1 ELSE summary) \in Message
    BY <2>1, Texts
  <2>3. <<Text("system", 0)>> \in Seq(Message) /\ memory \in Seq(Message)
    BY <2>2
  <2> HIDE DEF memory
  <2>4. front \in Seq(Message)
    BY <2>3, ConcatProperties
  <2> QED
    BY <2>4, Entries
<1>11. end \in Message
  BY Texts
<1>12. AnswerMessages(1) = (front \o said) \o <<end>>
  BY <1>7, <1>8 DEF AnswerMessages
<1> HIDE DEF front, said, end
<1>13. PICK n \in 1 .. Len(said) : n = Len(c)
  <2>1. Len(said) = Len(c)
    BY <1>9
  <2>2. Len(c) \in 1 .. Len(c)
    BY <1>8
  <2> QED
    BY <2>1, <2>2
<1>14. \E i \in DOMAIN ((front \o said) \o <<end>>) : ((front \o said) \o <<end>>)[i] = said[n]
  BY <1>9, <1>10, <1>11, Amid
<1> QED
  BY <1>4, <1>6, <1>9, <1>12, <1>13, <1>14

LEMMA WorkerShows ==
    ASSUME window \in Seq(Spoken), window # <<>>, Len(window) <= 2 * WindowRounds, summary \in Nat
    PROVE  \E i \in DOMAIN WorkerMessages : WorkerMessages[i].at = Last(window).at
<1> DEFINE kept == LastN(window, TurnsInContext)
           c == LastN(kept, 2 * WindowRounds)
<1>1. Len(window) \in Nat /\ Len(window) > 0 /\ 2 * WindowRounds \in Nat /\ 2 * WindowRounds > 0
  BY Numbers, Entries, EmptySeq
<1>2. kept \in Seq(Spoken) /\ kept # <<>> /\ Last(kept) = Last(window)
  BY <1>1, Numbers, Newest
<1> HIDE DEF kept
<1>3. Len(kept) \in Nat /\ Len(kept) > 0
  BY <1>2, Entries, EmptySeq
<1>4. c \in Seq(Spoken) /\ c # <<>> /\ Last(c) = Last(window) /\ Len(c) <= 2 * WindowRounds
  <2>1. /\ c \in Seq(Spoken) /\ Len(c) = IF Len(kept) > 2 * WindowRounds THEN 2 * WindowRounds ELSE Len(kept)
        /\ c # <<>> /\ Last(c) = Last(kept)
    BY <1>1, <1>2, <1>3, Newest
  <2> HIDE DEF c
  <2> QED
    BY <1>1, <1>2, <1>3, <2>1
<1> HIDE DEF c
<1>5. c \in Seq(Heard) /\ Len(c) \in Nat /\ Len(c) > 0 /\ DOMAIN c = 1 .. Len(c)
  BY <1>4, Entries, EmptySeq, SpokenIsHeard
<1> DEFINE said == [i \in 1 .. Len(c) |-> TurnMessage(c[i])]
           memory == IF summary = 0 THEN <<>> ELSE <<Text("memory", summary)>>
           front == <<Text("system", 0)>> \o memory
           m == front \o said
<1>6. said \in Seq(Message) /\ Len(said) = Len(c) /\ said[Len(c)].at = Last(c).at
  BY <1>4, <1>5, TurnMessages
<1>7. front \in Seq(Message) /\ Len(front) \in {1, 2} /\ front[1] = Text("system", 0)
  <2>1. Text("system", 0) \in Message /\ Text("memory", summary) \in Message
    BY Texts
  <2>2. <<Text("system", 0)>> \in Seq(Message) /\ Len(<<Text("system", 0)>>) = 1
        /\ <<Text("system", 0)>>[1] = Text("system", 0) /\ memory \in Seq(Message) /\ Len(memory) \in {0, 1}
    BY <2>1
  <2> HIDE DEF memory
  <2> QED
    BY <2>2, ConcatProperties, SMTT(30)
<1> HIDE DEF front, said
<1>8. /\ m \in Seq(Message) /\ Len(m) = Len(front) + Len(said)
      /\ \A k \in 1 .. Len(front) + Len(said) :
            m[k] = IF k <= Len(front) THEN front[k] ELSE said[k - Len(front)]
  <2>1. front \in Seq(Message) /\ said \in Seq(Message)
    BY <1>6, <1>7
  <2> QED
    BY <2>1, ConcatProperties
<1>9. WorkerMessages = CompressHistory(m)
  <2>1. [i \in DOMAIN c |-> TurnMessage(c[i])] = said
    BY <1>5 DEF said
  <2>2. front \o said = <<Text("system", 0)>> \o memory \o said
    BY DEF front
  <2> QED
    BY <2>1, <2>2 DEF WorkerMessages, kept, c
<1> HIDE DEF m
<1>10. Len(m) \in Nat /\ Len(m) > 0 /\ m # <<>> /\ m[1] = Text("system", 0) /\ Len(m) - 1 <= KeepMessages
  <2>0. m \in Seq(Message) /\ Len(m) = Len(front) + Len(c) /\ Len(front) \in {1, 2}
    BY <1>6, <1>7, <1>8
  <2>1. Len(m) \in Nat /\ Len(front) <= 2 /\ Len(front) >= 1 /\ Len(front) \in Nat
        /\ Len(m) = Len(front) + Len(c)
    <3>1. Len(m) \in Nat
      BY <2>0, Entries
    <3>2. \A n \in {1, 2} : n <= 2 /\ n >= 1 /\ n \in Nat
      OBVIOUS
    <3>3. Len(front) <= 2 /\ Len(front) >= 1 /\ Len(front) \in Nat
      BY <2>0, <3>2, Zenon
    <3> QED
      BY <2>0, <3>1, <3>3, Zenon
  <2>2. 2 * WindowRounds + 2 <= KeepMessages
    BY ContextAssumption
  <2>3. Len(m) - 1 <= KeepMessages /\ Len(m) > 0
    BY <1>1, <1>4, <1>5, <2>1, <2>2, Numbers
  <2>4. 1 \in 1 .. Len(front) + Len(said) /\ 1 <= Len(front)
    BY <1>5, <1>6, <2>1
  <2>5. m[1] = front[1]
    BY <1>8, <2>4
  <2> QED
    BY <1>7, <1>8, <2>1, <2>3, <2>5, EmptySeq
<1>11. WorkerMessages = m
  <2> DEFINE head == IF m # <<>> /\ m[1].role = "system" THEN <<m[1]>> ELSE <<>>
             rest == SubSeq(m, Len(head) + 1, Len(m))
  <2>1. head = <<m[1]>>
    BY <1>10 DEF Text
  <2>2. Len(head) = 1
    BY <2>1
  <2>3. Len(rest) <= KeepMessages
    <3>1. 2 \in 1 .. Len(m) + 1 /\ Len(m) \in 2 - 1 .. Len(m) /\ Len(m) - 2 + 1 = Len(m) - 1
      BY <1>10
    <3>2. Len(SubSeq(m, 2, Len(m))) = Len(m) - 2 + 1
      BY <1>8, <3>1, Slice
    <3>3. rest = SubSeq(m, 2, Len(m))
      BY <2>2
    <3> QED
      BY <1>10, <3>1, <3>2, <3>3
  <2> HIDE DEF head, rest
  <2>4. CompressHistory(m) = IF Len(rest) <= KeepMessages THEN m
                             ELSE head \o <<Text("user", 0)>> \o LastN(rest, KeepMessages)
    BY DEF CompressHistory, head, rest
  <2> QED
    BY <1>9, <2>3, <2>4
<1>12. PICK n \in 1 .. Len(said) : n = Len(c)
  <2>1. Len(said) = Len(c)
    BY <1>6
  <2>2. Len(c) \in 1 .. Len(c)
    BY <1>5
  <2> QED
    BY <2>1, <2>2
<1>13. PICK k \in 1 .. Len(m) : m[k] = said[n]
  <2>1. Len(front) \in Nat /\ Len(said) \in Nat
    BY <1>6, <1>7, Entries
  <2>2. /\ Len(front) + n \in 1 .. Len(front) + Len(said) /\ ~(Len(front) + n <= Len(front))
        /\ Len(front) + n - Len(front) = n
    BY <2>1
  <2>3. m[Len(front) + n] = said[n]
    BY <1>8, <2>2
  <2> QED
    BY <1>8, <2>2, <2>3
<1>14. DOMAIN m = 1 .. Len(m)
  BY <1>8, Entries
<1> QED
  BY <1>4, <1>6, <1>11, <1>12, <1>13, <1>14

-----------------------------------------------------------------------------
(***************************************************************************)
(* The messages of a step.                                                 *)
(***************************************************************************)
\* The call of a step, its number in it.
Call(g) == [Text("assistant", 0) EXCEPT !.id = g]
\* The calls of the round with their results, in order.
StepMessage == [role : {"assistant", "tool"}, id : Nat, kind : {"text", "rows", "error", "meta", "plain"},
         size : Nat, rows : Nat, at : {0}]
Group(g, s) ==
    /\ Len(s) = 2 /\ s \in Seq(StepMessage) /\ s[1] = Call(g)
    /\ s[2].role = "tool" /\ s[2].id = g /\ s[2].kind # "text"

\* compress_tool_message leaves a result's name and kind, an error's text, and
\* no more of anything else than the limit of its kind.
LEMMA Compacted ==
    ASSUME NEW m \in StepMessage, m.role = "tool", m.kind # "text"
    PROVE  /\ Compact(m) \in Message /\ Compact(m).role = "tool" /\ Compact(m).id = m.id
           /\ Compact(m).kind = m.kind /\ (m.kind = "error" => Compact(m).size = m.size)
           /\ m.kind # "error" => Compact(m).size <= IF m.kind = "meta" THEN MetaLimit ELSE ResultLimit
<1> DEFINE few == IF m.rows > RowLimit THEN RowLimit ELSE m.rows
           short == m.size - (m.rows - few) * RowLength
           cap == IF m.kind = "rows" THEN ResultLimit ELSE MetaLimit
           size == IF short > cap THEN cap ELSE short
<1>1. /\ ResultLimit \in Nat /\ MetaLimit \in Nat /\ ResultLimit <= MetaLimit /\ RowLimit \in Nat
      /\ RowLength \in Nat
  BY ContextAssumption
<1>2. /\ m.role \in {"assistant", "tool"} /\ m.id \in Nat /\ m.kind \in {"rows", "error", "meta", "plain"}
      /\ m.size \in Nat /\ m.rows \in Nat /\ m.at = 0
      /\ m = [role |-> m.role, id |-> m.id, kind |-> m.kind, size |-> m.size, rows |-> m.rows, at |-> m.at]
  BY DEF StepMessage
<1>3. few \in Nat
  BY <1>1, <1>2
<1> HIDE DEF few
<1>4. short \in Int
  BY <1>1, <1>2, <1>3
<1> HIDE DEF short
<1>5. size \in Int /\ size <= cap
  BY <1>1, <1>4
<1>7. CASE m.size <= ResultLimit \/ m.kind = "error"
  <2>1. Compact(m) = m
    BY <1>1, <1>2, <1>7 DEF Compact
  <2>2. m \in Message
    BY <1>2 DEF Message
  <2> QED
    BY <1>1, <1>2, <1>7, <2>1, <2>2
<1>8. CASE m.size > ResultLimit /\ m.kind = "plain"
  <2>1. Compact(m) = [m EXCEPT !.size = ResultLimit]
    BY <1>1, <1>2, <1>8 DEF Compact
  <2> QED
    BY <1>1, <1>2, <1>8, <2>1 DEF Message
<1>9. CASE m.size > ResultLimit /\ m.kind \in {"rows", "meta"}
  <2>1. Compact(m) = [m EXCEPT !.rows = few, !.size = size]
    BY <1>1, <1>2, <1>9 DEF Compact, few, short
  <2> HIDE DEF size, cap
  <2>2. Compact(m) = [role |-> m.role, id |-> m.id, kind |-> m.kind, size |-> size, rows |-> few, at |-> m.at]
    BY <1>2, <2>1
  <2>3. Compact(m) \in Message
    BY <1>2, <1>3, <1>5, <2>2 DEF Message
  <2>4. cap \in Nat /\ cap <= IF m.kind = "meta" THEN MetaLimit ELSE ResultLimit
    BY <1>1, <1>9 DEF cap
  <2> QED
    BY <1>1, <1>5, <1>9, <2>2, <2>3, <2>4
<1> QED
  BY <1>1, <1>2, <1>7, <1>8, <1>9

\* The steps' messages, as they are sent.
Sendable(gs) ==
    [k \in 1 .. 2 * Len(gs) |->
        LET group == gs[(k + 1) \div 2]
        IN  IF k % 2 = 1 THEN group[1] ELSE Compact(group[2])]
Grouped(gs) == gs \in Seq(Seq(StepMessage)) /\ \A g \in DOMAIN gs : Group(g, gs[g])

\* Every call is sent with its result, compacted, behind it.
LEMMA Sent ==
    ASSUME NEW gs, Grouped(gs)
    PROVE  /\ Sendable(gs) \in Seq(Message) /\ Len(Sendable(gs)) = 2 * Len(gs) /\ Len(gs) \in Nat
           /\ \A g \in 1 .. Len(gs) : /\ Sendable(gs)[2 * g - 1] = Call(g)
                                      /\ Sendable(gs)[2 * g] = Compact(gs[g][2])
<1>1. Len(gs) \in Nat /\ \A g \in 1 .. Len(gs) : Group(g, gs[g]) /\ gs[g] \in Seq(StepMessage)
  BY Entries DEF Grouped
<1> DEFINE Stands(k) == IF k % 2 = 1 THEN gs[(k + 1) \div 2][1] ELSE Compact(gs[(k + 1) \div 2][2])
<1>2. Sendable(gs) = [k \in 1 .. 2 * Len(gs) |-> Stands(k)]
  BY DEF Sendable
<1>3. ASSUME NEW g \in 1 .. Len(gs)
      PROVE  gs[g][1] = Call(g) /\ Call(g) \in Message /\ Compact(gs[g][2]) \in Message
  <2>1. /\ Len(gs[g]) = 2 /\ gs[g] \in Seq(StepMessage) /\ gs[g][1] = Call(g)
        /\ gs[g][2].role = "tool" /\ gs[g][2].kind # "text"
    BY <1>1 DEF Group
  <2>2. gs[g][2] \in StepMessage
    BY <2>1, Entries
  <2>3. Call(g) \in Message
    <3>1. g \in Nat
      BY <1>1
    <3> QED
      BY <3>1 DEF Call, Text, Message
  <2> QED
    BY <2>1, <2>2, <2>3, Compacted
<1>4. \A k \in 1 .. 2 * Len(gs) : (k + 1) \div 2 \in 1 .. Len(gs)
  BY <1>1
<1>5. \A k \in 1 .. 2 * Len(gs) : Stands(k) \in Message
  BY <1>3, <1>4
<1>6. \A g \in 1 .. Len(gs) : /\ 2 * g - 1 \in 1 .. 2 * Len(gs) /\ 2 * g \in 1 .. 2 * Len(gs)
                              /\ (2 * g - 1) % 2 = 1 /\ (2 * g) % 2 = 0
                              /\ (2 * g - 1 + 1) \div 2 = g /\ (2 * g + 1) \div 2 = g
  BY <1>1
<1>7. \A g \in 1 .. Len(gs) : /\ Stands(2 * g - 1) = gs[g][1] /\ Stands(2 * g) = Compact(gs[g][2])
  BY <1>6
<1> HIDE DEF Stands
<1>8. 2 * Len(gs) \in Nat
  BY <1>1
<1>9. Sendable(gs) \in Seq(Message) /\ Len(Sendable(gs)) = 2 * Len(gs)
  BY <1>2, <1>5, <1>8, IsASeq, LenProperties
<1>10. \A g \in 1 .. Len(gs) : /\ Sendable(gs)[2 * g - 1] = Call(g)
                               /\ Sendable(gs)[2 * g] = Compact(gs[g][2])
  BY <1>2, <1>3, <1>6, <1>7
<1> QED
  BY <1>1, <1>9, <1>10

\* What stands before the steps: the system text, the window and the question.
Opening(first, w, ask) == <<first>> \o [i \in DOMAIN w |-> TurnMessage(w[i])] \o <<Text("user", ask)>>

\* The opening's messages, of which only the first depends on the state.
LEMMA OpeningIs ==
    ASSUME NEW first \in Message, NEW w \in Seq(Spoken), NEW ask \in Int
    PROVE  /\ Opening(first, w, ask) \in Seq(Message) /\ Len(Opening(first, w, ask)) = Len(w) + 2
           /\ Len(w) \in Nat
           /\ \A i \in 2 .. Len(w) + 2 :
                 Opening(first, w, ask)[i] = ([k \in DOMAIN w |-> TurnMessage(w[k])] \o <<Text("user", ask)>>)[i - 1]
<1> DEFINE said == [i \in DOMAIN w |-> TurnMessage(w[i])]
           question == Text("user", ask)
<1>1. Len(w) \in Nat /\ DOMAIN w = 1 .. Len(w) /\ \A i \in 1 .. Len(w) : w[i] \in Heard
  BY Entries, SpokenIsHeard
<1>2. said \in Seq(Message) /\ Len(said) = Len(w)
  <2>1. \A i \in 1 .. Len(w) : TurnMessage(w[i]) \in Message
    <3>1. ASSUME NEW t \in Heard PROVE TurnMessage(t) \in Message
      <4>1. t.role \in {"user", "assistant"} /\ t.len \in Int /\ t.at \in Nat
        BY DEF Heard
      <4>2. TurnMessage(t) = [role |-> t.role, id |-> 0, kind |-> "text", size |-> t.len, rows |-> 0,
                              at |-> t.at]
        BY DEF TurnMessage, Text
      <4> QED
        BY <4>1, <4>2 DEF Message
    <3> QED
      BY <1>1, <3>1
  <2>2. said \in Seq(Message)
    BY <1>1, <2>1, IsASeq
  <2> QED
    BY <1>1, <2>2, LenProperties
<1>3. question \in Message
  BY Texts
<1> HIDE DEF said, question
<1> DEFINE rest == said \o <<question>>
<1>4. rest \in Seq(Message) /\ Len(rest) = Len(w) + 1
  <2>1. <<question>> \in Seq(Message) /\ Len(<<question>>) = 1
    BY <1>3
  <2> QED
    BY <1>2, <2>1, ConcatProperties
<1>5. <<first>> \in Seq(Message) /\ Len(<<first>>) = 1
  OBVIOUS
<1>6. Opening(first, w, ask) = <<first>> \o rest
  <2>1. <<first>> \o said \o <<question>> = <<first>> \o (said \o <<question>>)
    BY <1>2, <1>3, <1>5
  <2> QED
    BY <2>1 DEF Opening, said, question
<1> HIDE DEF rest
<1>7. /\ <<first>> \o rest \in Seq(Message) /\ Len(<<first>> \o rest) = 1 + Len(rest)
      /\ \A i \in 1 .. 1 + Len(rest) : (<<first>> \o rest)[i] = IF i <= 1 THEN <<first>>[i] ELSE rest[i - 1]
  BY <1>4, <1>5, ConcatProperties
<1>8. \A i \in 2 .. Len(w) + 2 : i \in 1 .. 1 + (Len(w) + 1) /\ ~(i <= 1)
  BY <1>1
<1>9. \A i \in 2 .. Len(w) + 2 : (<<first>> \o rest)[i] = rest[i - 1]
  BY <1>4, <1>7, <1>8
<1>10. rest = [k \in DOMAIN w |-> TurnMessage(w[k])] \o <<Text("user", ask)>>
  BY DEF rest, said, question
<1>11. 1 + (Len(w) + 1) = Len(w) + 2
  BY <1>1
<1> QED
  BY <1>1, <1>4, <1>6, <1>7, <1>9, <1>10, <1>11

\* Messages that come later leave what was sent where it was.
LEMMA LaterExtends ==
    ASSUME NEW gs, Grouped(gs), NEW hs, Grouped(hs), Len(gs) <= Len(hs),
           \A g \in 1 .. Len(gs) : hs[g] = gs[g],
           NEW a \in Seq(Message), NEW b \in Seq(Message), Len(a) = Len(b), Len(a) > 0,
           \A i \in 2 .. Len(a) : a[i] = b[i]
    PROVE  IsPrefix(Tail(a \o Sendable(gs)), Tail(b \o Sendable(hs)))
<1> DEFINE s == a \o Sendable(gs)
           t == b \o Sendable(hs)
<1>1. /\ Sendable(gs) \in Seq(Message) /\ Len(Sendable(gs)) = 2 * Len(gs) /\ Len(gs) \in Nat
      /\ \A g \in 1 .. Len(gs) : /\ Sendable(gs)[2 * g - 1] = Call(g)
                                 /\ Sendable(gs)[2 * g] = Compact(gs[g][2])
  BY Sent
<1>2. /\ Sendable(hs) \in Seq(Message) /\ Len(Sendable(hs)) = 2 * Len(hs) /\ Len(hs) \in Nat
      /\ \A g \in 1 .. Len(hs) : /\ Sendable(hs)[2 * g - 1] = Call(g)
                                 /\ Sendable(hs)[2 * g] = Compact(hs[g][2])
  BY Sent
<1>3. \A k \in 1 .. 2 * Len(gs) : Sendable(gs)[k] = Sendable(hs)[k]
  <2> SUFFICES ASSUME NEW k \in 1 .. 2 * Len(gs) PROVE Sendable(gs)[k] = Sendable(hs)[k]
    OBVIOUS
  <2>1. PICK g \in 1 .. Len(gs) : k = 2 * g - 1 \/ k = 2 * g
    <3>1. (k + 1) \div 2 \in 1 .. Len(gs) /\ (k = 2 * ((k + 1) \div 2) - 1 \/ k = 2 * ((k + 1) \div 2))
      BY <1>1
    <3> QED
      BY <3>1
  <2>2. g \in 1 .. Len(hs)
    BY <1>1, <1>2
  <2>3. hs[g] = gs[g]
    OBVIOUS
  <2>4. /\ Sendable(gs)[2 * g - 1] = Sendable(hs)[2 * g - 1]
        /\ Sendable(gs)[2 * g] = Sendable(hs)[2 * g]
    <3>1. /\ Sendable(gs)[2 * g - 1] = Call(g) /\ Sendable(gs)[2 * g] = Compact(gs[g][2])
      BY <1>1
    <3>2. /\ Sendable(hs)[2 * g - 1] = Call(g) /\ Sendable(hs)[2 * g] = Compact(hs[g][2])
      BY <1>2, <2>2
    <3> QED
      BY <2>3, <3>1, <3>2, Zenon
  <2> QED
    BY <2>1, <2>4, Zenon
<1>4. /\ s \in Seq(Message) /\ Len(s) = Len(a) + 2 * Len(gs)
      /\ \A i \in 1 .. Len(a) + 2 * Len(gs) : s[i] = IF i <= Len(a) THEN a[i] ELSE Sendable(gs)[i - Len(a)]
  <2>1. /\ s \in Seq(Message) /\ Len(s) = Len(a) + Len(Sendable(gs))
        /\ \A i \in 1 .. Len(a) + Len(Sendable(gs)) :
              s[i] = IF i <= Len(a) THEN a[i] ELSE Sendable(gs)[i - Len(a)]
    <3>1. a \in Seq(Message) /\ Sendable(gs) \in Seq(Message)
      BY <1>1
    <3> HIDE DEF Sendable
    <3> QED
      BY <3>1, ConcatProperties
  <2> HIDE DEF s
  <2> QED
    BY <1>1, <2>1
<1>5. /\ t \in Seq(Message) /\ Len(t) = Len(b) + 2 * Len(hs)
      /\ \A i \in 1 .. Len(b) + 2 * Len(hs) : t[i] = IF i <= Len(b) THEN b[i] ELSE Sendable(hs)[i - Len(b)]
  <2>1. /\ t \in Seq(Message) /\ Len(t) = Len(b) + Len(Sendable(hs))
        /\ \A i \in 1 .. Len(b) + Len(Sendable(hs)) :
              t[i] = IF i <= Len(b) THEN b[i] ELSE Sendable(hs)[i - Len(b)]
    <3>1. b \in Seq(Message) /\ Sendable(hs) \in Seq(Message)
      BY <1>2
    <3> HIDE DEF Sendable
    <3> QED
      BY <3>1, ConcatProperties
  <2> HIDE DEF t
  <2> QED
    BY <1>2, <2>1
<1> HIDE DEF s, t
<1>6. Len(a) \in Nat /\ Len(s) > 0 /\ Len(t) > 0 /\ Len(s) <= Len(t) /\ Len(s) \in Nat /\ Len(t) \in Nat
  BY <1>1, <1>2, <1>4, <1>5, Entries
<1>7. \A i \in 2 .. Len(s) : s[i] = t[i]
  <2> SUFFICES ASSUME NEW i \in 2 .. Len(s) PROVE s[i] = t[i]
    OBVIOUS
  <2>0. i \in 1 .. Len(a) + 2 * Len(gs) /\ i \in 1 .. Len(b) + 2 * Len(hs)
    BY <1>1, <1>2, <1>4, <1>6
  <2>1. CASE i <= Len(a)
    <3>1. i \in 2 .. Len(a)
      BY <1>6, <2>1
    <3> QED
      BY <1>4, <1>5, <2>0, <2>1, <3>1
  <2>2. CASE ~(i <= Len(a))
    <3>1. i - Len(a) \in 1 .. 2 * Len(gs)
      BY <1>1, <1>6, <2>0, <2>2
    <3>2. s[i] = Sendable(gs)[i - Len(a)]
      BY <1>4, <2>0, <2>2
    <3>3. t[i] = Sendable(hs)[i - Len(a)]
      BY <1>5, <2>0, <2>2
    <3> QED
      BY <1>3, <3>1, <3>2, <3>3
  <2> QED
    BY <2>1, <2>2
<1>8. /\ Tail(s) \in Seq(Message) /\ Len(Tail(s)) = Len(s) - 1
      /\ \A i \in 1 .. Len(s) - 1 : Tail(s)[i] = s[i + 1]
  <2>1. s # <<>>
    BY <1>6, EmptySeq
  <2> QED
    BY <1>4, <1>6, <2>1, HeadTailProperties
<1>9. /\ Tail(t) \in Seq(Message) /\ Len(Tail(t)) = Len(t) - 1
      /\ \A i \in 1 .. Len(t) - 1 : Tail(t)[i] = t[i + 1]
  <2>1. t # <<>>
    BY <1>6, EmptySeq
  <2> QED
    BY <1>5, <1>6, <2>1, HeadTailProperties
<1> DEFINE u == Tail(s)
           v == Tail(t)
<1>10. /\ u \in Seq(Message) /\ v \in Seq(Message) /\ Len(u) \in Nat /\ Len(v) \in Nat /\ Len(u) <= Len(v)
       /\ \A i \in 1 .. Len(u) : u[i] = v[i]
  <2>1. \A i \in 1 .. Len(s) - 1 : i + 1 \in 2 .. Len(s) /\ i \in 1 .. Len(t) - 1
    BY <1>6
  <2> QED
    BY <1>6, <1>7, <1>8, <1>9, <2>1
<1> HIDE DEF u, v
<1>11. SubSeq(u, 1, Len(u)) = SubSeq(v, 1, Len(u))
  <2>1. 1 \in 1 .. Len(u) + 1 /\ Len(u) \in 1 - 1 .. Len(u) /\ 1 \in 1 .. Len(v) + 1 /\ Len(u) \in 1 - 1 .. Len(v)
        /\ Len(u) - 1 + 1 = Len(u)
    BY <1>10
  <2>2. /\ SubSeq(u, 1, Len(u)) \in Seq(Message) /\ Len(SubSeq(u, 1, Len(u))) = Len(u) - 1 + 1
        /\ \A i \in 1 .. Len(u) - 1 + 1 : SubSeq(u, 1, Len(u))[i] = u[1 + i - 1]
    BY <1>10, <2>1, Slice
  <2>3. /\ SubSeq(v, 1, Len(u)) \in Seq(Message) /\ Len(SubSeq(v, 1, Len(u))) = Len(u) - 1 + 1
        /\ \A i \in 1 .. Len(u) - 1 + 1 : SubSeq(v, 1, Len(u))[i] = v[1 + i - 1]
    BY <1>10, <2>1, Slice
  <2>4. \A i \in 1 .. Len(u) : 1 + i - 1 = i
    BY <1>10
  <2>5. \A i \in 1 .. Len(u) : SubSeq(u, 1, Len(u))[i] = SubSeq(v, 1, Len(u))[i]
    BY <1>10, <2>1, <2>2, <2>3, <2>4
  <2> QED
    BY <2>1, <2>2, <2>3, <2>5, SeqEqual
<1>12. IsPrefix(u, v)
  BY <1>10, <1>11 DEF IsPrefix
<1> QED
  BY <1>12 DEF u, v, s, t


-----------------------------------------------------------------------------
(***************************************************************************)
(* The invariant.                                                          *)
(***************************************************************************)
\* The inductive invariant: besides the types, that the running round is the last,
\* still without an answer; that the window was recent when it was read; that the
\* steps are calls with their results, in order; and what was sent is still a prefix.
ContextInv ==
    /\ talk \in Seq(PastRound) /\ Len(talk) <= MaxTalk /\ live \in BOOLEAN
    /\ (live => talk # <<>> /\ talk[Len(talk)].answer = 0)
    /\ summary \in Summaries \cup {0} /\ note \in 0 .. 24 + NoteLimit
    /\ window \in Seq(Spoken) /\ Len(window) <= 2 * WindowRounds /\ WindowIsRecent
    /\ Grouped(groups) /\ Len(groups) <= LoopSteps /\ layout \in 0 .. LoopSteps
    /\ (live \/ (sent = <<>> /\ groups = <<>>)) /\ LoopExtends

\* Lengths and counts of the state are numbers.
LEMMA ContextNaturals ==
    ASSUME ContextInv
    PROVE  summary \in Nat /\ note \in Nat /\ layout \in Nat
BY Numbers DEF ContextInv

\* A round starts without a step.
LEMMA NothingGrouped == Grouped(<<>>) /\ Len(<<>>) = 0 /\ Len(<<>>) <= LoopSteps
<1>1. <<>> \in Seq(Seq(StepMessage)) /\ Len(<<>>) = 0 /\ DOMAIN <<>> = {}
  OBVIOUS
<1> QED
  BY <1>1, Numbers DEF Grouped

\* No conversation yet.
LEMMA ContextStarts == ContextInit => ContextInv
<1> SUFFICES ASSUME ContextInit PROVE ContextInv
  OBVIOUS
<1>1. /\ talk = <<>> /\ live = FALSE /\ summary = 0 /\ note = 0 /\ window = <<>>
      /\ groups = <<>> /\ layout = 0 /\ sent = <<>>
  BY DEF ContextInit
<1>2. <<>> \in Seq(PastRound) /\ <<>> \in Seq(Spoken) /\ Len(<<>>) = 0
  OBVIOUS
<1>3. 0 <= MaxTalk /\ 0 <= 2 * WindowRounds /\ 0 \in 0 .. 24 + NoteLimit /\ 0 \in 0 .. LoopSteps
  BY Numbers
<1>4. WindowIsRecent /\ LoopExtends
  BY <1>1 DEF WindowIsRecent, LoopExtends
<1> QED
  BY <1>1, <1>2, <1>3, <1>4, NothingGrouped DEF ContextInv

\* A request reads its window.
LEMMA AskKept == ContextInv /\ Ask => ContextInv'
<1> SUFFICES ASSUME ContextInv, Ask PROVE ContextInv'
  OBVIOUS
<1>1. PICK length \in Lengths, memory \in Summaries :
          /\ talk' = Append(talk, [ask |-> length, answer |-> 0, charts |-> <<>>])
          /\ summary' = memory
          /\ note' = ChartNote(Append(talk, [ask |-> length, answer |-> 0, charts |-> <<>>]))
          /\ window' = ServerWindow(Append(talk, [ask |-> length, answer |-> 0, charts |-> <<>>]))
  BY DEF Ask
<1>2. /\ ~live /\ Len(talk) < MaxTalk /\ live' = TRUE
      /\ groups' = groups /\ layout' = layout /\ sent' = sent
  BY DEF Ask
<1>3. /\ talk \in Seq(PastRound) /\ sent = <<>> /\ Grouped(groups) /\ Len(groups) <= LoopSteps
      /\ layout \in 0 .. LoopSteps
  BY <1>2 DEF ContextInv
<1> DEFINE asked == [ask |-> length, answer |-> 0, charts |-> <<>>]
           rounds == Append(talk, asked)
<1>4. asked \in PastRound /\ asked.answer = 0
  BY DEF PastRound
<1> HIDE DEF asked
<1>5. /\ rounds \in Seq(PastRound) /\ Len(rounds) = Len(talk) + 1 /\ rounds[Len(talk) + 1] = asked
  BY <1>3, <1>4, Extended
<1>6. talk' = rounds /\ note' = ChartNote(rounds) /\ window' = ServerWindow(rounds)
  BY <1>1 DEF asked
<1> HIDE DEF rounds
<1>7. /\ Len(talk) \in Nat /\ Len(rounds) \in Nat /\ Len(rounds) > 0 /\ Len(rounds) <= MaxTalk
      /\ rounds[Len(rounds)].answer = 0 /\ rounds # <<>>
  <2>1. Len(talk) \in Nat
    BY <1>3, Entries
  <2>2. rounds[Len(rounds)] = asked
    BY <1>5
  <2>3. Len(rounds) \in Nat /\ Len(rounds) > 0 /\ Len(rounds) <= MaxTalk
    BY <1>2, <1>5, <2>1, Numbers
  <2> QED
    BY <1>4, <2>1, <2>2, <2>3, EmptySeq
<1>8. /\ ServerWindow(rounds) \in Seq(Spoken) /\ Len(ServerWindow(rounds)) <= 2 * WindowRounds
      /\ Len(rounds) > 1 =>
            /\ ServerWindow(rounds) # <<>> /\ ServerWindow(rounds)[1].role = "user"
            /\ Last(ServerWindow(rounds)).at = IF rounds[Len(rounds) - 1].answer = 0
                                               THEN 2 * (Len(rounds) - 1) - 1 ELSE 2 * (Len(rounds) - 1)
  BY <1>5, <1>7, WindowIs
<1>9. ChartNote(rounds) \in 0 .. 24 + NoteLimit
  BY <1>5, NoteIs
<1>10. WindowIsRecent'
  BY <1>6, <1>8 DEF WindowIsRecent
<1>11. LoopExtends'
  BY <1>2, <1>3 DEF LoopExtends
<1>12. Grouped(groups')
  BY <1>2, <1>3
<1> QED
  BY <1>1, <1>2, <1>3, <1>5, <1>6, <1>7, <1>8, <1>9, <1>10, <1>11, <1>12 DEF ContextInv

\* What is added behind the groups is a group.
LEMMA OneMore ==
    ASSUME NEW gs, Grouped(gs), NEW s, Group(Len(gs) + 1, s)
    PROVE  /\ Grouped(Append(gs, s)) /\ Len(Append(gs, s)) = Len(gs) + 1 /\ Len(gs) \in Nat
           /\ \A g \in 1 .. Len(gs) : Append(gs, s)[g] = gs[g]
<1>1. gs \in Seq(Seq(StepMessage)) /\ s \in Seq(StepMessage)
  BY DEF Grouped, Group
<1>2. Len(gs) \in Nat /\ DOMAIN gs = 1 .. Len(gs)
  BY <1>1, Entries
<1>3. /\ Append(gs, s) \in Seq(Seq(StepMessage)) /\ Len(Append(gs, s)) = Len(gs) + 1
      /\ \A i \in 1 .. Len(gs) : Append(gs, s)[i] = gs[i]
      /\ Append(gs, s)[Len(gs) + 1] = s
  BY <1>1, Extended
<1> DEFINE hs == Append(gs, s)
<1> HIDE DEF hs
<1>4. hs \in Seq(Seq(StepMessage)) => DOMAIN hs = 1 .. Len(hs)
  BY Entries
<1>5. \A g \in DOMAIN gs : Group(g, gs[g])
  BY DEF Grouped
<1>6. \A g \in DOMAIN hs : Group(g, hs[g])
  <2> SUFFICES ASSUME NEW g \in DOMAIN hs PROVE Group(g, hs[g])
    OBVIOUS
  <2>1. g \in 1 .. Len(gs) + 1
    BY <1>3, <1>4 DEF hs
  <2>2. CASE g \in 1 .. Len(gs)
    <3>1. hs[g] = gs[g] /\ Group(g, gs[g])
      BY <1>2, <1>3, <1>5, <2>2 DEF hs
    <3> QED
      BY <3>1
  <2>3. CASE g = Len(gs) + 1
    <3>1. hs[g] = s
      BY <1>3, <2>3 DEF hs
    <3> QED
      BY <2>3, <3>1
  <2>4. g \in 1 .. Len(gs) \/ g = Len(gs) + 1
    BY <1>2, <2>1
  <2> QED
    BY <2>2, <2>3, <2>4
<1>7. Grouped(hs)
  BY <1>3, <1>6 DEF Grouped, hs
<1> QED
  BY <1>2, <1>3, <1>7 DEF hs

\* What a step sends are messages, the state first.
LEMMA StateTextIs ==
    ASSUME ContextInv
    PROVE  StateText \in Message
BY ContextNaturals DEF StateText, Text, Message

LEMMA LoopIs ==
    ASSUME ContextInv, live
    PROVE  /\ Opening(StateText, window, Last(talk).ask) \in Seq(Message)
           /\ Len(Opening(StateText, window, Last(talk).ask)) = Len(window) + 2 /\ Len(window) \in Nat
           /\ LoopMessages = Opening(StateText, window, Last(talk).ask) \o Sendable(groups)
           /\ Last(talk).ask \in Int
<1>1. talk \in Seq(PastRound) /\ talk # <<>> /\ window \in Seq(Spoken)
  BY DEF ContextInv
<1>2. Last(talk) \in PastRound
  BY <1>1, Entries, EmptySeq DEF Last
<1>3. Last(talk).ask \in Int
  BY <1>2, Numbers DEF PastRound
<1>4. StateText \in Message
  BY StateTextIs
<1>5. /\ Opening(StateText, window, Last(talk).ask) \in Seq(Message)
      /\ Len(Opening(StateText, window, Last(talk).ask)) = Len(window) + 2 /\ Len(window) \in Nat
  BY <1>1, <1>3, <1>4, OpeningIs
<1>6. LoopMessages = Opening(StateText, window, Last(talk).ask) \o Sendable(groups)
  BY DEF LoopMessages, Opening, Sendable
<1> QED
  BY <1>3, <1>5, <1>6

\* What is sent now stands at the same places in the next step.
LEMMA LoopStepKept == ContextInv /\ LoopStep => ContextInv'
<1> SUFFICES ASSUME ContextInv, LoopStep PROVE ContextInv'
  OBVIOUS
<1>1. /\ live /\ Len(groups) < LoopSteps /\ sent' = LoopMessages
      /\ talk' = talk /\ live' = live /\ summary' = summary /\ note' = note /\ window' = window
  BY DEF LoopStep
<1> DEFINE call == Len(groups) + 1
           Pair(result) == <<[Text("assistant", 0) EXCEPT !.id = call],
                             [role |-> "tool", id |-> call, kind |-> result.kind,
                              size |-> result.size, rows |-> result.rows, at |-> 0]>>
<1>2. PICK result \in Results : groups' = Append(groups, Pair(result)) /\ layout' \in {call, layout}
  BY DEF LoopStep
<1>3. Grouped(groups) /\ layout \in 0 .. LoopSteps /\ LoopSteps \in Nat
  BY Numbers DEF ContextInv
<1>4. Len(groups) \in Nat
  BY <1>3, Entries DEF Grouped
<1>5. call \in Nat /\ call \in 0 .. LoopSteps
  BY <1>1, <1>3, <1>4
<1>6. Group(call, Pair(result))
  <2>1. Results \subseteq [kind : {"rows", "error", "meta", "plain"}, size : Nat, rows : Nat]
    BY ContextAssumption
  <2>2. result.kind \in {"rows", "error", "meta", "plain"} /\ result.size \in Nat /\ result.rows \in Nat
    BY <2>1
  <2> HIDE DEF call
  <2> DEFINE c == [Text("assistant", 0) EXCEPT !.id = call]
             r == [role |-> "tool", id |-> call, kind |-> result.kind,
                   size |-> result.size, rows |-> result.rows, at |-> 0]
  <2>3. c = [role |-> "assistant", id |-> call, kind |-> "text", size |-> 0, rows |-> 0, at |-> 0]
    BY DEF Text
  <2>4. c \in StepMessage
    BY <1>5, <2>3 DEF StepMessage
  <2>5. r \in StepMessage /\ r.role = "tool" /\ r.id = call /\ r.kind # "text"
    BY <1>5, <2>2 DEF StepMessage
  <2>6. c = Call(call)
    BY DEF Call
  <2> HIDE DEF c, r
  <2>7. <<c, r>> \in Seq(StepMessage) /\ Len(<<c, r>>) = 2 /\ <<c, r>>[1] = c /\ <<c, r>>[2] = r
    BY <2>4, <2>5
  <2>8. Group(call, <<c, r>>)
    BY <2>5, <2>6, <2>7 DEF Group
  <2> QED
    BY <2>8 DEF c, r
<1> HIDE DEF Pair
<1>7. /\ Grouped(groups') /\ Len(groups') = call
      /\ \A g \in 1 .. Len(groups) : groups'[g] = groups[g]
  BY <1>2, <1>3, <1>6, OneMore
<1>8. layout' \in 0 .. LoopSteps /\ layout' \in Nat
  BY <1>2, <1>3, <1>5
<1> DEFINE first == StateText
           later == StateText'
           ask == Last(talk).ask
           a == Opening(first, window, ask)
           b == Opening(later, window, ask)
<1>9. /\ a \in Seq(Message) /\ Len(a) = Len(window) + 2 /\ Len(window) \in Nat
      /\ LoopMessages = a \o Sendable(groups) /\ ask \in Int
  BY <1>1, LoopIs
<1>10. LoopMessages' = b \o Sendable(groups')
  BY <1>1 DEF LoopMessages, Opening, Sendable
<1>11. first \in Message /\ later \in Message
  <2>1. summary \in Nat /\ note \in Nat /\ layout' \in Nat
    BY <1>8, ContextNaturals
  <2>2. later \in Message
    BY <1>1, <2>1 DEF StateText, Text, Message
  <2> QED
    BY <2>2, StateTextIs
<1>12. window \in Seq(Spoken)
  BY DEF ContextInv
<1> HIDE DEF first, later, ask
<1>13. /\ b \in Seq(Message) /\ Len(b) = Len(window) + 2
       /\ \A i \in 2 .. Len(window) + 2 : a[i] = b[i]
  <2> DEFINE rest == [k \in DOMAIN window |-> TurnMessage(window[k])] \o <<Text("user", ask)>>
  <2>1. \A i \in 2 .. Len(window) + 2 : a[i] = rest[i - 1]
    BY <1>9, <1>11, <1>12, OpeningIs
  <2>2. /\ b \in Seq(Message) /\ Len(b) = Len(window) + 2
        /\ \A i \in 2 .. Len(window) + 2 : b[i] = rest[i - 1]
    BY <1>9, <1>11, <1>12, OpeningIs
  <2> HIDE DEF a, b, rest
  <2> QED
    BY <2>1, <2>2
<1> HIDE DEF a, b
<1>14. Len(a) = Len(b) /\ Len(a) > 0 /\ \A i \in 2 .. Len(a) : a[i] = b[i]
  BY <1>9, <1>13
<1>15. Len(groups) <= Len(groups')
  BY <1>4, <1>7
<1> DEFINE hs == groups'
<1>16. Grouped(hs) /\ Len(groups) <= Len(hs) /\ \A g \in 1 .. Len(groups) : hs[g] = groups[g]
  BY <1>7, <1>15
<1> HIDE DEF hs
<1>17. IsPrefix(Tail(a \o Sendable(groups)), Tail(b \o Sendable(hs)))
  BY <1>3, <1>9, <1>13, <1>14, <1>16, LaterExtends
<1>18. IsPrefix(Tail(sent'), Tail(LoopMessages'))
  BY <1>1, <1>9, <1>10, <1>17 DEF hs
<1>19. LoopExtends'
  BY <1>18 DEF LoopExtends
<1>20. WindowIsRecent'
  <2>1. WindowIsRecent
    BY DEF ContextInv
  <2> QED
    BY <1>1, <2>1 DEF WindowIsRecent
<1>21. Len(groups') <= LoopSteps
  BY <1>5, <1>7
<1> QED
  BY <1>1, <1>7, <1>8, <1>19, <1>20, <1>21 DEF ContextInv

\* The round's answer takes the place of the empty one.
LEMMA StoreAnswerKept == ContextInv /\ StoreAnswer => ContextInv'
<1> SUFFICES ASSUME ContextInv, StoreAnswer PROVE ContextInv'
  OBVIOUS
<1>1. /\ live /\ live' = FALSE /\ summary' = 0 /\ note' = 0 /\ window' = <<>>
      /\ groups' = <<>> /\ layout' = 0 /\ sent' = <<>>
  BY DEF StoreAnswer
<1>2. PICK length \in Lengths \cup {0}, charts \in Charts :
          talk' = [talk EXCEPT ![Len(talk)] = [@ EXCEPT !.answer = length, !.charts = charts]]
  BY DEF StoreAnswer
<1>3. talk \in Seq(PastRound) /\ talk # <<>> /\ Len(talk) <= MaxTalk
  BY <1>1 DEF ContextInv
<1>4. Len(talk) \in Nat /\ Len(talk) \in 1 .. Len(talk) /\ DOMAIN talk = 1 .. Len(talk)
      /\ \A i \in 1 .. Len(talk) : talk[i] \in PastRound
  BY <1>3, Entries, EmptySeq
<1> DEFINE told == [talk[Len(talk)] EXCEPT !.answer = length, !.charts = charts]
           rounds == [talk EXCEPT ![Len(talk)] = told]
<1>5. told \in PastRound
  <2>1. talk[Len(talk)] \in PastRound
    BY <1>4
  <2>2. charts \in Charts \cup {<<>>} /\ length \in Lengths \cup {0}
    OBVIOUS
  <2> QED
    BY <2>1, <2>2 DEF PastRound
<1> HIDE DEF told
<1>6. rounds \in Seq(PastRound) /\ Len(rounds) = Len(talk)
  BY <1>3, <1>4, <1>5, ExceptSeq
<1>7. talk' = rounds
  BY <1>2 DEF told
<1>8. <<>> \in Seq(Spoken) /\ Len(<<>>) = 0
  OBVIOUS
<1>9. 0 <= 2 * WindowRounds /\ 0 \in 0 .. 24 + NoteLimit /\ 0 \in 0 .. LoopSteps
  BY Numbers
<1>10. WindowIsRecent' /\ LoopExtends'
  BY <1>1 DEF WindowIsRecent, LoopExtends
<1> QED
  BY <1>1, <1>3, <1>6, <1>7, <1>8, <1>9, <1>10, NothingGrouped DEF ContextInv

\* Nothing of it depends on anything else.
LEMMA ContextStutters == ContextInv /\ UNCHANGED contextVars => ContextInv'
<1> SUFFICES ASSUME ContextInv, UNCHANGED contextVars PROVE ContextInv'
  OBVIOUS
<1>1. /\ talk' = talk /\ live' = live /\ summary' = summary /\ note' = note /\ window' = window
      /\ groups' = groups /\ layout' = layout /\ sent' = sent
  BY DEF contextVars
<1>2. StateText' = StateText
  BY <1>1 DEF StateText
<1>3. LoopMessages' = LoopMessages
  BY <1>1, <1>2 DEF LoopMessages
<1>4. LoopExtends' /\ WindowIsRecent'
  BY <1>1, <1>3 DEF ContextInv, LoopExtends, WindowIsRecent
<1> QED
  BY <1>1, <1>4 DEF ContextInv

\* So the invariant holds in every state.
LEMMA ContextStepKept == ContextInv /\ [ContextNext]_contextVars => ContextInv'
BY AskKept, LoopStepKept, StoreAnswerKept, ContextStutters DEF ContextNext

\* Every call stands before its result, and the result is cut by itself.
LEMMA ResultsDo == ContextInv /\ live => ResultsStand
<1> SUFFICES ASSUME ContextInv, live, NEW g \in DOMAIN groups
             PROVE  \E i \in DOMAIN LoopMessages :
                       LET call == LoopMessages[i]
                           result == LoopMessages[i + 1]
                       IN  /\ call.role = "assistant" /\ call.id = g /\ i < Len(LoopMessages)
                           /\ result.role = "tool" /\ result.id = g
                           /\ IF result.kind = "error" THEN result.size = groups[g][2].size
                              ELSE result.size <= IF result.kind = "meta" THEN MetaLimit ELSE ResultLimit
  BY DEF ResultsStand
<1> DEFINE a == Opening(StateText, window, Last(talk).ask)
           b == Sendable(groups)
<1>1. a \in Seq(Message) /\ LoopMessages = a \o b /\ Len(a) \in Nat
  BY LoopIs, Entries
<1>2. Grouped(groups)
  BY DEF ContextInv
<1>3. /\ b \in Seq(Message) /\ Len(b) = 2 * Len(groups) /\ Len(groups) \in Nat
      /\ \A k \in 1 .. Len(groups) : b[2 * k - 1] = Call(k) /\ b[2 * k] = Compact(groups[k][2])
  BY <1>2, Sent
<1> HIDE DEF a, b
<1>4. g \in 1 .. Len(groups) /\ Group(g, groups[g])
  BY <1>2, Entries DEF Grouped
<1> DEFINE m == groups[g][2]
<1>5. m \in StepMessage /\ m.role = "tool" /\ m.id = g /\ m.kind # "text"
  <2>1. Len(groups[g]) = 2 /\ groups[g] \in Seq(StepMessage)
    BY <1>4 DEF Group
  <2>2. \A i \in 1 .. Len(groups[g]) : groups[g][i] \in StepMessage
    BY <2>1, Entries
  <2>3. m \in StepMessage
    BY <2>1, <2>2
  <2> QED
    BY <1>4, <2>3 DEF Group
<1> HIDE DEF m
<1>6. /\ Compact(m).role = "tool" /\ Compact(m).id = m.id
      /\ Compact(m).kind = m.kind /\ (m.kind = "error" => Compact(m).size = m.size)
      /\ m.kind # "error" => Compact(m).size <= IF m.kind = "meta" THEN MetaLimit ELSE ResultLimit
  BY <1>5, Compacted
<1>7. /\ a \o b \in Seq(Message) /\ Len(a \o b) = Len(a) + Len(b)
      /\ \A i \in 1 .. Len(a) + Len(b) : (a \o b)[i] = IF i <= Len(a) THEN a[i] ELSE b[i - Len(a)]
  <2>1. a \in Seq(Message) /\ b \in Seq(Message)
    BY <1>1, <1>3
  <2> QED
    BY <2>1, ConcatProperties
<1> DEFINE t == a \o b
<1> HIDE DEF t
<1>8. PICK i \in 1 .. Len(a) + Len(b) : i = Len(a) + (2 * g - 1)
  <2>1. Len(a) + (2 * g - 1) \in 1 .. Len(a) + Len(b)
    BY <1>1, <1>3, <1>4
  <2> QED
    BY <2>1
<1>9. /\ i + 1 \in 1 .. Len(a) + Len(b) /\ ~(i <= Len(a)) /\ ~(i + 1 <= Len(a))
      /\ i - Len(a) = 2 * g - 1 /\ i + 1 - Len(a) = 2 * g /\ i < Len(a) + Len(b)
  BY <1>1, <1>3, <1>4, <1>8, SMTT(30)
<1>10. t[i] = b[2 * g - 1] /\ t[i + 1] = b[2 * g]
  BY <1>7, <1>9 DEF t
<1>11. t[i] = Call(g) /\ t[i + 1] = Compact(m)
  BY <1>3, <1>4, <1>10 DEF m
<1>12. Call(g).role = "assistant" /\ Call(g).id = g
  BY DEF Call, Text
<1>13. t \in Seq(Message) /\ Len(t) = Len(a) + Len(b) /\ LoopMessages = t /\ DOMAIN t = 1 .. Len(t)
  <2>1. t \in Seq(Message) /\ Len(t) = Len(a) + Len(b) /\ LoopMessages = t
    BY <1>1, <1>7 DEF t
  <2> QED
    BY <2>1, Entries
<1>14. i \in DOMAIN LoopMessages /\ i < Len(LoopMessages)
  BY <1>8, <1>9, <1>13
<1>15. /\ LoopMessages[i].role = "assistant" /\ LoopMessages[i].id = g
       /\ LoopMessages[i + 1] = Compact(m)
  BY <1>11, <1>12, <1>13
<1> DEFINE result == LoopMessages[i + 1]
<1>16. /\ result.role = "tool" /\ result.id = g
       /\ IF result.kind = "error" THEN result.size = m.size
          ELSE result.size <= IF result.kind = "meta" THEN MetaLimit ELSE ResultLimit
  BY <1>5, <1>6, <1>15
<1> HIDE DEF result
<1>17. m = groups[g][2]
  BY DEF m
<1> QED
  BY <1>14, <1>15, <1>16, <1>17 DEF result

-----------------------------------------------------------------------------
(***************************************************************************)
(* The theorems.                                                           *)
(***************************************************************************)
\* What the invariant says of the types, and of the four claims.
LEMMA ContextTyped == ContextInv => ContextTypeOK
BY DEF ContextInv, ContextTypeOK, PastRound

LEMMA ContextIsSound == ContextInv => ContextSound
<1> SUFFICES ASSUME ContextInv PROVE ContextSound
  OBVIOUS
<1>1. WindowIsRecent /\ LoopExtends
  BY DEF ContextInv
<1>2. NewestIsSeen
  <2> SUFFICES ASSUME window # <<>> PROVE NewestIsSeen
    BY DEF NewestIsSeen
  <2>1. window \in Seq(Spoken) /\ Len(window) <= 2 * WindowRounds
    BY DEF ContextInv
  <2>2. summary \in Nat /\ note \in Nat
    BY ContextNaturals
  <2>3. /\ DecisionTurns # <<>> /\ Last(DecisionTurns).at = Last(window).at
        /\ DecisionLength - Last(DecisionTurns).len < DecisionLimit \/ Last(window).len = 1
    BY <2>1, <2>2, DecisionShows
  <2>4. \E i \in DOMAIN AnswerMessages(1) : AnswerMessages(1)[i].at = Last(window).at
    BY <2>1, <2>2, AnswerShows
  <2>5. \E i \in DOMAIN WorkerMessages : WorkerMessages[i].at = Last(window).at
    BY <2>1, <2>2, WorkerShows
  <2> QED
    BY <2>3, <2>4, <2>5, Zenon DEF NewestIsSeen
<1>3. ResultsStand
  <2>1. CASE live
    BY <2>1, ResultsDo
  <2>2. CASE ~live
    <3>1. groups = <<>>
      BY <2>2 DEF ContextInv
    <3> QED
      BY <3>1 DEF ResultsStand
  <2>3. live \in BOOLEAN
    BY DEF ContextInv
  <2> QED
    BY <2>1, <2>2, <2>3
<1> QED
  BY <1>1, <1>2, <1>3 DEF ContextSound

\* The window, the note of charts and the loop keep their types and limits
\* (_load_server_window, _build_chart_summary_note, for_agent_loop).
THEOREM ContextTypeCorrect == ContextSpec => []ContextTypeOK
<1>1. ContextSpec => []ContextInv
  BY ContextStarts, ContextStepKept, PTL DEF ContextSpec
<1> QED
  BY <1>1, ContextTyped, PTL

\* services/context, whatever was said and remembered: the window ends with the
\* newest row that says something, the newest turn is seen by the supervisor, the
\* answer and the workers, what a step is sent only extends the step before, and
\* every call stands with its result, cut by itself and within its limit.
THEOREM ContextStaysSound == ContextSpec => []ContextSound
<1>1. ContextSpec => []ContextInv
  BY ContextStarts, ContextStepKept, PTL DEF ContextSpec
<1> QED
  BY <1>1, ContextIsSound, PTL
=============================================================================
