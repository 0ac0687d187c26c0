---------------------------- MODULE EventLog_proofs ----------------------------
(***************************************************************************)
(* Theorems of EventLog, for any readers, rounds, lengths, batches and     *)
(* time limits.  All rest on one inductive invariant, IInv.                *)
(***************************************************************************)
EXTENDS EventLog, Integers, SequenceTheorems, TLAPS

Flowing == {"running", "flush"}

\* The id before the first of the log, and how far into the log a reader is.
Base == lastId - Len(log)
Seen(c) == IF cursor[c] > Base THEN cursor[c] - Base ELSE 0

\* A write would be the first of its round.
Fresh == phase = "marked" \/ (phase # "over" /\ log = <<>>)

-----------------------------------------------------------------------------
(***************************************************************************)
(* The writer.  Counts bound log, buffer and ids by what was produced.     *)
(***************************************************************************)
Counted ==
    /\ phase # "over" => round > 0 /\ lastId + Len(buffer) + LastSeq <= round * LastSeq + made
    /\ lastId <= round * LastSeq
    /\ Len(log) <= lastId
    /\ phase \in {"marked", "cleared", "queued"} => made = 0
    /\ phase \in {"cleared", "queued"} => log = <<>>
    /\ phase = "running" => made <= Length
    /\ IF phase \in Flowing THEN Len(log) + Len(buffer) <= made ELSE buffer = <<>>
    /\ lost \subseteq 1 .. round

\* The log holds one round, with ids and, unless some were dropped, numbers
\* one after another; a done is its last entry.
Ordered ==
    /\ \A k \in 1 .. Len(log) :
          /\ log[k].id = Base + k
          /\ log[k].round \in 1 .. round
          /\ phase = "marked" => log[k].round < round
          /\ phase \in Flowing => log[k].round = round
          /\ log[k].round \notin lost => log[k].seq = k
          /\ log[k].done => /\ k = Len(log)
                            /\ phase \in Flowing => phase = "flush" /\ buffer = <<>>
    /\ \A i, k \in 1 .. Len(log) : log[i].round = log[k].round

\* The buffer goes on where the log stops.
Buffered ==
    /\ \A k \in 1 .. Len(buffer) :
          /\ buffer[k].round = round
          /\ buffer[k].done => k = Len(buffer) /\ phase = "flush"
          /\ round \notin lost => buffer[k].seq = Len(log) + k
    /\ phase \in Flowing /\ round \notin lost => made = Len(log) + Len(buffer)
    /\ phase = "flush" /\ round \notin lost =>
          IF buffer = <<>> THEN log # <<>> /\ log[Len(log)].done
                           ELSE buffer[Len(buffer)].done

(***************************************************************************)
(* The readers.  What a client has ends with the part of the log it has    *)
(* read; all before is of earlier rounds.                                  *)
(***************************************************************************)
Earlier(c) ==
    \A i \in 1 .. Len(got[c]) : Told(c, i) <= round /\ (Fresh => Told(c, i) < round)

Trailing(c) ==
    /\ Seen(c) <= Len(got[c])
    /\ \A i \in 1 .. Seen(c) : got[c][Len(got[c]) - Seen(c) + i] = log[i]
    /\ \A i \in 1 .. Len(got[c]) - Seen(c), k \in 1 .. Len(log) :
          Told(c, i) < log[k].round

Aligned(c) ==
    /\ cursor[c] <= lastId
    /\ at[c] \in {"away", "probe"} => got[c] = <<>> /\ cursor[c] = 0
    /\ at[c] # "ended" => Trailing(c)

\* A reader that found the task in the registry will find its done.
Awaited(c) ==
    /\ joined[c].round <= round
    /\ stop[c] = "registry" => at[c] \notin {"away", "probe"}
    /\ stop[c] = "registry" /\ joined[c].round = round =>
          /\ host = "api"
          /\ phase \in Flowing \cup {"over"}
          /\ phase = "over" => \A k \in 1 .. Len(log) : log[k].round = round
          /\ phase = "over" /\ round \notin lost => log # <<>> /\ log[Len(log)].done
          /\ at[c] = "ended" /\ round \notin lost
                => \E k \in 1 .. Len(got[c]) : Told(c, k) = round /\ got[c][k].done

\* What one client has of the rounds stands in order (its part of Faithful).
FaithfulTo(c) ==
    \A k \in 1 .. Len(got[c]) :
        Told(c, k) \in (1 .. Rounds) \ lost =>
            /\ got[c][k].seq \in 1 .. k
            /\ \A i \in 1 .. Len(got[c]) :
                  /\ Told(c, i) = Told(c, k) => got[c][i].seq + k = got[c][k].seq + i
                  /\ i <= k /\ k < i + got[c][k].seq => Told(c, i) = Told(c, k)

Written == Counted /\ Ordered /\ Buffered
Read(c) == Earlier(c) /\ Aligned(c) /\ Awaited(c) /\ FaithfulTo(c)

IInv == TypeOK /\ Written /\ \A c \in Reader : Read(c)

-----------------------------------------------------------------------------
(***************************************************************************)
(* Sequences of events.                                                    *)
(***************************************************************************)
LEMMA Lengths ==
    ASSUME NEW s \in Seq(Event)
    PROVE  /\ Len(s) \in Nat
           /\ DOMAIN s = 1 .. Len(s)
           /\ \A i \in 1 .. Len(s) : s[i] \in Event
           /\ s = <<>> <=> Len(s) = 0
BY LenProperties, ElementOfSeq, EmptySeq

LEMMA Numbers ==
    /\ LastSeq \in Nat \ {0}
    /\ \A r \in Nat : r * LastSeq \in Nat /\ (r + 1) * LastSeq = r * LastSeq + LastSeq
    /\ \A r \in 0 .. Rounds : r * LastSeq <= LastEver
    /\ LastEver \in Nat
<1>1. LastSeq \in Nat \ {0}
  BY SizeAssumption DEF LastSeq
<1>2. \A r \in Nat : r * LastSeq \in Nat /\ (r + 1) * LastSeq = r * LastSeq + LastSeq
  BY <1>1
<1>3. LastEver \in Nat
  BY <1>1, SizeAssumption DEF LastEver
<1>4. ASSUME NEW r \in 0 .. Rounds PROVE r * LastSeq <= LastEver
  <2> DEFINE d == Rounds - r
  <2>1. d \in Nat /\ Rounds = r + d
    BY SizeAssumption
  <2>2. Rounds * LastSeq = r * LastSeq + d * LastSeq
    BY <1>1, <2>1
  <2>3. r * LastSeq \in Nat /\ d * LastSeq \in Nat
    BY <1>1, <2>1
  <2> QED
    BY <2>2, <2>3 DEF LastEver
<1> QED
  BY <1>1, <1>2, <1>3, <1>4

\* The entries of log and buffer before and after a step that appends an entry
\* to the log, or drops the head of the buffer.
LEMMA Appended ==
    ASSUME NEW s \in Seq(Event), NEW e \in Event
    PROVE  /\ Append(s, e) \in Seq(Event)
           /\ Len(Append(s, e)) = Len(s) + 1
           /\ \A i \in 1 .. Len(s) : Append(s, e)[i] = s[i]
           /\ Append(s, e)[Len(s) + 1] = e
BY AppendProperties

LEMMA Shifted ==
    ASSUME NEW s \in Seq(Event), s # <<>>
    PROVE  /\ Tail(s) \in Seq(Event)
           /\ Head(s) = s[1] /\ s[1] \in Event
           /\ Len(s) > 0 /\ Len(Tail(s)) = Len(s) - 1
           /\ \A i \in 1 .. Len(s) - 1 : Tail(s)[i] = s[i + 1]
<1>1. Len(s) \in Nat \ {0}
  BY EmptySeq
<1>2. Len(Tail(s)) = Len(s) - 1 /\ Tail(s) \in Seq(Event)
  BY HeadTailProperties
<1>3. \A i \in 1 .. Len(s) - 1 : Tail(s)[i] = s[i + 1]
  BY <1>2, HeadTailProperties
<1>4. Head(s) = s[1] /\ s[1] \in Event
  BY <1>1, ElementOfSeq
<1> QED
  BY <1>1, <1>2, <1>3, <1>4

\* A piece of the log.
LEMMA Cut ==
    ASSUME NEW t \in Seq(Event), NEW m \in 1 .. Len(t) + 1, NEW n \in m - 1 .. Len(t)
    PROVE  /\ SubSeq(t, m, n) \in Seq(Event)
           /\ Len(SubSeq(t, m, n)) = n + 1 - m
           /\ \A i \in 1 .. n + 1 - m : SubSeq(t, m, n)[i] = t[m - 1 + i]
<1>1. Len(t) \in Nat
  BY Lengths
<1>2. \A i \in m .. n : t[i] \in Event
  BY <1>1, Lengths
<1> QED
  BY <1>1, <1>2, SubSeqProperties

\* Appending a piece of the log to what a client has.
LEMMA Joined ==
    ASSUME NEW s \in Seq(Event), NEW t \in Seq(Event),
           NEW m \in 1 .. Len(t) + 1, NEW n \in m - 1 .. Len(t)
    PROVE  LET all == s \o SubSeq(t, m, n)
           IN  /\ SubSeq(t, m, n) \in Seq(Event)
               /\ Len(SubSeq(t, m, n)) = n + 1 - m
               /\ \A i \in 1 .. n + 1 - m : SubSeq(t, m, n)[i] = t[m - 1 + i]
               /\ all \in Seq(Event)
               /\ Len(all) = Len(s) + (n + 1 - m)
               /\ \A i \in 1 .. Len(s) : all[i] = s[i]
               /\ \A i \in 1 .. n + 1 - m : all[Len(s) + i] = t[m - 1 + i]
<1> DEFINE u == SubSeq(t, m, n)
<1>1. Len(s) \in Nat /\ Len(t) \in Nat
  BY Lengths
<1>2. /\ u \in Seq(Event)
      /\ Len(u) = n + 1 - m
      /\ \A i \in 1 .. n + 1 - m : u[i] = t[m - 1 + i]
  BY Cut
<1> HIDE DEF u
<1>3. /\ s \o u \in Seq(Event)
      /\ Len(s \o u) = Len(s) + Len(u)
      /\ \A i \in 1 .. Len(s) + Len(u) :
            (s \o u)[i] = IF i <= Len(s) THEN s[i] ELSE u[i - Len(s)]
  BY <1>2, ConcatProperties
<1>4. \A i \in 1 .. Len(s) : (s \o u)[i] = s[i]
  BY <1>1, <1>2, <1>3
<1>5. ASSUME NEW i \in 1 .. n + 1 - m PROVE (s \o u)[Len(s) + i] = t[m - 1 + i]
  BY <1>1, <1>2, <1>3
<1> QED
  BY <1>2, <1>3, <1>4, <1>5 DEF u

-----------------------------------------------------------------------------
(***************************************************************************)
(* What a read returns: the piece of the log after the part already seen.  *)
(***************************************************************************)
LEMMA Position ==
    ASSUME TypeOK, Counted, Ordered, NEW c \in Reader, Aligned(c), at[c] # "ended"
    PROVE  /\ Len(log) \in Nat /\ Base \in Nat
           /\ Seen(c) \in 0 .. Len(log)
           /\ Passed(c) = Seen(c)
<1>1. Len(log) \in Nat /\ Base \in Nat
  BY DEF TypeOK, Counted, Base
<1>2. cursor[c] \in Nat /\ lastId = Base + Len(log)
  BY <1>1 DEF TypeOK, Base
<1>3. Seen(c) \in 0 .. Len(log)
  BY <1>1, <1>2 DEF Seen, Aligned
<1> DEFINE Splits(n) == \A k \in 1 .. Len(log) : log[k].id > cursor[c] <=> k > n
<1>4. Splits(Seen(c))
  BY <1>1, <1>2 DEF Ordered, Seen
<1>5. ASSUME NEW n \in 0 .. Len(log), Splits(n) PROVE n = Seen(c)
  <2>1. CASE n < Seen(c)
    <3>1. Seen(c) > n /\ ~(Seen(c) > Seen(c)) /\ Seen(c) \in 1 .. Len(log)
      BY <1>1, <1>3, <2>1
    <3> QED
      BY <1>4, <1>5, <3>1
  <2>2. CASE Seen(c) < n
    <3>1. n > Seen(c) /\ ~(n > n) /\ n \in 1 .. Len(log)
      BY <1>1, <1>3, <2>2
    <3> QED
      BY <1>4, <1>5, <3>1
  <2> QED
    BY <1>1, <1>3, <2>1, <2>2
<1>6. Passed(c) = CHOOSE n \in 0 .. Len(log) : Splits(n)
  BY DEF Passed
<1> HIDE DEF Splits
<1>7. Passed(c) = Seen(c)
  BY <1>3, <1>4, <1>5, <1>6
<1> QED
  BY <1>1, <1>3, <1>7

LEMMA Piece ==
    ASSUME TypeOK, Counted, Ordered, NEW c \in Reader, Aligned(c), at[c] # "ended",
           NEW count \in Nat \ {0}
    PROVE  \E n \in Seen(c) .. Len(log) :
              /\ Unread(c, count) = SubSeq(log, Seen(c) + 1, n)
              /\ UpToDone(Unread(c, count)) = Unread(c, count)
              /\ n = Seen(c) => Seen(c) = Len(log)
              /\ HasDone(Unread(c, count)) =>
                    n = Len(log) /\ n > Seen(c) /\ log[n].done
<1> DEFINE s == Seen(c)
           n == IF s + count < Len(log) THEN s + count ELSE Len(log)
           piece == SubSeq(log, s + 1, n)
<1>1. Len(log) \in Nat /\ s \in 0 .. Len(log) /\ Passed(c) = s
  BY Position
<1>2. n \in s .. Len(log) /\ (n = s => s = Len(log))
  BY <1>1
<1>3. Unread(c, count) = piece
  BY <1>1 DEF Unread
<1> HIDE DEF s, n
<1>4. log \in Seq(Event) /\ s + 1 \in 1 .. Len(log) + 1 /\ n \in (s + 1) - 1 .. Len(log)
  <2>1. log \in Seq(Event)
    BY DEF TypeOK
  <2> QED
    BY <1>1, <1>2, <2>1
<1>5. /\ piece \in Seq(Event)
      /\ Len(piece) = n - s
      /\ \A i \in 1 .. n - s : piece[i] = log[s + i]
  <2>1. /\ piece \in Seq(Event)
        /\ Len(piece) = n + 1 - (s + 1)
        /\ \A i \in 1 .. n + 1 - (s + 1) : piece[i] = log[(s + 1) - 1 + i]
    BY <1>4, Joined
  <2> QED
    BY <1>1, <1>2, <2>1
<1> HIDE DEF piece
<1>6. ASSUME NEW k \in DOMAIN piece, piece[k].done
      PROVE  k = Len(piece) /\ n = Len(log) /\ n > s /\ log[n].done
  <2>1. k \in 1 .. n - s
    BY <1>5, <1>6, Lengths
  <2>2. s + k \in 1 .. Len(log) /\ log[s + k].done
    BY <1>1, <1>2, <1>5, <1>6, <2>1
  <2>3. s + k = Len(log)
    BY <2>2 DEF Ordered
  <2> QED
    BY <1>1, <1>2, <1>5, <2>1, <2>2, <2>3
<1>7. HasDone(piece) => n = Len(log) /\ n > s /\ log[n].done
  BY <1>6 DEF HasDone
<1>8. UpToDone(piece) = piece
  <2>1. CASE HasDone(piece)
    <3> DEFINE First(k) == piece[k].done /\ \A i \in 1 .. k - 1 : ~piece[i].done
    <3>1. PICK k \in DOMAIN piece : piece[k].done
      BY <2>1 DEF HasDone
    <3>2. Len(piece) \in Nat /\ DOMAIN piece = 1 .. Len(piece) /\ k = Len(piece)
      BY <1>5, <1>6, <3>1, Lengths
    <3>3. First(k)
      BY <1>6, <3>1, <3>2
    <3>4. \A j \in DOMAIN piece : First(j) => j = Len(piece)
      BY <1>6
    <3>5. UpToDone(piece) = SubSeq(piece, 1, CHOOSE j \in DOMAIN piece : First(j))
      BY <2>1 DEF UpToDone
    <3> HIDE DEF First
    <3>6. (CHOOSE j \in DOMAIN piece : First(j)) = Len(piece)
      BY <3>1, <3>3, <3>4
    <3> QED
      BY <1>5, <3>5, <3>6, SubSeqFull
  <2>2. CASE ~HasDone(piece)
    BY <2>2 DEF UpToDone
  <2> QED
    BY <2>1, <2>2
<1> QED
  BY <1>2, <1>3, <1>7, <1>8 DEF s, piece

-----------------------------------------------------------------------------
(***************************************************************************)
(* A reader delivers a piece of the log.                                   *)
(***************************************************************************)
LEMMA FaithfulEach ==
    ASSUME TypeOK
    PROVE  Faithful <=> \A c \in Reader : FaithfulTo(c)
<1>1. \A c \in Reader : DOMAIN got[c] = 1 .. Len(got[c])
  BY Lengths DEF TypeOK
<1> QED
  BY <1>1 DEF Faithful, FaithfulTo

LEMMA Delivery ==
    ASSUME TypeOK, Written, NEW c \in Reader, at[c] # "ended",
           Earlier(c), Aligned(c), FaithfulTo(c),
           NEW n \in Seen(c) .. Len(log), Deliver(c, SubSeq(log, Seen(c) + 1, n)),
           UNCHANGED writerVars
    PROVE  /\ got'[c] \in Seq(Event) /\ cursor'[c] \in 0 .. lastId
           /\ Trailing(c)' /\ Seen(c)' = n
           /\ Earlier(c)' /\ FaithfulTo(c)'
<1> DEFINE s == Seen(c)
           L == Len(got[c])
           new == got'[c]
           p == SubSeq(log, s + 1, n)
<1>1. Len(log) \in Nat /\ Base \in Nat /\ s \in 0 .. Len(log) /\ n \in s .. Len(log)
  BY Position DEF Written
<1>2. L \in Nat /\ s <= L /\ got[c] \in Seq(Event)
  BY Lengths DEF TypeOK, Aligned, Trailing
<1>3. new = got[c] \o p /\ cursor'[c] = IF p = <<>> THEN cursor[c] ELSE p[Len(p)].id
  BY DEF Deliver, TypeOK
<1>4. /\ p \in Seq(Event) /\ Len(p) = n - s
      /\ \A i \in 1 .. n - s : p[i] = log[s + i]
      /\ new \in Seq(Event) /\ Len(new) = L + (n - s)
      /\ \A i \in 1 .. L : new[i] = got[c][i]
      /\ \A i \in 1 .. n - s : new[L + i] = log[s + i]
  <2>1. log \in Seq(Event) /\ s + 1 \in 1 .. Len(log) + 1 /\ n \in (s + 1) - 1 .. Len(log)
    BY <1>1 DEF TypeOK
  <2>2. n + 1 - (s + 1) = n - s /\ \A i \in 1 .. n - s : (s + 1) - 1 + i = s + i
    BY <1>1
  <2> HIDE DEF s
  <2>3. /\ p \in Seq(Event)
        /\ Len(p) = n + 1 - (s + 1)
        /\ \A i \in 1 .. n + 1 - (s + 1) : p[i] = log[(s + 1) - 1 + i]
        /\ got[c] \o p \in Seq(Event)
        /\ Len(got[c] \o p) = Len(got[c]) + (n + 1 - (s + 1))
        /\ \A i \in 1 .. Len(got[c]) : (got[c] \o p)[i] = got[c][i]
        /\ \A i \in 1 .. n + 1 - (s + 1) :
              (got[c] \o p)[Len(got[c]) + i] = log[(s + 1) - 1 + i]
    BY <1>2, <2>1, Joined
  <2> HIDE DEF p
  <2> QED
    BY <1>3, <2>2, <2>3
<1> HIDE DEF s, L, new, p
<1>5. UNCHANGED <<log, lastId, lost, round, phase>> /\ Base' = Base /\ (Fresh' <=> Fresh)
  BY DEF writerVars, Base, Fresh
<1>6. /\ cursor'[c] \in 0 .. lastId
      /\ Seen(c)' = n
  <2>1. cursor[c] \in Nat /\ cursor[c] <= lastId /\ lastId = Base + Len(log)
    BY <1>1 DEF TypeOK, Aligned, Base
  <2>2. CASE n = s
    <3>1. p = <<>>
      BY <1>1, <1>4, <2>2, Lengths
    <3>2. cursor'[c] = cursor[c]
      BY <1>3, <3>1
    <3> QED
      BY <1>5, <2>1, <2>2, <3>2 DEF Seen, s
  <2>3. CASE n > s
    <3>1. p # <<>> /\ p[Len(p)] = log[n]
      BY <1>1, <1>4, <2>3, Lengths
    <3>2. cursor'[c] = Base + n
      BY <1>1, <1>3, <2>3, <3>1 DEF Written, Ordered
    <3> QED
      BY <1>1, <1>5, <2>1, <2>3, <3>2 DEF Seen
  <2> QED
    BY <1>1, <2>2, <2>3
\* The client's events: the older ones, then the log up to n.
<1> DEFINE O == L - s
<1>7. /\ O \in Nat /\ Len(new) = O + n
      /\ \A i \in 1 .. O : new[i] = got[c][i] /\ i \in 1 .. L
      /\ \A i \in 1 .. O, k \in 1 .. Len(log) : new[i].round < log[k].round
      /\ \A i \in 1 .. n : new[O + i] = log[i]
  <2>1. O \in Nat /\ Len(new) = O + n
    BY <1>1, <1>2, <1>4
  <2>2. \A i \in 1 .. O : new[i] = got[c][i] /\ i \in 1 .. L
    BY <1>1, <1>2, <1>4
  <2>3. \A i \in 1 .. O, k \in 1 .. Len(log) : new[i].round < log[k].round
    BY <2>2 DEF Aligned, Trailing, Told, L, s
  <2>4. ASSUME NEW i \in 1 .. n PROVE new[O + i] = log[i]
    <3>1. CASE i <= s
      <4>1. O + i \in 1 .. L
        BY <1>1, <1>2, <3>1
      <4>2. got[c][O + i] = log[i]
        BY <1>1, <3>1 DEF Aligned, Trailing, L, s
      <4> QED
        BY <1>4, <4>1, <4>2
    <3>2. CASE i > s
      <4>1. i - s \in 1 .. n - s /\ L + (i - s) = O + i /\ s + (i - s) = i
        BY <1>1, <1>2, <3>2
      <4>2. new[L + (i - s)] = log[s + (i - s)]
        BY <1>4, <4>1
      <4> QED
        BY <4>1, <4>2
    <3> QED
      BY <1>1, <3>1, <3>2
  <2> QED
    BY <2>1, <2>2, <2>3, <2>4
<1> HIDE DEF O
<1>8. Trailing(c)'
  <2>1. /\ n <= Len(new) /\ Len(new) - n = O
        /\ \A i \in 1 .. n : new[O + i] = log[i]
        /\ \A i \in 1 .. O, k \in 1 .. Len(log) : new[i].round < log[k].round
    BY <1>1, <1>7
  <2> QED
    BY <1>5, <1>6, <2>1 DEF Trailing, Told, new
<1> \A i \in 1 .. Len(new) : new[i].round \in Int
  <2>1. \A i \in 1 .. Len(new) : new[i] \in Event
    BY <1>4, Lengths
  <2> QED
    BY <2>1 DEF Event
<1>9. \A i \in 1 .. Len(new) : i \in 1 .. O \/ (i - O \in 1 .. n /\ new[i] = log[i - O])
  BY <1>1, <1>7
<1>10. Earlier(c)'
  <2>1. ASSUME NEW i \in 1 .. Len(new)
        PROVE  new[i].round <= round /\ (Fresh => new[i].round < round)
    <3>1. CASE i \in 1 .. O
      BY <1>7, <3>1 DEF Earlier, Told, L
    <3>2. CASE i - O \in 1 .. n /\ new[i] = log[i - O]
      <4>1. i - O \in 1 .. Len(log)
        BY <1>1, <3>2
      <4>2. log # <<>>
        BY <4>1, Lengths DEF TypeOK
      <4> QED
        BY <3>2, <4>1, <4>2 DEF Written, Ordered, TypeOK, Fresh
    <3> QED
      BY <1>9, <3>1, <3>2
  <2> QED
    BY <1>5, <2>1 DEF Earlier, Told, new
<1>11. FaithfulTo(c)'
  <2>1. ASSUME NEW k \in 1 .. Len(new), new[k].round \in (1 .. Rounds) \ lost
        PROVE  /\ new[k].seq \in 1 .. k
               /\ \A i \in 1 .. Len(new) :
                     /\ new[i].round = new[k].round => new[i].seq + k = new[k].seq + i
                     /\ i <= k /\ k < i + new[k].seq => new[i].round = new[k].round
    <3>1. CASE k \in 1 .. O
      <4>1. new[k] = got[c][k] /\ k \in 1 .. L
        BY <1>7, <3>1
      <4>2. /\ got[c][k].seq \in 1 .. k
            /\ \A i \in 1 .. L :
                  /\ got[c][i].round = got[c][k].round
                        => got[c][i].seq + k = got[c][k].seq + i
                  /\ i <= k /\ k < i + got[c][k].seq => got[c][i].round = got[c][k].round
        BY <2>1, <4>1 DEF FaithfulTo, Told, L
      <4>3. ASSUME NEW i \in 1 .. Len(new)
            PROVE  /\ new[i].round = new[k].round => new[i].seq + k = new[k].seq + i
                   /\ i <= k /\ k < i + new[k].seq => new[i].round = new[k].round
        <5>1. CASE i \in 1 .. O
          BY <1>7, <4>1, <4>2, <5>1
        <5>2. CASE i - O \in 1 .. n /\ new[i] = log[i - O]
          <6>1. i - O \in 1 .. Len(log)
            BY <1>1, <5>2
          <6>2. new[k].round < new[i].round
            BY <1>7, <3>1, <5>2, <6>1
          <6>3. k < i
            BY <1>1, <1>7, <3>1, <5>2
          <6> QED
            BY <6>2, <6>3
        <5> QED
          BY <1>9, <5>1, <5>2
      <4> QED
        BY <4>1, <4>2, <4>3
    <3>2. CASE k - O \in 1 .. n /\ new[k] = log[k - O]
      <4>1. k - O \in 1 .. Len(log) /\ new[k].seq = k - O
        BY <1>1, <2>1, <3>2 DEF Written, Ordered
      <4>2. ASSUME NEW i \in 1 .. Len(new)
            PROVE  /\ new[i].round = new[k].round => new[i].seq + k = new[k].seq + i
                   /\ i <= k /\ k < i + new[k].seq => new[i].round = new[k].round
        <5>1. CASE i \in 1 .. O
          <6>1. new[i].round < new[k].round /\ i + new[k].seq <= k
            BY <1>7, <3>2, <4>1, <5>1
          <6> QED
            BY <1>7, <4>1, <5>1, <6>1
        <5>2. CASE i - O \in 1 .. n /\ new[i] = log[i - O]
          <6>1. i - O \in 1 .. Len(log)
            BY <1>1, <5>2
          <6>2. new[i].round = new[k].round /\ new[i].seq = i - O
            BY <2>1, <3>2, <4>1, <5>2, <6>1 DEF Written, Ordered
          <6> QED
            BY <1>7, <4>1, <6>2
        <5> QED
          BY <1>9, <5>1, <5>2
      <4> QED
        BY <1>7, <4>1, <4>2
    <3> QED
      BY <1>9, <3>1, <3>2
  <2> QED
    BY <1>5, <2>1 DEF FaithfulTo, Told, new
<1> QED
  BY <1>4, <1>6, <1>8, <1>10, <1>11 DEF new

\* The done a reader makes up belongs to no round.
LEMMA PutOff ==
    ASSUME TypeOK, Written, NEW c \in Reader, Earlier(c), FaithfulTo(c),
           got' = [got EXCEPT ![c] = Append(got[c], Fallback)],
           UNCHANGED writerVars
    PROVE  /\ got'[c] \in Seq(Event) /\ Len(got'[c]) = Len(got[c]) + 1
           /\ \A i \in 1 .. Len(got[c]) : got'[c][i] = got[c][i]
           /\ Earlier(c)' /\ FaithfulTo(c)'
<1> DEFINE L == Len(got[c])
           new == got'[c]
<1>1. new = Append(got[c], Fallback) /\ got[c] \in Seq(Event) /\ L \in Nat
  BY DEF TypeOK
<1>2. Fallback \in Event /\ Fallback.round = 0
  BY Numbers, SizeAssumption DEF Fallback, Event
<1>3. /\ new \in Seq(Event) /\ Len(new) = L + 1
      /\ \A i \in 1 .. L : new[i] = got[c][i]
      /\ new[L + 1] = Fallback
  BY <1>1, <1>2, Appended
<1>4. \A i \in 1 .. Len(new) : i \in 1 .. L \/ (i = L + 1 /\ new[i].round = 0)
  BY <1>1, <1>2, <1>3
<1> HIDE DEF new, L
<1>5. UNCHANGED <<log, lost, round, phase>>
  BY DEF writerVars
<1>6. round \in Nat /\ (Fresh => round > 0)
  BY DEF TypeOK, Written, Counted, Fresh
<1>7. Earlier(c)'
  <2>1. ASSUME NEW i \in 1 .. Len(new)
        PROVE  new[i].round <= round /\ (Fresh => new[i].round < round)
    <3>1. CASE i \in 1 .. L
      <4>1. new[i] = got[c][i]
        BY <1>3, <3>1
      <4>2. got[c][i].round <= round /\ (Fresh => got[c][i].round < round)
        BY <3>1 DEF Earlier, Told, L
      <4> QED
        BY <4>1, <4>2
    <3>2. CASE new[i].round = 0
      BY <1>6, <3>2
    <3> QED
      BY <1>4, <2>1, <3>1, <3>2
  <2> QED
    BY <1>5, <2>1 DEF Earlier, Told, Fresh, new
<1>8. FaithfulTo(c)'
  <2>1. ASSUME NEW k \in 1 .. Len(new), new[k].round \in (1 .. Rounds) \ lost
        PROVE  /\ new[k].seq \in 1 .. k
               /\ \A i \in 1 .. Len(new) :
                     /\ new[i].round = new[k].round => new[i].seq + k = new[k].seq + i
                     /\ i <= k /\ k < i + new[k].seq => new[i].round = new[k].round
    <3>1. k \in 1 .. L /\ new[k] = got[c][k]
      BY <1>3, <1>4, <2>1
    <3>2. got[c][k].round \in (1 .. Rounds) \ lost
      BY <2>1, <3>1
    <3>3. /\ got[c][k].seq \in 1 .. k
          /\ \A i \in 1 .. L :
                /\ got[c][i].round = got[c][k].round
                      => got[c][i].seq + k = got[c][k].seq + i
                /\ i <= k /\ k < i + got[c][k].seq => got[c][i].round = got[c][k].round
      BY <3>1, <3>2 DEF FaithfulTo, Told, L
    <3>4. ASSUME NEW i \in 1 .. Len(new)
          PROVE  /\ new[i].round = new[k].round => new[i].seq + k = new[k].seq + i
                 /\ i <= k /\ k < i + new[k].seq => new[i].round = new[k].round
      <4>1. CASE i \in 1 .. L
        BY <1>3, <3>1, <3>3, <4>1
      <4>2. CASE i = L + 1 /\ new[i].round = 0
        <5>1. new[k].round # 0 /\ ~(i <= k)
          BY <1>1, <2>1, <3>1, <4>2 DEF L
        <5> QED
          BY <4>2, <5>1
      <4> QED
        BY <1>4, <4>1, <4>2
    <3> QED
      BY <3>1, <3>3, <3>4
  <2> QED
    BY <1>5, <2>1 DEF FaithfulTo, Told, new
<1> QED
  BY <1>3, <1>7, <1>8 DEF new, L

-----------------------------------------------------------------------------
(***************************************************************************)
(* A step of a reader leaves the writer and every other reader alone.      *)
(***************************************************************************)
LEMMA WrittenKept == ASSUME Written, UNCHANGED writerVars PROVE Written'
BY DEF writerVars, Written, Counted, Ordered, Buffered, Base

LEMMA ReadKept ==
    ASSUME NEW q \in Reader, Read(q), UNCHANGED writerVars,
           at'[q] = at[q], stop'[q] = stop[q], cursor'[q] = cursor[q],
           got'[q] = got[q], joined'[q] = joined[q]
    PROVE  Read(q)'
BY DEF writerVars, Read, Earlier, Aligned, Trailing, Awaited, FaithfulTo, Told,
       Seen, Base, Fresh

\* Who has read nothing stands before the log.
LEMMA NothingRead ==
    ASSUME TypeOK, Written, NEW c \in Reader, got[c] = <<>>, cursor[c] = 0
    PROVE  Trailing(c)
<1>1. Base \in Nat /\ Len(got[c]) = 0
  BY DEF TypeOK, Written, Counted, Base
<1>2. Seen(c) = 0
  BY <1>1 DEF Seen
<1> QED
  BY <1>1, <1>2 DEF Trailing

LEMMA OpeningStep ==
    ASSUME TypeOK, Written, NEW c \in Reader, Read(c), Opening(c)
    PROVE  TypeOK' /\ Read(c)' /\ UNCHANGED writerVars
<1> USE DEF Opening, Attach, ResumeRunning, Resume, Move, Arrive, GiveUpOn
<1>1. UNCHANGED writerVars /\ UNCHANGED <<waited, cursor, got>>
  OBVIOUS
<1>2. TypeOK'
  <2>1. /\ at' \in [Reader -> {"away", "probe", "replay", "tail", "ended"}]
        /\ stop' \in [Reader -> {"none", "registry", "idle", "grace"}]
    BY DEF TypeOK
  <2>2. cap' \in [Reader -> Caps]
    BY DEF TypeOK, Caps
  <2>3. joined' \in [Reader -> [round : 0 .. Rounds, phase : Phases]]
    <3>1. [round |-> round, phase |-> phase] \in [round : 0 .. Rounds, phase : Phases]
      BY DEF TypeOK
    <3>2. joined' = [joined EXCEPT ![c] = [round |-> round, phase |-> phase]]
      OBVIOUS
    <3> QED
      BY <3>1, <3>2 DEF TypeOK
  <2> QED
    BY <1>1, <2>1, <2>2, <2>3 DEF writerVars, TypeOK
<1>3. at[c] = "away" /\ at'[c] \in {"replay", "probe"} /\ joined'[c].round = round
  BY DEF TypeOK
<1>4. Trailing(c)
  BY <1>3, NothingRead DEF Read, Aligned
<1>5. Earlier(c)' /\ FaithfulTo(c)' /\ Aligned(c)'
  BY <1>1, <1>3, <1>4
     DEF writerVars, Read, Earlier, FaithfulTo, Aligned, Trailing, Told, Seen, Base, Fresh
<1>6. Awaited(c)'
  <2>1. round \in Nat
    BY DEF TypeOK
  <2>2. CASE Attach(c)
    BY <1>3, <2>1, <2>2 DEF Awaited, TypeOK, writerVars
  <2>3. CASE ResumeRunning(c)
    <3>1. at'[c] = "replay" /\ host = "api" /\ phase \in Flowing
      BY <2>3 DEF TypeOK, InRegistry, Flowing
    <3> QED
      BY <1>1, <1>3, <2>1, <3>1 DEF Awaited, writerVars, Flowing
  <2>4. CASE Resume(c)
    <3>1. stop'[c] # "registry"
      BY <1>3, <2>4 DEF Read, Awaited
    <3> QED
      BY <1>1, <1>3, <2>1, <3>1 DEF Awaited, writerVars
  <2> QED
    BY <2>2, <2>3, <2>4
<1> QED
  BY <1>1, <1>2, <1>5, <1>6 DEF Read

\* A reader that ends with the done of the log has it.
LEMMA DoneDelivered ==
    ASSUME TypeOK, Written, NEW c \in Reader, Awaited(c), stop[c] = "registry",
           joined[c].round = round, round \notin lost,
           Len(log) > 0, log[Len(log)].done
    PROVE  log[Len(log)].round = round
<1>1. Len(log) \in 1 .. Len(log)
  BY Lengths DEF TypeOK
<1>2. phase \in Flowing \/ phase = "over"
  BY DEF Awaited
<1> QED
  BY <1>1, <1>2 DEF Written, Ordered, Awaited

LEMMA ReadingStep ==
    ASSUME TypeOK, Written, NEW c \in Reader, Read(c), Reading(c)
    PROVE  TypeOK' /\ Read(c)' /\ UNCHANGED writerVars
<1>1. CASE ProbeEvents(c)
  <2> USE <1>1 DEF ProbeEvents, Move, GiveUpOn
  <2>1. at[c] = "probe" /\ at'[c] = "replay" /\ stop'[c] = "idle"
        /\ UNCHANGED writerVars /\ UNCHANGED <<cursor, got, joined>>
    BY DEF TypeOK
  <2>2. Trailing(c)
    BY <2>1, NothingRead DEF Read, Aligned
  <2>3. Read(c)'
    BY <2>1, <2>2
       DEF writerVars, Read, Earlier, FaithfulTo, Aligned, Trailing, Awaited, Told,
           Seen, Base, Fresh
  <2>4. TypeOK'
    BY DEF writerVars, TypeOK, Caps
  <2> QED
    BY <2>1, <2>3, <2>4
<1>2. CASE ProbeEmpty(c)
  <2> USE <1>2 DEF ProbeEmpty, Move, GiveUpOn
  <2>1. at[c] = "probe" /\ UNCHANGED writerVars /\ UNCHANGED <<waited, cursor, joined>>
    BY DEF TypeOK
  <2>2. Trailing(c)
    BY <2>1, NothingRead DEF Read, Aligned
  <2>3. CASE UNCHANGED got
    <3>1. at'[c] = "replay" /\ stop'[c] = "grace"
      BY <2>1, <2>3, PutOff, Lengths DEF TypeOK, Read, Aligned
    <3>2. Read(c)'
      BY <2>1, <2>2, <2>3, <3>1
         DEF writerVars, Read, Earlier, FaithfulTo, Aligned, Trailing, Awaited, Told,
             Seen, Base, Fresh
    <3> QED
      BY <2>1, <2>3, <3>1, <3>2 DEF writerVars, TypeOK, Caps
  <2>4. CASE got' = [got EXCEPT ![c] = Append(got[c], Fallback)] /\ UNCHANGED <<stop, cap>>
             /\ at' = [at EXCEPT ![c] = "ended"]
    <3>1. got'[c] \in Seq(Event) /\ Earlier(c)' /\ FaithfulTo(c)'
      BY <2>1, <2>4, PutOff DEF Read
    <3>2. at'[c] = "ended" /\ stop[c] # "registry"
      BY <2>1, <2>4 DEF TypeOK, Read, Awaited
    <3>3. Awaited(c)' /\ Aligned(c)'
      BY <2>1, <2>4, <3>2 DEF writerVars, Read, Aligned, Awaited
    <3> QED
      BY <2>1, <2>4, <3>1, <3>3 DEF writerVars, TypeOK, Read
  <2> QED
    BY <2>3, <2>4
<1>3. CASE Replay(c) \/ TailRead(c)
  <2> DEFINE count == IF Replay(c) THEN ReplayBatch ELSE TailBatch
             events == Unread(c, count)
  <2>1. count \in Nat \ {0}
    BY BatchAssumption
  <2>2. /\ at[c] \in {"replay", "tail"}
        /\ at' = [at EXCEPT ![c] = IF HasDone(events) THEN "ended" ELSE "tail"]
        /\ Deliver(c, events) \/ Deliver(c, UpToDone(events))
        /\ waited' \in [Reader -> 0 .. Longest]
        /\ UNCHANGED writerVars /\ UNCHANGED <<stop, cap, joined>>
    <3>1. CASE Replay(c)
      BY <3>1 DEF Replay, Move, TypeOK
    <3>2. CASE ~Replay(c) /\ TailRead(c)
      BY <3>2, TimeAssumption DEF TailRead, Move, TypeOK, Longest
    <3> QED
      BY <1>3, <3>1, <3>2
  <2> HIDE DEF count
  <2>3. PICK n \in Seen(c) .. Len(log) :
              /\ events = SubSeq(log, Seen(c) + 1, n)
              /\ UpToDone(events) = events
              /\ HasDone(events) => n = Len(log) /\ n > Seen(c) /\ log[n].done
    BY <2>1, <2>2, Piece DEF Written, Read
  <2>4. Deliver(c, SubSeq(log, Seen(c) + 1, n))
    BY <2>2, <2>3
  <2> HIDE DEF events
  <2>5. /\ got'[c] \in Seq(Event) /\ cursor'[c] \in 0 .. lastId
        /\ Trailing(c)' /\ Seen(c)' = n /\ Earlier(c)' /\ FaithfulTo(c)'
    BY <2>2, <2>4, Delivery DEF Read
  <2>6. at'[c] = IF HasDone(events) THEN "ended" ELSE "tail"
    BY <2>2 DEF TypeOK
  <2>7. UNCHANGED <<log, lost, round, phase, host, lastId>>
    BY <2>2 DEF writerVars
  <2>8. Aligned(c)'
    BY <2>5, <2>6, <2>7 DEF Aligned, TypeOK
  <2>9. Awaited(c)'
    <3>1. ASSUME stop[c] = "registry", joined[c].round = round, HasDone(events),
                 round \notin lost
          PROVE  \E k \in 1 .. Len(got'[c]) : got'[c][k].round = round /\ got'[c][k].done
      <4>1. Len(log) \in Nat /\ n = Len(log) /\ n > 0 /\ log[n].done
        BY <2>2, <2>3, <3>1, Position DEF Written, Read
      <4>2. log[n].round = round
        BY <3>1, <4>1, DoneDelivered DEF Read
      <4>3. Len(got'[c]) \in Nat /\ n <= Len(got'[c])
            /\ \A i \in 1 .. n : got'[c][Len(got'[c]) - n + i] = log[i]
        BY <2>5, <2>7, <4>1 DEF Trailing
      <4>4. got'[c][Len(got'[c]) - n + n] = log[n] /\ Len(got'[c]) - n + n = Len(got'[c])
        BY <4>1, <4>3
      <4>5. Len(got'[c]) \in 1 .. Len(got'[c])
        BY <4>1, <4>3
      <4> QED
        BY <4>1, <4>2, <4>4, <4>5
    <3> QED
      BY <2>2, <2>6, <2>7, <3>1 DEF Read, Awaited, Told
  <2>10. TypeOK'
    <3>1. /\ got' = [got EXCEPT ![c] = got'[c]]
          /\ cursor' = [cursor EXCEPT ![c] = cursor'[c]]
      BY <2>4 DEF Deliver, TypeOK
    <3>2. cursor'[c] \in 0 .. LastEver
      BY <2>5, Numbers DEF TypeOK
    <3> QED
      BY <2>2, <2>5, <3>1, <3>2 DEF writerVars, TypeOK
  <2> QED
    BY <2>2, <2>5, <2>8, <2>9, <2>10 DEF Read
<1>4. CASE GiveUp(c)
  <2> USE <1>4 DEF GiveUp, Move
  <2>1. /\ at[c] = "tail" /\ at'[c] = "ended"
        /\ got' = [got EXCEPT ![c] = Append(got[c], Fallback)]
        /\ UNCHANGED writerVars /\ UNCHANGED <<stop, cap, waited, cursor, joined>>
    BY DEF TypeOK
  <2>2. /\ got'[c] \in Seq(Event) /\ Len(got'[c]) = Len(got[c]) + 1
        /\ \A i \in 1 .. Len(got[c]) : got'[c][i] = got[c][i]
        /\ Earlier(c)' /\ FaithfulTo(c)'
    BY <2>1, PutOff DEF Read
  <2>3. Seen(c) = Len(log) /\ Len(log) \in Nat
    <3>1. PICK n \in Seen(c) .. Len(log) :
                 /\ Unread(c, TailBatch) = SubSeq(log, Seen(c) + 1, n)
                 /\ n = Seen(c) => Seen(c) = Len(log)
      BY <2>1, BatchAssumption, Piece DEF Written, Read
    <3>2. Len(log) \in Nat /\ Seen(c) \in 0 .. Len(log)
      BY <2>1, Position DEF Written, Read
    <3>3. Len(SubSeq(log, Seen(c) + 1, n)) = n + 1 - (Seen(c) + 1)
      <4>1. Seen(c) + 1 \in 1 .. Len(log) + 1 /\ n \in (Seen(c) + 1) - 1 .. Len(log)
        BY <3>2
      <4>2. log \in Seq(Event)
        BY DEF TypeOK
      <4> QED
        BY ONLY <4>1, <4>2, Cut
    <3>4. Len(SubSeq(log, Seen(c) + 1, n)) = 0
      BY <3>1, EmptySeq
    <3> QED
      BY <3>1, <3>2, <3>3, <3>4
  <2>4. Aligned(c)'
    BY <2>1 DEF writerVars, Read, Aligned
  <2>5. Awaited(c)'
    <3>1. ASSUME stop[c] = "registry", joined[c].round = round, round \notin lost
          PROVE  \E k \in 1 .. Len(got'[c]) : got'[c][k].round = round /\ got'[c][k].done
      <4>1. phase = "over"
        BY <3>1 DEF MayStop, InRegistry, Read, Awaited, Flowing
      <4>2. log # <<>> /\ log[Len(log)].done
        BY <3>1, <4>1 DEF Read, Awaited
      <4>3. Len(log) > 0
        BY <2>3, <4>2, Lengths DEF TypeOK
      <4>4. log[Len(log)].round = round
        BY <3>1, <4>2, <4>3, DoneDelivered DEF Read
      <4>5. Len(log) <= Len(got[c]) /\ Len(got[c]) \in Nat
            /\ \A i \in 1 .. Len(log) : got[c][Len(got[c]) - Len(log) + i] = log[i]
        BY <2>1, <2>3, Lengths DEF TypeOK, Read, Aligned, Trailing
      <4>6. /\ got[c][Len(got[c]) - Len(log) + Len(log)] = log[Len(log)]
            /\ Len(got[c]) - Len(log) + Len(log) = Len(got[c])
            /\ Len(got[c]) \in 1 .. Len(got[c])
            /\ Len(got[c]) \in 1 .. Len(got'[c])
        BY <2>2, <2>3, <4>3, <4>5
      <4> QED
        BY <2>2, <4>2, <4>4, <4>6
    <3> QED
      BY <2>1, <3>1 DEF writerVars, Read, Awaited, Told
  <2>6. TypeOK'
    BY <2>1, <2>2 DEF writerVars, TypeOK
  <2> QED
    BY <2>1, <2>2, <2>4, <2>5, <2>6 DEF Read
<1> QED
  BY <1>1, <1>2, <1>3, <1>4 DEF Reading

LEMMA ReaderStep ==
    ASSUME IInv, NEW c \in Reader, Opening(c) \/ Reading(c)
    PROVE  IInv'
<1>1. TypeOK' /\ Read(c)' /\ UNCHANGED writerVars
  BY OpeningStep, ReadingStep DEF IInv
<1>2. ASSUME NEW q \in Reader, q # c PROVE Read(q)'
  <2>1. /\ at'[q] = at[q] /\ stop'[q] = stop[q] /\ cursor'[q] = cursor[q]
        /\ got'[q] = got[q] /\ joined'[q] = joined[q]
    BY <1>2 DEF IInv, TypeOK, Opening, Attach, ResumeRunning, Resume, Reading,
                ProbeEvents, ProbeEmpty, Replay, TailRead, GiveUp, Move, Arrive,
                GiveUpOn, Deliver
  <2> QED
    BY <1>1, <2>1, ReadKept DEF IInv
<1> QED
  BY <1>1, <1>2, WrittenKept DEF IInv

-----------------------------------------------------------------------------
(***************************************************************************)
(* A step of the writer leaves the readers alone.                          *)
(***************************************************************************)
\* What a reader has stays right while the log stays as it is.
LEMMA ReadersStay ==
    ASSUME TypeOK, NEW c \in Reader, Read(c), UNCHANGED <<readerVars, log, lastId>>,
           round' \in Nat, round <= round', lost \subseteq lost',
           Fresh' => Fresh \/ round < round'
    PROVE  Earlier(c)' /\ Aligned(c)' /\ FaithfulTo(c)'
<1>1. /\ UNCHANGED <<at, stop, cursor, got, joined>>
      /\ Base' = Base /\ Seen(c)' = Seen(c)
  BY DEF readerVars, Base, Seen
<1>2. round \in Nat /\ \A i \in 1 .. Len(got[c]) : Told(c, i) \in Nat
  <2>1. \A i \in 1 .. Len(got[c]) : got[c][i] \in Event
    BY Lengths DEF TypeOK
  <2>2. \A i \in 1 .. Len(got[c]) : got[c][i].round \in 0 .. Rounds
    BY <2>1 DEF Event
  <2> QED
    BY <2>2 DEF TypeOK, Told
<1>3. Earlier(c)'
  BY <1>1, <1>2 DEF Read, Earlier, Told
<1>4. Aligned(c)'
  BY <1>1 DEF Read, Aligned, Trailing, Told
<1>5. FaithfulTo(c)'
  BY <1>1 DEF Read, FaithfulTo, Told
<1> QED
  BY <1>3, <1>4, <1>5

LEMMA BeginStep == ASSUME IInv, Begin PROVE IInv'
<1> USE DEF Begin
<1>1. /\ phase = "over" /\ phase' = "marked" /\ round \in Nat /\ round' = round + 1
      /\ round' \in 0 .. Rounds /\ made' = 0 /\ buffer = <<>> /\ Len(buffer) = 0
      /\ UNCHANGED <<host, buffer, log, lastId, lost, readerVars>>
  BY SizeAssumption DEF IInv, TypeOK, Written, Counted, Flowing
<1>2. TypeOK'
  BY <1>1, Numbers, TimeAssumption DEF IInv, TypeOK, readerVars, Phases
<1>3. Counted'
  <2>1. /\ round' * LastSeq = round * LastSeq + LastSeq
        /\ round * LastSeq \in Nat /\ LastSeq \in Nat /\ lastId \in Nat
    BY <1>1, Numbers DEF IInv, TypeOK
  <2> DEFINE before == round * LastSeq
             now == round' * LastSeq
  <2>2. lastId <= before /\ now = before + LastSeq
    BY <2>1 DEF IInv, Written, Counted
  <2> HIDE DEF before, now
  <2>3. lastId + 0 + LastSeq <= now + 0 /\ lastId <= now
    BY <2>1, <2>2 DEF before
  <2>4. lost \subseteq 1 .. round'
    BY <1>1 DEF IInv, Written, Counted
  <2> QED
    BY <1>1, <2>3, <2>4 DEF IInv, Written, Counted, Flowing, now
<1>4. Ordered'
  <2>1. \A k \in 1 .. Len(log) : log[k].round \in 1 .. round' /\ log[k].round < round'
    BY <1>1 DEF IInv, Written, Ordered
  <2> QED
    BY <1>1, <2>1 DEF IInv, Written, Ordered, Base, Flowing
<1>5. Buffered'
  BY <1>1 DEF Buffered, Flowing
<1>6. ASSUME NEW c \in Reader PROVE Read(c)'
  <2>1. Earlier(c)' /\ Aligned(c)' /\ FaithfulTo(c)'
    BY <1>1, ReadersStay DEF IInv, TypeOK
  <2>2. joined[c].round \in Nat /\ joined[c].round <= round
    BY <1>1 DEF IInv, Read, Awaited, TypeOK
  <2>3. Awaited(c)'
    BY <1>1, <2>2 DEF IInv, Read, Awaited, readerVars
  <2> QED
    BY <2>1, <2>3 DEF Read
<1> QED
  BY <1>2, <1>3, <1>4, <1>5, <1>6 DEF IInv, Written

\* The log of the round before is deleted: whoever was reading it has nothing
\* left to read, and all that it has is of earlier rounds.
LEMMA ClearStep == ASSUME IInv, Clear PROVE IInv'
<1> USE DEF Clear
<1>1. /\ phase = "marked" /\ phase' = "cleared" /\ log' = <<>> /\ Len(log') = 0
      /\ UNCHANGED <<round, host, made, silence, buffer, lastId, lost, readerVars>>
      /\ round \in Nat /\ buffer = <<>> /\ Len(buffer) = 0
      /\ lastId \in Nat /\ Base' = lastId
  BY DEF IInv, TypeOK, Written, Counted, Flowing, Base
<1>2. TypeOK'
  BY <1>1, Numbers, EmptySeq DEF IInv, TypeOK, readerVars, Phases
<1>3. Counted' /\ Ordered' /\ Buffered'
  BY <1>1 DEF IInv, TypeOK, Written, Counted, Ordered, Buffered, Flowing
<1>4. ASSUME NEW c \in Reader PROVE Read(c)'
  <2>1. UNCHANGED <<at, stop, cursor, got, joined>>
    BY <1>1 DEF readerVars
  <2>2. Seen(c)' = 0
    BY <1>1, <2>1 DEF IInv, Read, Aligned, Seen, TypeOK
  <2>3. Trailing(c)'
    <3>1. Len(got[c]) \in Nat
      BY Lengths DEF IInv, TypeOK
    <3> QED
      BY <1>1, <2>1, <2>2, <3>1 DEF Trailing
  <2>4. Aligned(c)'
    BY <1>1, <2>1, <2>3 DEF IInv, Read, Aligned
  <2>5. Earlier(c)'
    BY <1>1, <2>1 DEF IInv, Read, Earlier, Fresh, Told
  <2>6. Awaited(c)'
    BY <1>1, <2>1 DEF IInv, Read, Awaited, Flowing
  <2>7. FaithfulTo(c)'
    BY <1>1, <2>1 DEF IInv, Read, FaithfulTo, Told
  <2> QED
    BY <2>4, <2>5, <2>6, <2>7 DEF Read
<1> QED
  BY <1>2, <1>3, <1>4 DEF IInv, Written

\* The launch, the pick-up by the worker, and a request that fails before it.
LEMMA LaunchStep == ASSUME IInv, Launch \/ Pick \/ Abandon PROVE IInv'
<1> USE DEF Launch, Pick, Abandon
<1>1. /\ phase \in {"marked", "cleared", "queued"}
      /\ phase' \in {"queued", "running", "over"}
      /\ phase = "marked" => phase' = "over"
      /\ host' \in {"api", "worker"}
      /\ UNCHANGED <<round, made, silence, buffer, log, lastId, lost, readerVars>>
      /\ round \in Nat /\ buffer = <<>> /\ Len(buffer) = 0 /\ made = 0
      /\ phase # "marked" => log = <<>> /\ Len(log) = 0
  BY DEF IInv, TypeOK, Written, Counted, Flowing
<1>2. TypeOK'
  BY <1>1 DEF IInv, TypeOK, readerVars, Phases
<1>3. Counted'
  BY <1>1, SizeAssumption DEF IInv, TypeOK, Written, Counted, Flowing
<1>4. Ordered' /\ Buffered'
  BY <1>1 DEF IInv, TypeOK, Written, Ordered, Buffered, Base, Flowing
<1>5. ASSUME NEW c \in Reader PROVE Read(c)'
  <2>1. Earlier(c)' /\ Aligned(c)' /\ FaithfulTo(c)'
    BY <1>1, ReadersStay DEF IInv, Fresh
  <2>2. Awaited(c)'
    BY <1>1 DEF IInv, Read, Awaited, Flowing, readerVars
  <2> QED
    BY <2>1, <2>2 DEF Read
<1> QED
  BY <1>2, <1>3, <1>4, <1>5 DEF IInv, Written

\* An event of the round goes to the buffer; with the done the flush begins.
LEMMA PublishStep == ASSUME IInv, Produce \/ Finish PROVE IInv'
<1> USE DEF Produce, Finish, Publish
<1>1. PICK done \in BOOLEAN :
            /\ buffer' = Append(buffer, [id |-> 0, round |-> round, seq |-> made + 1, done |-> done])
            /\ phase' = IF done THEN "flush" ELSE "running"
            /\ ~done => made < Length
  <2>1. CASE Produce
    BY <2>1
  <2>2. CASE Finish
    BY <2>2
  <2> QED
    BY <2>1, <2>2
<1> DEFINE e == [id |-> 0, round |-> round, seq |-> made + 1, done |-> done]
<1>2. /\ phase = "running" /\ phase' \in Flowing /\ made' = made + 1 /\ silence' = 0
      /\ UNCHANGED <<round, host, log, lastId, lost, readerVars>>
      /\ made \in Nat /\ made <= Length /\ round \in 1 .. Rounds
      /\ Len(log) \in Nat /\ Len(buffer) \in Nat /\ buffer \in Seq(Event)
      /\ Len(log) + Len(buffer) <= made
  BY <1>1 DEF IInv, TypeOK, Written, Counted, Flowing
<1>3. e \in Event
  BY <1>2, Numbers, SizeAssumption DEF Event, LastSeq
<1>4. /\ buffer' \in Seq(Event) /\ Len(buffer') = Len(buffer) + 1
      /\ \A k \in 1 .. Len(buffer) : buffer'[k] = buffer[k]
      /\ buffer'[Len(buffer) + 1] = e /\ buffer' # <<>>
  <2>1. buffer' = Append(buffer, e)
    BY <1>1
  <2> HIDE DEF e
  <2>2. /\ buffer' \in Seq(Event) /\ Len(buffer') = Len(buffer) + 1
        /\ \A k \in 1 .. Len(buffer) : buffer'[k] = buffer[k]
        /\ buffer'[Len(buffer) + 1] = e
    BY <1>2, <1>3, <2>1, Appended
  <2> QED
    BY <1>2, <2>2, Lengths
<1>5. e.round = round /\ e.seq = made + 1 /\ e.done = done
  OBVIOUS
<1> HIDE DEF e, Produce, Finish, Publish
<1>6. TypeOK'
  <2>1. made' \in 0 .. LastSeq /\ Len(buffer') <= LastSeq /\ silence' \in 0 .. IdleLimit
    BY <1>2, <1>4, SizeAssumption, TimeAssumption DEF LastSeq
  <2> QED
    BY <1>2, <1>4, <2>1 DEF IInv, TypeOK, readerVars, Phases, Flowing
<1>7. Counted'
  <2> DEFINE before == round * LastSeq
  <2>1. before \in Nat /\ LastSeq \in Nat /\ lastId \in Nat
    BY <1>2, Numbers DEF IInv, TypeOK
  <2>2. lastId + Len(buffer) + LastSeq <= before + made
    BY <1>2 DEF IInv, Written, Counted
  <2> HIDE DEF before
  <2>3. lastId + Len(buffer') + LastSeq <= before + made'
    BY <1>2, <1>4, <2>1, <2>2
  <2>4. Len(log') + Len(buffer') <= made'
    BY <1>2, <1>4
  <2>5. phase' = "running" => made' <= Length
    BY <1>1, <1>2, SizeAssumption
  <2> QED
    BY <1>2, <2>3, <2>4, <2>5 DEF IInv, Written, Counted, Flowing, before
<1>8. Ordered'
  BY <1>2 DEF IInv, Written, Ordered, Flowing, Base
<1>9. Buffered'
  <2>1. \A k \in 1 .. Len(buffer') : k \in 1 .. Len(buffer) \/ k = Len(buffer) + 1
    BY <1>2, <1>4
  <2>2. ASSUME NEW k \in 1 .. Len(buffer')
        PROVE  /\ buffer'[k].round = round
               /\ buffer'[k].done => k = Len(buffer') /\ phase' = "flush"
               /\ round \notin lost => buffer'[k].seq = Len(log) + k
    <3>1. CASE k \in 1 .. Len(buffer)
      BY <1>2, <1>4, <3>1 DEF IInv, Written, Buffered
    <3>2. CASE k = Len(buffer) + 1
      <4>1. round \notin lost => made = Len(log) + Len(buffer)
        BY <1>2 DEF IInv, Written, Buffered, Flowing
      <4> QED
        BY <1>1, <1>2, <1>4, <1>5, <3>2, <4>1
    <3> QED
      BY <2>1, <3>1, <3>2
  <2>3. round \notin lost => made' = Len(log) + Len(buffer')
    BY <1>2, <1>4 DEF IInv, Written, Buffered, Flowing
  <2>4. phase' = "flush" => buffer'[Len(buffer')].done
    BY <1>1, <1>4, <1>5
  <2> QED
    BY <1>2, <1>4, <2>2, <2>3, <2>4 DEF Buffered
<1>10. ASSUME NEW c \in Reader PROVE Read(c)'
  <2>1. Earlier(c)' /\ Aligned(c)' /\ FaithfulTo(c)'
    BY <1>2, ReadersStay DEF IInv, Fresh, Flowing
  <2>2. Awaited(c)'
    BY <1>2 DEF IInv, Read, Awaited, Flowing, readerVars, Told
  <2> QED
    BY <2>1, <2>2 DEF Read
<1> QED
  BY <1>6, <1>7, <1>8, <1>9, <1>10 DEF IInv, Written

\* The head of the buffer goes to the log, with the next id.
LEMMA WriteStep == ASSUME IInv, Write PROVE IInv'
<1> DEFINE e == [buffer[1] EXCEPT !.id = lastId + 1]
<1> USE DEF Write, Writing, AddEntry
<1>1. /\ phase \in Flowing /\ buffer # <<>> /\ buffer \in Seq(Event) /\ log \in Seq(Event)
      /\ UNCHANGED <<round, phase, host, made, silence, lost, readerVars>>
      /\ lastId' = lastId + 1 /\ buffer' = Tail(buffer)
      /\ lastId \in Nat /\ round \in 1 .. Rounds /\ made \in 0 .. LastSeq
      /\ Len(log) \in Nat /\ Len(log) <= lastId
  BY DEF IInv, TypeOK, Written, Counted, Flowing
<1>2. /\ buffer' \in Seq(Event) /\ buffer[1] \in Event /\ Head(buffer) = buffer[1]
      /\ Len(buffer) \in Nat /\ Len(buffer) > 0 /\ Len(buffer') = Len(buffer) - 1
      /\ \A i \in 1 .. Len(buffer) - 1 : buffer'[i] = buffer[i + 1]
  BY <1>1, Shifted, Lengths
<1>3. Len(log) + Len(buffer) <= made
  BY <1>1 DEF IInv, Written, Counted
<1>4. lastId + 1 <= round * LastSeq /\ round * LastSeq <= LastEver
  <2> DEFINE all == round * LastSeq
  <2>1. all \in Nat /\ LastSeq \in Nat /\ all <= LastEver
    BY <1>1, Numbers
  <2>2. lastId + Len(buffer) + LastSeq <= all + made
    BY <1>1 DEF IInv, Written, Counted, Flowing
  <2> HIDE DEF all
  <2> QED
    BY <1>1, <1>2, <2>1, <2>2 DEF all
<1>5. /\ e \in Event /\ e.id = lastId + 1
      /\ e.round = buffer[1].round /\ e.seq = buffer[1].seq /\ e.done = buffer[1].done
  <2>1. lastId + 1 \in 0 .. LastEver
    BY <1>1, <1>4, Numbers
  <2> QED
    BY <1>2, <2>1 DEF Event
<1>6. /\ log' \in Seq(Event) /\ Len(log') = Len(log) + 1
      /\ \A k \in 1 .. Len(log) : log'[k] = log[k]
      /\ log'[Len(log) + 1] = e /\ log' # <<>>
  <2>1. log' = Append(log, e)
    BY <1>2
  <2> HIDE DEF e
  <2>2. /\ log' \in Seq(Event) /\ Len(log') = Len(log) + 1
        /\ \A k \in 1 .. Len(log) : log'[k] = log[k]
        /\ log'[Len(log) + 1] = e
    BY <1>1, <1>5, <2>1, Appended
  <2>3. Len(log') # 0
    BY <1>1, <2>2
  <2>4. log' # <<>>
    BY <2>2, <2>3, Lengths
  <2> QED
    BY <2>2, <2>4
<1> HIDE DEF e, Write, Writing, AddEntry
<1>7. Base' = Base /\ Base \in Nat
  BY <1>1, <1>6 DEF Base
<1>8. TypeOK'
  <2>1. lastId' \in 0 .. LastEver /\ Len(log') <= LastSeq /\ Len(buffer') <= LastSeq
    BY <1>1, <1>2, <1>3, <1>4, <1>6, Numbers
  <2> QED
    BY <1>1, <1>2, <1>6, <2>1 DEF IInv, TypeOK, readerVars
<1>9. Counted'
  <2> DEFINE all == round * LastSeq
  <2>1. all \in Nat /\ LastSeq \in Nat
    BY <1>1, Numbers
  <2>2. lastId + Len(buffer) + LastSeq <= all + made /\ lastId + 1 <= all
    BY <1>1, <1>4 DEF IInv, Written, Counted, Flowing
  <2> HIDE DEF all
  <2>3. lastId' + Len(buffer') + LastSeq <= all + made' /\ lastId' <= all
    BY <1>1, <1>2, <2>1, <2>2
  <2>4. Len(log') + Len(buffer') <= made' /\ Len(log') <= lastId'
    BY <1>1, <1>2, <1>3, <1>6
  <2> QED
    BY <1>1, <2>3, <2>4 DEF IInv, Written, Counted, Flowing, all
<1>10. \A k \in 1 .. Len(log') : k \in 1 .. Len(log) \/ k = Len(log) + 1
  BY <1>1, <1>6
<1>11. \A k \in 1 .. Len(log) : log[k].round = round /\ ~log[k].done
  BY <1>1 DEF IInv, Written, Ordered
<1>12. 1 \in 1 .. Len(buffer) /\ Len(buffer) \in 1 .. Len(buffer)
  BY <1>2
<1>13. /\ e.round = round
       /\ e.done => Len(buffer) = 1 /\ phase = "flush"
       /\ round \notin lost => e.seq = Len(log) + 1
  BY <1>5, <1>12 DEF IInv, Written, Buffered
<1>14. buffer' = <<>> <=> Len(buffer) = 1
  BY <1>2, Lengths
<1>15. Ordered'
  <2>1. ASSUME NEW k \in 1 .. Len(log')
        PROVE  /\ log'[k].id = Base + k
               /\ log'[k].round = round
               /\ round \notin lost => log'[k].seq = k
               /\ log'[k].done => k = Len(log') /\ phase = "flush" /\ buffer' = <<>>
    <3>1. CASE k \in 1 .. Len(log)
      BY <1>6, <1>11, <3>1 DEF IInv, Written, Ordered
    <3>2. CASE k = Len(log) + 1
      BY <1>1, <1>5, <1>6, <1>13, <1>14, <3>2 DEF Base
    <3> QED
      BY <1>10, <3>1, <3>2
  <2>2. UNCHANGED <<phase, round, lost>> /\ phase # "marked" /\ round \in 1 .. round
    BY <1>1 DEF Flowing
  <2> QED
    BY <1>7, <2>1, <2>2 DEF Ordered
<1>16. Buffered'
  <2>1. ASSUME NEW k \in 1 .. Len(buffer')
        PROVE  /\ buffer'[k].round = round
               /\ buffer'[k].done => k = Len(buffer') /\ phase = "flush"
               /\ round \notin lost => buffer'[k].seq = Len(log') + k
    <3>1. k + 1 \in 1 .. Len(buffer) /\ buffer'[k] = buffer[k + 1]
      BY <1>2
    <3>2. /\ buffer[k + 1].round = round
          /\ buffer[k + 1].done => k + 1 = Len(buffer) /\ phase = "flush"
          /\ round \notin lost => buffer[k + 1].seq = Len(log) + (k + 1)
      BY <3>1 DEF IInv, Written, Buffered
    <3>3. /\ Len(log) + (k + 1) = Len(log') + k
          /\ k + 1 = Len(buffer) => k = Len(buffer')
      <4>1. k \in Int /\ Len(log) \in Int /\ Len(buffer) \in Int
        BY <1>1, <1>2
      <4>2. Len(log') = Len(log) + 1 /\ Len(buffer') = Len(buffer) - 1
        BY <1>2, <1>6
      <4> QED
        BY <4>1, <4>2
    <3> QED
      BY <3>1, <3>2, <3>3
  <2>2. round \notin lost => made = Len(log') + Len(buffer')
    <3>1. round \notin lost => made = Len(log) + Len(buffer)
      BY <1>1 DEF IInv, Written, Buffered
    <3>2. Len(log') + Len(buffer') = Len(log) + Len(buffer)
      BY <1>1, <1>2, <1>6
    <3> QED
      BY <3>1, <3>2
  <2>3. ASSUME phase = "flush", round \notin lost
        PROVE  IF buffer' = <<>> THEN log' # <<>> /\ log'[Len(log')].done
                                 ELSE buffer'[Len(buffer')].done
    <3>1. buffer[Len(buffer)].done
      BY <1>1, <2>3 DEF IInv, Written, Buffered
    <3>2. CASE Len(buffer) = 1
      BY <1>5, <1>6, <1>14, <3>1, <3>2
    <3>3. CASE Len(buffer) # 1
      <4>1. Len(buffer') \in 1 .. Len(buffer) - 1 /\ Len(buffer') + 1 = Len(buffer)
        BY <1>2, <3>3
      <4> QED
        BY <1>2, <1>14, <3>1, <3>3, <4>1
    <3> QED
      BY <3>2, <3>3
  <2> QED
    BY <1>1, <2>1, <2>2, <2>3 DEF Buffered, Flowing
<1>17. ASSUME NEW c \in Reader PROVE Read(c)'
  <2>1. UNCHANGED <<at, stop, cursor, got, joined>> /\ Seen(c)' = Seen(c)
    BY <1>1, <1>7 DEF readerVars, Seen
  <2>2. ASSUME at[c] # "ended" PROVE Trailing(c)'
    <3>1. Seen(c) \in 0 .. Len(log) /\ Len(got[c]) \in Nat /\ Trailing(c)
      BY <2>2, Position, Lengths DEF IInv, Written, Read, Aligned, TypeOK
    <3>2. \A i \in 1 .. Seen(c) : got[c][Len(got[c]) - Seen(c) + i] = log'[i]
      BY <1>1, <1>6, <3>1 DEF Trailing
    <3>3. ASSUME NEW i \in 1 .. Len(got[c]) - Seen(c) PROVE Told(c, i) < round
      <4>1. CASE log = <<>>
        BY <1>1, <3>1, <3>3, <4>1 DEF IInv, Read, Earlier, Fresh, Flowing
      <4>2. CASE log # <<>>
        <5>1. 1 \in 1 .. Len(log)
          BY <1>1, <4>2, Lengths
        <5> QED
          BY <1>11, <3>1, <5>1 DEF Trailing
      <4> QED
        BY <4>1, <4>2
    <3>4. \A k \in 1 .. Len(log') : log'[k].round = round
      BY <1>6, <1>10, <1>11, <1>13
    <3> QED
      BY <2>1, <3>1, <3>2, <3>3, <3>4 DEF Trailing, Told
  <2>3. Aligned(c)'
    <3>1. cursor[c] \in Nat /\ cursor[c] <= lastId
      BY DEF IInv, TypeOK, Read, Aligned
    <3> QED
      BY <1>1, <2>1, <2>2, <3>1 DEF IInv, Read, Aligned
  <2>4. Earlier(c)'
    BY <1>1, <1>6, <2>1 DEF IInv, Read, Earlier, Told, Fresh, Flowing
  <2>5. Awaited(c)'
    BY <1>1, <2>1 DEF IInv, Read, Awaited, Flowing, Told
  <2>6. FaithfulTo(c)'
    <3>1. got' = got /\ lost' = lost
      BY <1>1, <2>1
    <3>2. FaithfulTo(c)
      BY DEF IInv, Read
    <3> QED
      BY <3>1, <3>2 DEF FaithfulTo, Told
  <2> QED
    BY <2>3, <2>4, <2>5, <2>6 DEF Read
<1> QED
  BY <1>8, <1>9, <1>15, <1>16, <1>17 DEF IInv, Written

\* What a fault or the end of a task does to log and buffer: nothing is added,
\* and what is missing of the round makes it one of the lost.
LEMMA TaskStep == ASSUME IInv, WriteFails \/ Flushed \/ JobCut \/ Kill PROVE IInv'
<1> USE DEF WriteFails, Flushed, JobCut, Kill, Writing
<1>1. /\ phase \in Flowing /\ phase' \in Flowing \cup {"over"}
      /\ UNCHANGED <<round, host, made, silence, log, lastId, readerVars>>
      /\ round \in 1 .. Rounds /\ made \in Nat
      /\ Len(log) \in Nat /\ Len(buffer) \in Nat /\ buffer \in Seq(Event)
      /\ Len(log) + Len(buffer) <= made
      /\ lost \subseteq lost' /\ lost' \subseteq lost \cup {round}
  BY DEF IInv, TypeOK, Written, Counted, Flowing
<1> DEFINE Less == /\ Len(buffer') \in Nat /\ Len(buffer') <= Len(buffer)
                   /\ \A k \in 1 .. Len(buffer') : \E i \in 1 .. Len(buffer) :
                         buffer'[k] = buffer[i] /\ (i = Len(buffer) => k = Len(buffer'))
<1>2. /\ buffer' \in Seq(Event) /\ Less
      /\ buffer = <<>> => buffer' = <<>>
      /\ phase' = "over" => buffer' = <<>>
  <2>1. CASE WriteFails
    <3>1. buffer # <<>> /\ buffer' = Tail(buffer) /\ phase' = phase
      BY <2>1
    <3>2. /\ buffer' \in Seq(Event) /\ Len(buffer') = Len(buffer) - 1 /\ Len(buffer) > 0
          /\ \A i \in 1 .. Len(buffer) - 1 : buffer'[i] = buffer[i + 1]
      BY <1>1, <3>1, Shifted
    <3>3. ASSUME NEW k \in 1 .. Len(buffer')
          PROVE  \E i \in 1 .. Len(buffer) :
                    buffer'[k] = buffer[i] /\ (i = Len(buffer) => k = Len(buffer'))
      <4>1. k + 1 \in 1 .. Len(buffer) /\ buffer'[k] = buffer[k + 1]
            /\ (k + 1 = Len(buffer) => k = Len(buffer'))
        BY <1>1, <3>2
      <4> QED
        BY <4>1
    <3>4. Less
      BY <1>1, <3>2, <3>3
    <3> QED
      BY <1>1, <3>1, <3>2, <3>4 DEF Flowing
  <2>2. CASE JobCut
    <3>1. buffer' = buffer /\ phase' = "flush"
      BY <2>2
    <3>2. Less
      BY <1>1, <3>1
    <3> QED
      BY <1>1, <3>1, <3>2
  <2>3. CASE Flushed \/ Kill
    <3>1. buffer' = <<>>
      BY <2>3
    <3>2. buffer' \in Seq(Event) /\ Len(buffer') = 0
      BY <3>1, EmptySeq
    <3>3. Less
      BY <1>1, <3>2
    <3> QED
      BY <3>1, <3>2, <3>3
  <2> QED
    BY <2>1, <2>2, <2>3
<1>3. round \notin lost' =>
        /\ round \notin lost
        /\ phase = "flush" /\ phase' = "over" /\ buffer = <<>>
  BY DEF Flowing
<1> HIDE DEF WriteFails, Flushed, JobCut, Kill, Writing
<1>4. phase' \in {phase, "flush", "over"} /\ (phase = "flush" => phase' # "running")
  BY <1>1 DEF WriteFails, Flushed, JobCut, Kill, Flowing
<1>5. TypeOK'
  <2>1. lost' \subseteq 1 .. Rounds /\ Len(buffer') <= LastSeq
    BY <1>1, <1>2, Numbers DEF IInv, TypeOK
  <2> QED
    BY <1>1, <1>2, <2>1 DEF IInv, TypeOK, readerVars, Phases, Flowing
<1>6. Counted'
  <2> DEFINE all == round * LastSeq
  <2>1. all \in Nat /\ LastSeq \in Nat /\ lastId \in Nat
    BY <1>1, Numbers DEF IInv, TypeOK
  <2>2. lastId + Len(buffer) + LastSeq <= all + made /\ lastId <= all
    BY <1>1 DEF IInv, Written, Counted, Flowing
  <2> HIDE DEF all
  <2>3. lastId + Len(buffer') + LastSeq <= all + made
    BY <1>1, <1>2, <2>1, <2>2
  <2>4. Len(log) + Len(buffer') <= made
    BY <1>1, <1>2
  <2>5. lost' \subseteq 1 .. round /\ Len(log) <= lastId
    BY <1>1 DEF IInv, Written, Counted
  <2>6. phase' = "running" => made <= Length
    BY <1>1, <1>4 DEF IInv, Written, Counted, Flowing
  <2> QED
    BY <1>1, <1>2, <2>2, <2>3, <2>4, <2>5, <2>6 DEF Counted, Flowing, all
<1>7. Ordered'
  <2>1. UNCHANGED <<round, log>> /\ Base' = Base /\ phase' # "marked"
    BY <1>1 DEF Base, Flowing
  <2>2. ASSUME NEW k \in 1 .. Len(log)
        PROVE  /\ log[k].id = Base + k
               /\ log[k].round \in 1 .. round /\ log[k].round = round
               /\ log[k].round \notin lost' => log[k].seq = k
               /\ log[k].done => k = Len(log) /\ phase = "flush" /\ buffer = <<>>
    BY <1>1 DEF IInv, Written, Ordered
  <2>3. phase = "flush" /\ phase' \in Flowing => phase' = "flush"
    BY <1>4 DEF Flowing
  <2> QED
    BY <1>2, <2>1, <2>2, <2>3 DEF Ordered
<1>8. Buffered'
  <2>1. ASSUME NEW k \in 1 .. Len(buffer')
        PROVE  /\ buffer'[k].round = round
               /\ buffer'[k].done => k = Len(buffer') /\ phase' = "flush"
               /\ round \in lost'
    <3>1. PICK i \in 1 .. Len(buffer) :
                buffer'[k] = buffer[i] /\ (i = Len(buffer) => k = Len(buffer'))
      BY <1>2
    <3>2. buffer[i].round = round /\ (buffer[i].done => i = Len(buffer) /\ phase = "flush")
      BY DEF IInv, Written, Buffered
    <3>3. buffer # <<>> /\ phase' # "over"
      BY <1>1, <1>2, EmptySeq
    <3> QED
      BY <1>3, <1>4, <3>1, <3>2, <3>3
  <2>2. phase' \in Flowing => round \in lost'
    BY <1>3 DEF Flowing
  <2>3. phase' = "flush" => phase' \in Flowing
    BY DEF Flowing
  <2> QED
    BY <1>1, <2>1, <2>2, <2>3 DEF Buffered
<1>9. ASSUME NEW c \in Reader PROVE Read(c)'
  <2>1. Earlier(c)' /\ Aligned(c)' /\ FaithfulTo(c)'
    BY <1>1, ReadersStay DEF IInv, Fresh, Flowing
  <2>2. Awaited(c)'
    <3>1. UNCHANGED <<at, stop, got, joined, round, host, log>>
      BY <1>1 DEF readerVars
    <3>2. \A k \in 1 .. Len(log) : log[k].round = round
      BY <1>1 DEF IInv, Written, Ordered
    <3>3. round \notin lost' => log # <<>> /\ log[Len(log)].done
      BY <1>3 DEF IInv, Written, Buffered, Flowing
    <3> QED
      BY <1>1, <3>1, <3>2, <3>3 DEF IInv, Read, Awaited, Told
  <2> QED
    BY <2>1, <2>2 DEF Read
<1> QED
  BY <1>5, <1>6, <1>7, <1>8, <1>9 DEF IInv, Written

LEMMA TickStep == ASSUME IInv, Tick PROVE IInv'
<1> USE DEF Tick
<1>1. UNCHANGED <<round, phase, host, made, buffer, log, lastId, lost,
                  at, stop, cap, cursor, got, joined>>
  OBVIOUS
<1>2. silence' \in 0 .. IdleLimit /\ waited' \in [Reader -> 0 .. Longest]
  <2>1. silence' \in 0 .. IdleLimit
    BY TimeAssumption DEF IInv, TypeOK
  <2>2. ASSUME NEW c \in Reader
        PROVE  (IF at[c] = "tail" /\ stop[c] # "registry" THEN waited[c] + 1
                ELSE waited[c]) \in 0 .. Longest
    <3>1. cap[c] \in Caps /\ waited[c] \in 0 .. Longest
      BY DEF IInv, TypeOK
    <3>2. cap[c] \in Nat /\ Longest \in Nat /\ cap[c] <= Longest
      BY <3>1, TimeAssumption DEF Caps, Longest
    <3>3. at[c] = "tail" /\ stop[c] # "registry" => waited[c] < cap[c]
      OBVIOUS
    <3> QED
      BY <3>1, <3>2, <3>3
  <2> QED
    BY <2>1, <2>2
<1> HIDE DEF Tick
<1>3. TypeOK'
  BY <1>1, <1>2 DEF IInv, TypeOK
<1>4. Written'
  BY <1>1 DEF IInv, Written, Counted, Ordered, Buffered, Base
<1>5. ASSUME NEW c \in Reader PROVE Read(c)'
  BY <1>1 DEF IInv, Read, Earlier, Aligned, Trailing, Awaited, FaithfulTo, Told,
              Seen, Base, Fresh
<1> QED
  BY <1>3, <1>4, <1>5 DEF IInv

LEMMA Invariance == ASSUME IInv, [Next]_vars PROVE IInv'
<1>1. CASE Request
  BY <1>1, BeginStep, ClearStep, LaunchStep DEF Request
<1>2. CASE Task
  BY <1>2, LaunchStep, PublishStep, WriteStep, TaskStep DEF Task
<1>3. CASE Tick
  BY <1>3, TickStep
<1>4. ASSUME NEW c \in Reader, Opening(c) \/ Reading(c) PROVE IInv'
  BY <1>4, ReaderStep
<1>5. CASE UNCHANGED vars
  <2>1. UNCHANGED <<round, phase, host, made, silence, buffer, log, lastId, lost,
                    at, stop, cap, waited, cursor, got, joined>>
    BY <1>5 DEF vars, writerVars, readerVars
  <2>2. TypeOK'
    BY <2>1 DEF IInv, TypeOK
  <2>3. Written'
    BY <2>1, WrittenKept DEF IInv, writerVars
  <2>4. ASSUME NEW c \in Reader PROVE Read(c)'
    BY <2>1, ReadKept DEF IInv, writerVars
  <2> QED
    BY <2>2, <2>3, <2>4 DEF IInv
<1> QED
  BY <1>1, <1>2, <1>3, <1>4, <1>5 DEF Next

LEMMA Initially == Init => IInv
<1> SUFFICES ASSUME Init PROVE IInv
  OBVIOUS
<1> USE DEF Init
<1>1. <<>> \in Seq(Event) /\ Len(<<>>) = 0
  BY EmptySeq
<1>2. TypeOK
  BY <1>1, Numbers, SizeAssumption, TimeAssumption DEF TypeOK, Phases, Caps, Longest
<1>3. Written
  BY <1>1, Numbers DEF Written, Counted, Ordered, Buffered, Flowing, Base
<1>4. ASSUME NEW c \in Reader PROVE Read(c)
  BY <1>1 DEF Read, Earlier, Aligned, Trailing, Awaited, FaithfulTo, Told, Seen,
              Base, Fresh
<1> QED
  BY <1>2, <1>3, <1>4 DEF IInv

THEOREM LogInvariant == Spec => []IInv
BY Initially, Invariance, PTL DEF Spec

\* The variables keep their types: the log never holds more than a round's
\* events, and ids, counts and waits stay within their bounds.
THEOREM TypeCorrect == Spec => []TypeOK
<1>1. IInv => TypeOK
  BY DEF IInv
<1> QED
  BY <1>1, LogInvariant, PTL

\* "Nothing twice, nothing lost": through buffer, flush, batches, replay and
\* tail every client has the events of a round in their order, from the first
\* on, unless a fault dropped some (event_stream.py; _stream_from_event_log).
THEOREM NothingTwiceNothingLost == Spec => []Faithful
<1>1. IInv => Faithful
  BY FaithfulEach DEF IInv, Read
<1> QED
  BY <1>1, LogInvariant, PTL

\* A client that resumed a running task of this process ends with the task's
\* own done, however flush, forgetting and last read interleave (_stop in
\* _stream_from_event_log, the finally block of run_chat_task).
THEOREM TasksAnswer == Spec => []RunningTaskAnswers
<1>1. IInv => RunningTaskAnswers
  <2> SUFFICES ASSUME IInv, NEW c \in Reader, at[c] = "ended", stop[c] = "registry",
                      joined[c].round = round, round \notin lost
               PROVE  \E k \in DOMAIN got[c] : Told(c, k) = round /\ got[c][k].done
    BY DEF RunningTaskAnswers
  <2>1. DOMAIN got[c] = 1 .. Len(got[c])
    BY Lengths DEF IInv, TypeOK
  <2> QED
    BY <2>1 DEF IInv, Read, Awaited
<1> QED
  BY <1>1, LogInvariant, PTL

=============================================================================
