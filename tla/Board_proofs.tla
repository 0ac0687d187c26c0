---------------------------- MODULE Board_proofs -----------------------------
(***************************************************************************)
(* What is proved of the page of a canvas, for any canvases, edits,        *)
(* requests, streams, turns and texts: that no edit is lost and none lands *)
(* in another canvas (CanvasAutosave), that the assistant next to it shows *)
(* the conversation of its canvas, all of it, and holds its lock as long   *)
(* as a stream writes to it (AssistantStore), that a turn puts no text on  *)
(* a canvas twice and its list is what its events made of the page         *)
(* (CanvasActions), and that the three keep their types in the suite.      *)
(***************************************************************************)
EXTENDS MCBoard, SequenceTheorems, FiniteSetTheorems, WellFoundedInduction, TLAPS

-----------------------------------------------------------------------------
(***************************************************************************)
(* Sequences.                                                              *)
(***************************************************************************)
LEMMA Lengths ==
    ASSUME NEW S, NEW s \in Seq(S)
    PROVE  /\ Len(s) \in Nat /\ DOMAIN s = 1 .. Len(s)
           /\ \A i \in 1 .. Len(s) : s[i] \in S
BY LenProperties, ElementOfSeq

LEMMA Appended ==
    ASSUME NEW S, NEW s \in Seq(S), NEW p \in S
    PROVE  /\ Append(s, p) \in Seq(S) /\ Len(Append(s, p)) = Len(s) + 1
           /\ \A i \in 1 .. Len(s) : Append(s, p)[i] = s[i]
           /\ Append(s, p)[Len(s) + 1] = p
           /\ s \o <<p>> = Append(s, p) /\ s \o <<>> = s
BY AppendProperties, AppendIsConcat, ConcatEmptySeq

LEMMA Removed ==
    ASSUME NEW S, NEW s \in Seq(S), NEW i \in 1 .. Len(s)
    PROVE  /\ RemoveAt(s, i) \in Seq(S) /\ Len(RemoveAt(s, i)) = Len(s) - 1
           /\ \A k \in 1 .. Len(s) - 1 : RemoveAt(s, i)[k] = IF k < i THEN s[k] ELSE s[k + 1]
<1> DEFINE a == SubSeq(s, 1, i - 1)
           b == SubSeq(s, i + 1, Len(s))
<1>1. Len(s) \in Nat /\ \A k \in 1 .. Len(s) : s[k] \in S
  BY Lengths
<1>2. a \in Seq(S) /\ Len(a) = i - 1 /\ \A k \in 1 .. i - 1 : a[k] = s[k]
  <2>1. 1 \in Int /\ i - 1 \in Int /\ \A k \in 1 .. i - 1 : s[k] \in S
    BY <1>1
  <2> QED
    BY <1>1, <2>1, SubSeqProperties
<1>3. b \in Seq(S) /\ Len(b) = Len(s) - i /\ \A k \in 1 .. Len(s) - i : b[k] = s[i + k]
  <2>1. i + 1 \in Int /\ Len(s) \in Int /\ \A k \in i + 1 .. Len(s) : s[k] \in S
    BY <1>1
  <2> QED
    BY <1>1, <2>1, SubSeqProperties
<1> HIDE DEF a, b
<1>4. /\ a \o b \in Seq(S) /\ Len(a \o b) = Len(a) + Len(b)
      /\ \A k \in 1 .. Len(a) + Len(b) :
            (a \o b)[k] = IF k <= Len(a) THEN a[k] ELSE b[k - Len(a)]
  BY <1>2, <1>3, ConcatProperties
<1>5. RemoveAt(s, i) = a \o b
  BY DEF RemoveAt, a, b
<1>6. ASSUME NEW k \in 1 .. Len(s) - 1
      PROVE  (a \o b)[k] = IF k < i THEN s[k] ELSE s[k + 1]
  <2>1. CASE k < i
    BY <1>1, <1>2, <1>3, <1>4, <2>1
  <2>2. CASE ~(k < i)
    <3>1. (a \o b)[k] = b[k - (i - 1)] /\ k - (i - 1) \in 1 .. Len(s) - i
      BY <1>1, <1>2, <1>3, <1>4, <2>2
    <3>2. i + (k - (i - 1)) = k + 1
      BY <1>1
    <3> QED
      BY <1>3, <2>2, <3>1, <3>2
  <2> QED
    BY <2>1, <2>2
<1> QED
  BY <1>1, <1>2, <1>3, <1>4, <1>5, <1>6

\* Induction, by the least counterexample.
LEMMA Least ==
    ASSUME NEW T \in SUBSET Nat, T # {}
    PROVE  \E m \in T : \A k \in T : m <= k
<1>1. PICK m \in T : \A k \in T : <<k, m>> \notin OpToRel(<, Nat)
  BY WFMin, NatLessThanWellFounded, Zenon
<1>2. \A k \in T : ~(k < m)
  BY <1>1, Zenon DEF OpToRel
<1> QED
  BY <1>2

LEMMA Fields ==
    ASSUME NEW p \in Put
    PROVE  p.c \in UserCanvases /\ p.v \in Drafts /\ p.landed \in BOOLEAN
BY DEF Put

LEMMA RequestMade ==
    ASSUME NEW c \in UserCanvases, NEW v \in Drafts, NEW kind \in {"timer", "cleanup", "flush"}
    PROVE  /\ Request(c, v, kind) \in Put /\ Request(c, v, kind).c = c
           /\ Request(c, v, kind).v = v /\ ~Request(c, v, kind).landed
BY DEF Request, Put

-----------------------------------------------------------------------------
(***************************************************************************)
(* What a row will hold.                                                   *)
(***************************************************************************)
\* The last request for a canvas decides; the others leave it alone.
LEMMA AppendDecides ==
    ASSUME NEW s \in Seq(Put), NEW p \in Put, ~p.landed
    PROVE  /\ WillHold(Append(s, p), p.c, p.v)
           /\ \A c, v : c # p.c /\ WillHold(s, c, v) => WillHold(Append(s, p), c, v)
<1> DEFINE t == Append(s, p)
<1>1. /\ t \in Seq(Put) /\ Len(t) = Len(s) + 1 /\ Len(s) \in Nat /\ t[Len(s) + 1] = p
      /\ \A i \in 1 .. Len(s) : t[i] = s[i]
  BY Appended, Lengths
<1>2. DOMAIN t = 1 .. Len(s) + 1 /\ DOMAIN s = 1 .. Len(s)
  BY <1>1, Lengths
<1> HIDE DEF t
<1>3. WillHold(t, p.c, p.v)
  BY <1>1, <1>2 DEF WillHold, Flying
<1>4. ASSUME NEW c, NEW v, c # p.c, WillHold(s, c, v)
      PROVE  WillHold(t, c, v)
  <2>1. Flying(t, c) = Flying(s, c)
    BY <1>1, <1>2, <1>4 DEF Flying
  <2>2. \A i \in Flying(s, c) : t[i] = s[i]
    BY <1>1, <1>2 DEF Flying
  <2> QED
    BY <1>4, <2>1, <2>2 DEF WillHold
<1> QED
  BY <1>3, <1>4 DEF t

\* What a row will hold, of the requests of the next state.
LEMMA StillDecides ==
    ASSUME NEW s, NEW c, NEW v, WillHold(s, c, v), UNCHANGED saved, puts' = s, last'[c] = v
    PROVE  WillHold(puts, c, last[c])'
<1>1. Flying(puts, c)' = Flying(s, c)
  BY DEF Flying
<1>2. \/ Flying(puts, c)' = {} /\ saved'[c] = last'[c]
      \/ \E i \in Flying(puts, c)' : puts'[i].v = last'[c] /\ \A j \in Flying(puts, c)' : j <= i
  BY <1>1 DEF WillHold
<1> QED
  BY <1>2 DEF WillHold

\* A request that has landed may be forgotten.
LEMMA RemovalLeaves ==
    ASSUME NEW s \in Seq(Put), NEW i \in 1 .. Len(s), s[i].landed, NEW c, NEW v, WillHold(s, c, v)
    PROVE  WillHold(RemoveAt(s, i), c, v)
<1> DEFINE t == RemoveAt(s, i)
<1>1. /\ t \in Seq(Put) /\ Len(t) = Len(s) - 1 /\ Len(s) \in Nat
      /\ \A k \in 1 .. Len(s) - 1 : t[k] = IF k < i THEN s[k] ELSE s[k + 1]
  BY Removed, Lengths
<1>2. DOMAIN t = 1 .. Len(s) - 1 /\ DOMAIN s = 1 .. Len(s)
  BY <1>1, Lengths
<1> HIDE DEF t
<1>3. \A k \in Flying(t, c) : IF k < i THEN k \in Flying(s, c) ELSE k + 1 \in Flying(s, c)
  BY <1>1, <1>2 DEF Flying
<1>4. ASSUME Flying(s, c) = {}, saved[c] = v
      PROVE  WillHold(t, c, v)
  BY <1>3, <1>4 DEF WillHold
<1>5. ASSUME NEW k \in Flying(s, c), s[k].v = v, \A j \in Flying(s, c) : j <= k
      PROVE  WillHold(t, c, v)
  <2> DEFINE m == IF k < i THEN k ELSE k - 1
  <2>1. k # i /\ k \in 1 .. Len(s) /\ s[k].c = c /\ ~s[k].landed
    BY <1>2, <1>5 DEF Flying
  <2>2. m \in 1 .. Len(s) - 1 /\ t[m] = s[k]
    BY <1>1, <2>1
  <2>3. m \in Flying(t, c)
    BY <1>2, <2>1, <2>2 DEF Flying
  <2>4. ASSUME NEW j \in Flying(t, c) PROVE j <= m
    <3>1. j \in 1 .. Len(s) - 1
      BY <1>2 DEF Flying
    <3> QED
      BY <1>1, <1>3, <1>5, <2>1, <3>1
  <2> HIDE DEF m
  <2> QED
    BY <1>5, <2>2, <2>3, <2>4 DEF WillHold
<1>6. (Flying(s, c) = {} /\ saved[c] = v)
      \/ \E k \in Flying(s, c) : s[k].v = v /\ \A j \in Flying(s, c) : j <= k
  BY DEF WillHold
<1>7. WillHold(t, c, v)
  BY <1>4, <1>5, <1>6
<1> QED
  BY <1>7 DEF t

-----------------------------------------------------------------------------
(***************************************************************************)
(* The inductive invariant.                                                *)
(***************************************************************************)
\* The effect and its snapshot are of what the page shows.
Screen ==
    /\ last[cur] = blocks
    /\ effect # Nothing => effect.c = cur /\ effect.v = blocks
    /\ pending # Nothing => effect # Nothing /\ pending.c = effect.c /\ pending.v = effect.v

\* What is sent, held or fetched was shown of its canvas.
OnScreen ==
    /\ NoCrossTalk
    /\ \A c \in UserCanvases : last[c] \in shown[c]
    /\ fetched # Nothing => fetched.v \in shown[fetched.c]

\* What the page last showed of a canvas is on its way to the row, or still in
\* the snapshot of an effect that will fire.
Kept == losses = {} =>
    \A c \in UserCanvases : WillHold(puts, c, last[c]) \/ (Armed(c) /\ pending # Nothing)

AutosaveInv == AutosaveTypeOK /\ Screen /\ OnScreen /\ Kept

LEMMA Initially == AutosaveInit => AutosaveInv
<1> SUFFICES ASSUME AutosaveInit PROVE AutosaveInv
  OBVIOUS
<1> USE DEF AutosaveInit
<1>1. 0 \in Drafts /\ 0 \in 0 .. MaxOpens /\ MaxPuts \in Nat
  BY AutosaveAssumption DEF Drafts
<1>2. cur \in UserCanvases
  BY AutosaveAssumption
<1>3. puts \in Seq(Put) /\ Len(puts) = 0 /\ DOMAIN puts = {}
  BY EmptySeq, Lengths
<1>4. AutosaveTypeOK
  BY <1>1, <1>2, <1>3 DEF AutosaveTypeOK, Drafts
<1>5. Screen /\ OnScreen
  BY <1>2, <1>3 DEF Screen, OnScreen, NoCrossTalk
<1>6. Kept
  <2> SUFFICES ASSUME NEW c \in UserCanvases PROVE WillHold(puts, c, last[c])
    BY DEF Kept
  <2>1. Flying(puts, c) = {} /\ saved[c] = last[c]
    BY <1>3 DEF Flying
  <2> QED
    BY <2>1 DEF WillHold
<1> QED
  BY <1>4, <1>5, <1>6 DEF AutosaveInv

\* The page knows what it is about to send when the effect is cleaned up: what
\* it shows, if a snapshot is held, and nothing otherwise.
LEMMA LeftoverIsShown ==
    ASSUME AutosaveTypeOK, Screen
    PROVE  /\ pending # Nothing => Leftover(cur) = <<Request(cur, blocks, "cleanup")>>
           /\ pending = Nothing => Leftover(cur) = <<>>
           /\ \A c : Leftover(c) = Leftover(cur)
BY DEF Screen, Leftover

\* Requests appended were shown of their canvas.
LEMMA AppendShown ==
    ASSUME NEW s \in Seq(Put), NEW p \in Put, NEW f,
           \A i \in DOMAIN s : s[i].v \in f[s[i].c], p.v \in f[p.c]
    PROVE  \A i \in DOMAIN Append(s, p) : Append(s, p)[i].v \in f[Append(s, p)[i].c]
<1>1. Append(s, p) \in Seq(Put) /\ Len(Append(s, p)) = Len(s) + 1 /\ Len(s) \in Nat
      /\ \A i \in 1 .. Len(s) : Append(s, p)[i] = s[i]
      /\ Append(s, p)[Len(s) + 1] = p
  BY Appended, Lengths
<1>2. DOMAIN Append(s, p) = 1 .. Len(s) + 1 /\ DOMAIN s = 1 .. Len(s)
  BY <1>1, Lengths
<1> QED
  BY <1>1, <1>2

-----------------------------------------------------------------------------
(***************************************************************************)
(* The page shows another list, or another canvas.                         *)
(***************************************************************************)
LEMMA RenderKeeps ==
    ASSUME AutosaveInv, NEW c \in UserCanvases, NEW v \in Drafts, NEW lost \in SUBSET Losses,
           Render(c, v, lost), UNCHANGED <<saved, lastSync>>, edits' \in 0 .. MaxEdits,
           opens' \in 0 .. MaxOpens,
           fetched' \in {Nothing, fetched}
    PROVE  AutosaveInv'
<1> DEFINE sending == puts \o Leftover(c)
           p == Request(cur, blocks, "cleanup")
<1> USE DEF AutosaveInv
<1>1. /\ puts \in Seq(Put) /\ cur \in UserCanvases /\ blocks \in Drafts
      /\ last \in [UserCanvases -> Drafts] /\ shown \in [UserCanvases -> SUBSET Drafts]
  BY DEF AutosaveTypeOK
<1>2. p \in Put /\ p.c = cur /\ p.v = blocks /\ ~p.landed
  BY <1>1, RequestMade
<1>3. /\ pending # Nothing => sending = Append(puts, p)
      /\ pending = Nothing => sending = puts
  <2>1. puts \o <<p>> = Append(puts, p) /\ puts \o <<>> = puts
    BY <1>1, <1>2, Appended
  <2>2. /\ pending # Nothing => Leftover(c) = <<p>>
        /\ pending = Nothing => Leftover(c) = <<>>
    BY LeftoverIsShown
  <2> QED
    BY <2>1, <2>2
<1>4. sending \in Seq(Put)
  <2>1. Append(puts, p) \in Seq(Put)
    BY <1>1, <1>2, Appended
  <2> HIDE DEF sending, p
  <2> QED
    BY <1>1, <1>3, <2>1
<1>5. /\ Len(puts') <= MaxPuts /\ puts' = sending /\ cur' = c /\ blocks' = v
      /\ last' = [last EXCEPT ![c] = v] /\ shown' = [shown EXCEPT ![c] = @ \cup {v}]
  BY DEF Render
<1>6. \/ /\ v = lastSync /\ effect' = Nothing /\ pending' = Nothing
         /\ losses' = losses \cup lost \cup (IF ~WillHold(sending, c, v) THEN {"undo"} ELSE {})
      \/ /\ effect' = [c |-> c, v |-> v, fired |-> FALSE] /\ pending' = [c |-> c, v |-> v]
         /\ losses' = losses \cup lost
  <2>1. (IF Leftover(c) # <<>> THEN Nothing ELSE pending) = Nothing
    <3>1. <<p>> # <<>>
      OBVIOUS
    <3> QED
      BY <3>1, LeftoverIsShown
  <2> QED
    BY <2>1 DEF Render
<1>7. [c |-> c, v |-> v, fired |-> FALSE] \in Effect /\ [c |-> c, v |-> v] \in Snapshot
  BY DEF Effect, Snapshot
<1>8. Nothing \notin Effect /\ Nothing \notin Snapshot
  BY AutosaveAssumption
<1> HIDE DEF sending, p
<1>9. AutosaveTypeOK'
  BY <1>4, <1>5, <1>6, <1>7 DEF AutosaveTypeOK, Losses
<1>10. Screen'
  <2>1. last'[cur'] = blocks'
    BY <1>1, <1>5
  <2>2. effect' # Nothing => effect'.c = cur' /\ effect'.v = blocks'
    BY <1>5, <1>6
  <2>3. pending' # Nothing => effect' # Nothing /\ pending'.c = effect'.c /\ pending'.v = effect'.v
    <3>1. CASE pending' = Nothing
      BY <3>1
    <3>2. CASE effect' = [c |-> c, v |-> v, fired |-> FALSE] /\ pending' = [c |-> c, v |-> v]
      <4>1. effect' # Nothing
        BY <1>7, <1>8, <3>2
      <4>2. pending'.c = c /\ pending'.v = v /\ effect'.c = c /\ effect'.v = v
        BY <3>2
      <4> QED
        BY <4>1, <4>2
    <3> QED
      BY <1>6, <3>1, <3>2
  <2> QED
    BY <2>1, <2>2, <2>3 DEF Screen
<1>11. OnScreen'
  <2>1. \A d \in UserCanvases : shown[d] \subseteq shown'[d] /\ last'[d] \in shown'[d]
    BY <1>1, <1>5 DEF OnScreen
  <2>2. \A i \in DOMAIN sending : sending[i].v \in shown[sending[i].c]
    <3>1. \A i \in DOMAIN puts : puts[i].v \in shown[puts[i].c]
      BY DEF OnScreen, NoCrossTalk
    <3>2. p.v \in shown[p.c]
      BY <1>1, <1>2 DEF OnScreen, Screen
    <3> QED
      BY <1>1, <1>2, <1>3, <3>1, <3>2, AppendShown
  <2>3. \A i \in DOMAIN sending : sending[i].c \in UserCanvases
    BY <1>4, Lengths, Fields
  <2>4. fetched # Nothing => fetched.c \in UserCanvases
    BY DEF AutosaveTypeOK, Snapshot
  <2>5. \A d \in UserCanvases : saved'[d] \in shown'[d]
    BY <2>1 DEF OnScreen, NoCrossTalk
  <2>6. \A i \in DOMAIN puts' : puts'[i].v \in shown'[puts'[i].c]
    BY <1>5, <2>1, <2>2, <2>3
  <2>7. fetched' # Nothing => fetched'.v \in shown'[fetched'.c]
    BY <2>1, <2>4 DEF OnScreen
  <2> QED
    BY <2>1, <2>5, <2>6, <2>7 DEF OnScreen, NoCrossTalk
<1>12. Kept'
  <2> SUFFICES ASSUME losses' = {}, NEW d \in UserCanvases
               PROVE  (WillHold(puts, d, last[d]) \/ (Armed(d) /\ pending # Nothing))'
    BY DEF Kept
  <2>1. losses = {}
    BY <1>6
  <2>2. CASE d = c
    <3>1. last'[d] = v
      BY <1>1, <1>5, <2>2
    <3>2. CASE WillHold(sending, c, v)
      <4>1. WillHold(puts, d, last[d])'
        BY <1>5, <2>2, <3>1, <3>2, StillDecides
      <4> QED
        BY <4>1
    <3>3. CASE ~WillHold(sending, c, v)
      <4>1. effect' = [c |-> c, v |-> v, fired |-> FALSE] /\ pending' = [c |-> c, v |-> v]
        BY <1>6, <3>3
      <4> QED
        BY <1>5, <1>7, <1>8, <2>2, <4>1 DEF Armed
    <3> QED
      BY <3>2, <3>3
  <2>3. CASE d # c
    <3>1. last'[d] = last[d]
      BY <1>1, <1>5, <2>3
    <3>2. WillHold(sending, d, last[d])
      <4>1. WillHold(puts, d, last[d]) \/ (d = cur /\ pending # Nothing)
        BY <2>1 DEF Kept, Armed
      <4>2. CASE d = cur /\ pending # Nothing
        BY <1>1, <1>2, <1>3, <4>2, AppendDecides DEF Screen
      <4>3. CASE WillHold(puts, d, last[d]) /\ ~(d = cur /\ pending # Nothing)
        BY <1>1, <1>2, <1>3, <4>3, AppendDecides
      <4> QED
        BY <4>1, <4>2, <4>3
    <3>3. WillHold(puts, d, last[d])'
      BY <1>5, <3>1, <3>2, StillDecides
    <3> QED
      BY <3>3
  <2> QED
    BY <2>2, <2>3
<1> QED
  BY <1>9, <1>10, <1>11, <1>12

LEMMA EditKeeps == ASSUME AutosaveInv, Edit PROVE AutosaveInv'
<1>1. PICK v \in {edits + 1, saved[cur], 0} : Render(cur, v, {})
  BY DEF Edit
<1>2. cur \in UserCanvases /\ v \in Drafts /\ edits' \in 0 .. MaxEdits
  BY <1>1, AutosaveAssumption DEF Edit, AutosaveInv, AutosaveTypeOK, Drafts
<1>3. opens' \in 0 .. MaxOpens /\ fetched' = fetched /\ UNCHANGED <<saved, lastSync>>
  BY DEF Edit, AutosaveInv, AutosaveTypeOK
<1> QED
  BY <1>1, <1>2, <1>3, RenderKeeps

LEMMA OpenKeeps == ASSUME AutosaveInv, Open PROVE AutosaveInv'
<1>1. PICK lost \in SUBSET Losses : Render(fetched.c, fetched.v, lost)
  BY DEF Open, Losses
<1>2. fetched.c \in UserCanvases /\ fetched.v \in Drafts
  BY DEF Open, AutosaveInv, AutosaveTypeOK, Snapshot
<1>3. /\ opens' \in 0 .. MaxOpens /\ edits' \in 0 .. MaxEdits /\ fetched' = Nothing
      /\ UNCHANGED <<saved, lastSync>>
  BY DEF Open, AutosaveInv, AutosaveTypeOK
<1> QED
  BY <1>1, <1>2, <1>3, RenderKeeps

-----------------------------------------------------------------------------
(***************************************************************************)
(* A request of what the page shows is sent.                               *)
(***************************************************************************)
LEMMA SendingKeeps ==
    ASSUME AutosaveInv, NEW kind \in {"timer", "flush"}, Len(puts) < MaxPuts,
           puts' = Append(puts, Request(cur, blocks, kind)),
           \/ effect' = effect
           \/ effect # Nothing /\ effect' = [effect EXCEPT !.fired = TRUE],
           edits' \in 0 .. MaxEdits,
           UNCHANGED <<saved, cur, blocks, lastSync, pending, fetched, opens, last, shown, losses>>
    PROVE  AutosaveInv'
<1> DEFINE p == Request(cur, blocks, kind)
<1> USE DEF AutosaveInv
<1>1. /\ puts \in Seq(Put) /\ cur \in UserCanvases /\ blocks \in Drafts
      /\ last \in [UserCanvases -> Drafts] /\ shown \in [UserCanvases -> SUBSET Drafts]
  BY DEF AutosaveTypeOK
<1>2. p \in Put /\ p.c = cur /\ p.v = blocks /\ ~p.landed
  BY <1>1, RequestMade
<1> HIDE DEF p
<1>3. puts' = Append(puts, p) /\ puts' \in Seq(Put) /\ Len(puts') <= MaxPuts
  <2>1. Len(puts) \in Nat /\ Len(puts') = Len(puts) + 1 /\ MaxPuts \in Nat
    BY <1>1, <1>2, Appended, Lengths, AutosaveAssumption DEF p
  <2> QED
    BY <1>1, <1>2, <2>1, Appended DEF p
<1>4. effect' = Nothing \/ effect' \in Effect
  BY DEF AutosaveTypeOK, Effect
<1>5. /\ effect' # Nothing => effect # Nothing /\ effect'.c = effect.c /\ effect'.v = effect.v
      /\ effect # Nothing => effect' # Nothing
  <2>1. CASE effect' = effect
    BY <2>1
  <2>2. CASE effect # Nothing /\ effect' = [effect EXCEPT !.fired = TRUE]
    <3>1. effect \in Effect /\ effect' \in Effect
      BY <2>2 DEF AutosaveTypeOK, Effect
    <3>2. effect' # Nothing
      BY <3>1, AutosaveAssumption
    <3>3. effect'.c = effect.c /\ effect'.v = effect.v
      BY <2>2, <3>1 DEF Effect
    <3> QED
      BY <2>2, <3>2, <3>3
  <2> QED
    BY <2>1, <2>2
<1>6. AutosaveTypeOK'
  BY <1>3, <1>4 DEF AutosaveTypeOK
<1>7. Screen'
  BY <1>5 DEF Screen
<1>8. OnScreen'
  <2>1. \A i \in DOMAIN puts : puts[i].v \in shown[puts[i].c]
    BY DEF OnScreen, NoCrossTalk
  <2>2. p.v \in shown[p.c]
    BY <1>1, <1>2 DEF OnScreen, Screen
  <2>3. \A i \in DOMAIN puts' : puts'[i].v \in shown[puts'[i].c]
    BY <1>1, <1>2, <1>3, <2>1, <2>2, AppendShown
  <2> QED
    BY <2>3 DEF OnScreen, NoCrossTalk
<1>9. Kept'
  <2> SUFFICES ASSUME losses = {}, NEW d \in UserCanvases
               PROVE  WillHold(puts, d, last[d])'
    BY DEF Kept
  <2>1. WillHold(puts', d, last[d])
    <3>1. CASE d = cur
      BY <1>1, <1>2, <1>3, <3>1, AppendDecides DEF Screen
    <3>2. CASE d # cur
      BY <1>1, <1>2, <1>3, <3>2, AppendDecides DEF Kept, Armed
    <3> QED
      BY <3>1, <3>2
  <2> QED
    BY <2>1, StillDecides
<1> QED
  BY <1>6, <1>7, <1>8, <1>9

LEMMA FireKeeps == ASSUME AutosaveInv, Fire PROVE AutosaveInv'
<1>1. effect.c = cur /\ effect.v = blocks
  BY DEF Fire, AutosaveInv, Screen
<1>2. edits' \in 0 .. MaxEdits
  BY DEF Fire, AutosaveInv, AutosaveTypeOK
<1> QED
  BY <1>1, <1>2, SendingKeeps DEF Fire

LEMMA FlushKeeps == ASSUME AutosaveInv, FlushNow PROVE AutosaveInv'
<1>1. edits' \in 0 .. MaxEdits
  BY AutosaveAssumption DEF FlushNow, AutosaveInv, AutosaveTypeOK
<1> QED
  BY <1>1, SendingKeeps DEF FlushNow

-----------------------------------------------------------------------------
(***************************************************************************)
(* The server answers.                                                     *)
(***************************************************************************)
LEMMA RemovedShown ==
    ASSUME NEW s \in Seq(Put), NEW i \in 1 .. Len(s), NEW f,
           \A k \in DOMAIN s : s[k].v \in f[s[k].c]
    PROVE  \A k \in DOMAIN RemoveAt(s, i) : RemoveAt(s, i)[k].v \in f[RemoveAt(s, i)[k].c]
<1>1. /\ RemoveAt(s, i) \in Seq(Put) /\ Len(RemoveAt(s, i)) = Len(s) - 1 /\ Len(s) \in Nat
      /\ \A k \in 1 .. Len(s) - 1 : RemoveAt(s, i)[k] = IF k < i THEN s[k] ELSE s[k + 1]
  BY Removed, Lengths
<1>2. DOMAIN RemoveAt(s, i) = 1 .. Len(s) - 1 /\ DOMAIN s = 1 .. Len(s)
  BY <1>1, Lengths
<1> SUFFICES ASSUME NEW k \in 1 .. Len(s) - 1
             PROVE  RemoveAt(s, i)[k].v \in f[RemoveAt(s, i)[k].c]
  BY <1>2
<1>3. PICK m \in 1 .. Len(s) : RemoveAt(s, i)[k] = s[m]
  <2>1. k \in 1 .. Len(s) /\ k + 1 \in 1 .. Len(s)
    BY <1>1
  <2> QED
    BY <1>1, <2>1
<1> QED
  BY <1>2, <1>3

LEMMA LandingKeeps == ASSUME AutosaveInv, NEW i \in DOMAIN puts, PutLands(i) PROVE AutosaveInv'
<1> USE DEF AutosaveInv
<1> DEFINE p == puts[i]
           q == [p EXCEPT !.landed = TRUE]
<1>1. /\ puts \in Seq(Put) /\ Len(puts) \in Nat /\ DOMAIN puts = 1 .. Len(puts) /\ p \in Put
      /\ p.c \in UserCanvases /\ p.v \in Drafts /\ ~p.landed /\ Len(puts) <= MaxPuts
  <2>1. puts \in Seq(Put) /\ Len(puts) <= MaxPuts /\ ~p.landed
    BY DEF AutosaveTypeOK, PutLands
  <2>2. p \in Put /\ Len(puts) \in Nat /\ DOMAIN puts = 1 .. Len(puts)
    BY <2>1, Lengths
  <2> QED
    BY <2>1, <2>2, Fields
<1>2. q \in Put /\ q.c = p.c /\ q.v = p.v /\ q.landed
  BY <1>1 DEF Put
<1> HIDE DEF q
<1>3. /\ puts' = [puts EXCEPT ![i] = q]
      /\ saved' = [saved EXCEPT ![p.c] = p.v]
  BY DEF PutLands, q
<1> HIDE DEF p
<1>4. puts' \in Seq(Put) /\ Len(puts') = Len(puts)
      /\ \A k \in 1 .. Len(puts) : puts'[k] = IF k = i THEN q ELSE puts[k]
  BY <1>1, <1>2, <1>3, ExceptSeq
<1>5. DOMAIN puts' = 1 .. Len(puts)
  BY <1>4, Lengths
<1>6. UNCHANGED <<cur, blocks, lastSync, pending, effect, fetched, edits, opens, last, shown>>
      /\ losses' = losses \cup (IF \E j \in 1 .. i - 1 : puts[j].c = p.c /\ ~puts[j].landed
                                THEN {"order"} ELSE {})
  BY DEF PutLands, p
<1>7. AutosaveTypeOK'
  BY <1>1, <1>3, <1>4, <1>6 DEF AutosaveTypeOK, Losses
<1>8. Screen'
  BY <1>6 DEF Screen
<1>9. OnScreen'
  <2>1. \A c \in UserCanvases : saved'[c] \in shown[c]
    <3>1. p.v \in shown[p.c]
      BY DEF OnScreen, NoCrossTalk, p
    <3> QED
      BY <1>1, <1>3, <3>1 DEF OnScreen, NoCrossTalk, AutosaveTypeOK
  <2>2. \A k \in DOMAIN puts' : puts'[k].v \in shown[puts'[k].c]
    BY <1>1, <1>2, <1>4, <1>5 DEF OnScreen, NoCrossTalk, p
  <2> QED
    BY <1>6, <2>1, <2>2 DEF OnScreen, NoCrossTalk
<1>10. Kept'
  <2> SUFFICES ASSUME losses' = {}, NEW d \in UserCanvases, WillHold(puts, d, last[d])
               PROVE  WillHold(puts, d, last[d])'
    BY <1>6 DEF Kept, Armed
  <2>1. Flying(puts, d)' = Flying(puts, d) \ {i}
    BY <1>1, <1>2, <1>4, <1>5 DEF Flying
  <2>2. /\ Flying(puts, d) \subseteq 1 .. Len(puts) /\ last'[d] = last[d]
        /\ \A k \in Flying(puts, d) \ {i} : puts'[k].v = puts[k].v
    BY <1>1, <1>4, <1>6 DEF Flying
  <2>3. (Flying(puts, d) = {} /\ saved[d] = last[d])
        \/ \E k \in Flying(puts, d) : puts[k].v = last[d] /\ \A j \in Flying(puts, d) : j <= k
    BY DEF WillHold
  <2>4. ASSUME NEW k \in Flying(puts, d), k # i, puts[k].v = last[d],
               \A j \in Flying(puts, d) : j <= k
        PROVE  WillHold(puts, d, last[d])'
    BY <2>1, <2>2, <2>4 DEF WillHold
  <2>5. CASE d # p.c
    <3>1. i \notin Flying(puts, d)
      BY <2>5 DEF Flying, p
    <3>2. saved'[d] = saved[d]
      BY <1>3, <2>5 DEF AutosaveTypeOK
    <3>3. ASSUME Flying(puts, d) = {}, saved[d] = last[d]
          PROVE  WillHold(puts, d, last[d])'
      BY <2>1, <2>2, <3>2, <3>3 DEF WillHold
    <3> QED
      BY <2>3, <2>4, <3>1, <3>3
  <2>6. CASE d = p.c
    <3>1. i \in Flying(puts, d)
      BY <1>1, <2>6 DEF Flying, p
    <3>2. ASSUME NEW j \in Flying(puts, d), j < i PROVE FALSE
      <4>1. j \in 1 .. i - 1 /\ puts[j].c = p.c /\ ~puts[j].landed
        BY <1>1, <2>2, <2>6, <3>2 DEF Flying
      <4>2. "order" \in losses'
        BY <1>6, <4>1
      <4> QED
        BY <4>2
    <3>3. ASSUME puts[i].v = last[d], \A j \in Flying(puts, d) : j <= i
          PROVE  WillHold(puts, d, last[d])'
      <4>1. Flying(puts, d)' = {}
        BY <1>1, <2>1, <2>2, <3>2, <3>3
      <4>2. saved'[d] = last'[d]
        BY <1>3, <2>2, <2>6, <3>3 DEF AutosaveTypeOK, p
      <4> QED
        BY <4>1, <4>2 DEF WillHold
    <3> QED
      BY <2>3, <2>4, <3>1, <3>3
  <2> QED
    BY <2>5, <2>6
<1> QED
  BY <1>7, <1>8, <1>9, <1>10

LEMMA AnswerKeeps == ASSUME AutosaveInv, NEW i \in DOMAIN puts, Answer(i) PROVE AutosaveInv'
<1> USE DEF AutosaveInv
<1>1. /\ puts \in Seq(Put) /\ i \in 1 .. Len(puts) /\ puts[i] \in Put /\ puts[i].v \in Drafts
      /\ Len(puts) \in Nat /\ Len(puts) <= MaxPuts
  <2>1. puts \in Seq(Put) /\ Len(puts) <= MaxPuts
    BY DEF AutosaveTypeOK
  <2> QED
    BY <2>1, Lengths, Fields
<1>2. /\ puts' = RemoveAt(puts, i) /\ puts[i].landed /\ lastSync' = puts[i].v
      /\ UNCHANGED <<saved, cur, blocks, effect, fetched, edits, opens, last, shown>>
  BY DEF Answer
<1>3. puts' \in Seq(Put) /\ Len(puts') <= MaxPuts
  BY <1>1, <1>2, Removed, AutosaveAssumption
<1>4. /\ pending' = Nothing \/ pending' = pending
      /\ losses' = losses \/ losses' = losses \cup {"forgotten"}
  BY DEF Answer
<1>5. AutosaveTypeOK'
  BY <1>1, <1>2, <1>3, <1>4 DEF AutosaveTypeOK, Losses
<1>6. Screen'
  BY <1>2, <1>4 DEF Screen
<1>7. OnScreen'
  <2>1. \A k \in DOMAIN puts' : puts'[k].v \in shown[puts'[k].c]
    BY <1>1, <1>2, RemovedShown DEF OnScreen, NoCrossTalk
  <2> QED
    BY <1>2, <2>1 DEF OnScreen, NoCrossTalk
<1>8. Kept'
  <2> SUFFICES ASSUME losses' = {}, NEW d \in UserCanvases,
                      ~(Armed(d) /\ pending # Nothing)'
               PROVE  WillHold(puts, d, last[d])'
    BY DEF Kept
  <2>1. WillHold(puts, d, last[d])
    <3>1. CASE ~(Armed(d) /\ pending # Nothing)
      BY <1>4, <3>1 DEF Kept
    <3>2. CASE Armed(d) /\ pending # Nothing
      <4>1. Forgotten(puts[i])
        BY <1>2, <3>2 DEF Answer, Armed
      <4>2. WillHold(puts, pending.c, pending.v)
        BY <4>1 DEF Answer
      <4>3. pending.c = d /\ pending.v = last[d]
        BY <3>2 DEF Screen, Armed
      <4> QED
        BY <4>2, <4>3
    <3> QED
      BY <3>1, <3>2
  <2>2. WillHold(puts', d, last[d])
    BY <1>1, <1>2, <2>1, RemovalLeaves
  <2>3. UNCHANGED saved /\ last'[d] = last[d]
    BY <1>2
  <2> QED
    BY <2>2, <2>3, StillDecides
<1> QED
  BY <1>5, <1>6, <1>7, <1>8

LEMMA FailureKeeps == ASSUME AutosaveInv, NEW i \in DOMAIN puts, Fail(i) PROVE AutosaveInv'
<1> USE DEF AutosaveInv
<1>1. puts \in Seq(Put) /\ Len(puts) <= MaxPuts /\ i \in 1 .. Len(puts) /\ Len(puts) \in Nat
  <2>1. puts \in Seq(Put) /\ Len(puts) <= MaxPuts
    BY DEF AutosaveTypeOK
  <2> QED
    BY <2>1, Lengths
<1>2. /\ puts' = RemoveAt(puts, i) /\ losses' = losses \cup {"failed"}
      /\ UNCHANGED <<saved, cur, blocks, lastSync, pending, effect, fetched, edits, opens, last,
                     shown>>
  BY DEF Fail
<1>3. puts' \in Seq(Put) /\ Len(puts') <= MaxPuts
  BY <1>1, <1>2, Removed, AutosaveAssumption
<1>4. AutosaveTypeOK'
  BY <1>2, <1>3 DEF AutosaveTypeOK, Losses
<1>5. Screen'
  BY <1>2 DEF Screen
<1>6. OnScreen'
  <2>1. \A k \in DOMAIN puts' : puts'[k].v \in shown[puts'[k].c]
    BY <1>1, <1>2, RemovedShown DEF OnScreen, NoCrossTalk
  <2> QED
    BY <1>2, <2>1 DEF OnScreen, NoCrossTalk
<1>7. Kept'
  BY <1>2 DEF Kept
<1> QED
  BY <1>4, <1>5, <1>6, <1>7

LEMMA FetchKeeps == ASSUME AutosaveInv, NEW c \in UserCanvases, Fetch(c) PROVE AutosaveInv'
<1> USE DEF AutosaveInv
<1>1. /\ fetched' = [c |-> c, v |-> saved[c]] /\ opens' = opens + 1 /\ opens < MaxOpens
      /\ UNCHANGED <<saved, cur, blocks, lastSync, pending, effect, puts, edits, last, shown,
                     losses>>
  BY DEF Fetch
<1>2. fetched' \in Snapshot /\ opens' \in 0 .. MaxOpens
  BY <1>1, AutosaveAssumption DEF AutosaveTypeOK, Snapshot
<1>3. AutosaveTypeOK'
  BY <1>1, <1>2 DEF AutosaveTypeOK
<1>4. Screen'
  BY <1>1 DEF Screen
<1>5. OnScreen'
  <2>1. fetched'.v \in shown[fetched'.c]
    BY <1>1 DEF OnScreen, NoCrossTalk
  <2> QED
    BY <1>1, <2>1 DEF OnScreen, NoCrossTalk
<1>6. Kept'
  <2> SUFFICES ASSUME losses = {}, NEW d \in UserCanvases, WillHold(puts, d, last[d])
               PROVE  WillHold(puts, d, last[d])'
    BY <1>1 DEF Kept, Armed
  <2>1. UNCHANGED saved /\ last'[d] = last[d] /\ puts' = puts
    BY <1>1
  <2> QED
    BY <2>1, StillDecides
<1> QED
  BY <1>3, <1>4, <1>5, <1>6

LEMMA StutterKeeps == ASSUME AutosaveInv, UNCHANGED autosaveVars PROVE AutosaveInv'
<1> USE DEF AutosaveInv, autosaveVars
<1>1. AutosaveTypeOK' /\ Screen'
  BY DEF AutosaveTypeOK, Screen
<1>2. OnScreen'
  BY DEF OnScreen, NoCrossTalk
<1>3. Kept'
  <2> SUFFICES ASSUME losses = {}, NEW d \in UserCanvases, WillHold(puts, d, last[d])
               PROVE  WillHold(puts, d, last[d])'
    BY DEF Kept, Armed
  <2>1. UNCHANGED saved /\ last'[d] = last[d] /\ puts' = puts
    OBVIOUS
  <2> QED
    BY <2>1, StillDecides
<1> QED
  BY <1>1, <1>2, <1>3

-----------------------------------------------------------------------------
(***************************************************************************)
(* The theorems.                                                           *)
(***************************************************************************)
LEMMA SavesKept == ASSUME AutosaveInv, [AutosaveNext]_autosaveVars PROVE AutosaveInv'
BY EditKeeps, FireKeeps, FlushKeeps, OpenKeeps, LandingKeeps, AnswerKeeps, FailureKeeps,
   FetchKeeps, StutterKeeps DEF AutosaveNext, LandSome, AnswerSome

\* The invariant holds in every behaviour of the page and the server.
THEOREM AutosaveInvariant == AutosaveSpec => []AutosaveInv
<1>1. AutosaveInv /\ [AutosaveNext]_autosaveVars => AutosaveInv'
  BY SavesKept
<1> QED
  BY <1>1, Initially, PTL DEF AutosaveSpec

\* FreeCanvas keeps its refs, its effect and its requests well formed.
THEOREM SavesTypeCorrect == AutosaveSpec => []AutosaveTypeOK
BY AutosaveInvariant, PTL DEF AutosaveInv

\* FreeCanvas's autosave loses no edit, but for the five ways in which it
\* does, and saves no list into a canvas that did not show it: a snapshot is
\* sent by its timer, or by the cleanup that stops the timer, to the canvas it
\* was taken of.
THEOREM EditsAreKept == AutosaveSpec => []SavesSound
<1>1. AutosaveInv => SavesSound
  BY DEF AutosaveInv, Kept, OnScreen, SavesSound, Unlost
<1> QED
  BY <1>1, AutosaveInvariant, PTL

-----------------------------------------------------------------------------
(***************************************************************************)
(* The assistant's store.                                                  *)
(***************************************************************************)
SameLock(n, s) ==
    n.lock = s.lock /\ n.streaming = s.streaming /\ n.cancel = s.cancel /\ n.home = s.home
SameTalk(n, s) ==
    /\ n.session = s.session /\ n.history = s.history /\ n.bubbles = s.bubbles
    /\ n.restoring = s.restoring

LEMMA RefreshedStore ==
    ASSUME NEW s \in Stores, NEW c \in Place
    PROVE  /\ Refreshed(s, c) \in Stores /\ Refreshed(s, c).active = c
           /\ SameLock(Refreshed(s, c), s) /\ SameTalk(Refreshed(s, c), s)
           /\ Refreshed(s, c).listed \in {s.listed, None}
           /\ c = None => Refreshed(s, c).listed = None
<1>1. CASE c = None
  BY <1>1 DEF Refreshed, Stores, Place, SameLock, SameTalk
<1>2. CASE c # None
  BY <1>2 DEF Refreshed, Stores, Place, SameLock, SameTalk
<1> QED
  BY <1>1, <1>2

LEMMA ReleasedStore ==
    ASSUME NEW s \in Stores
    PROVE  /\ Released(s) \in Stores /\ SameTalk(Released(s), s)
           /\ Released(s).lock = FALSE /\ Released(s).streaming = FALSE /\ Released(s).home = None
           /\ Released(s).active = s.active /\ Released(s).listed = s.listed
BY DEF Released, Stores, Place, SameTalk

LEMMA ReadiedStore ==
    ASSUME NEW s \in Stores, NEW c \in Place
    PROVE  /\ Readied(s, c) \in Stores /\ SameLock(Readied(s, c), s)
           /\ Readied(s, c).active = s.active /\ Readied(s, c).listed = s.listed
           /\ Readied(s, c).history = s.history /\ Readied(s, c).bubbles = s.bubbles
           /\ Readied(s, c).session \in {s.session, s.listed}
           /\ Readied(s, c).restoring \subseteq s.restoring \cup ({c} \ {None})
           /\ s.streaming => Readied(s, c).restoring = s.restoring
<1> DEFINE sid == IF s.session = None THEN s.listed ELSE s.session
<1>1. CASE ~Restores(s, c) \/ sid = None
  BY <1>1 DEF Readied, SameLock
<1>2. CASE Restores(s, c) /\ sid # None
  <2>1. Readied(s, c) = [s EXCEPT !.session = sid, !.loaded = TRUE, !.restoring = @ \cup {c}]
    BY <1>2 DEF Readied
  <2>2. sid \in {s.session, s.listed} /\ sid \in Place /\ c \in Canvases /\ ~s.streaming
    BY <1>2 DEF Restores, Stores, Place
  <2> HIDE DEF sid
  <2>3. s.restoring \cup {c} \in SUBSET Canvases
    BY <2>2 DEF Stores
  <2> DEFINE wider == s.restoring \cup {c}
  <2>4. wider \subseteq s.restoring \cup ({c} \ {None})
    BY <2>2, StoreAssumption
  <2>5. wider \in SUBSET Canvases /\ Readied(s, c) = [s EXCEPT !.session = sid, !.loaded = TRUE, !.restoring = wider]
    BY <2>1, <2>3 DEF Stores
  <2> HIDE DEF wider
  <2>6. Readied(s, c) \in Stores
    BY <2>2, <2>5 DEF Stores
  <2>7. /\ SameLock(Readied(s, c), s)
        /\ Readied(s, c).active = s.active /\ Readied(s, c).listed = s.listed
        /\ Readied(s, c).history = s.history /\ Readied(s, c).bubbles = s.bubbles
        /\ Readied(s, c).session = sid /\ Readied(s, c).restoring = wider
    BY <2>5 DEF Stores, SameLock
  <2> QED
    BY <2>2, <2>4, <2>6, <2>7
<1> QED
  BY <1>1, <1>2

\* What resetForCanvas empties.
Fresh(n) == n.session = None /\ n.history = None /\ n.listed = None /\ n.bubbles = {}

LEMMA ResetStore ==
    ASSUME NEW s \in Stores, NEW c \in Place
    PROVE  /\ Reset(s, c) \in Stores /\ Reset(s, c).active = c /\ Reset(s, c).restoring = s.restoring
           /\ OwnStream(s, c) => /\ SameLock(Reset(s, c), s) /\ SameTalk(Reset(s, c), s)
                                 /\ Reset(s, c).listed = s.listed
           /\ ~OwnStream(s, c) =>
                /\ Fresh(Reset(s, c)) /\ ~Reset(s, c).streaming
                /\ Reset(s, c).lock = (s.lock /\ ~Cuts(s, c))
                /\ Reset(s, c).home = IF Cuts(s, c) /\ s.cancel # None THEN None ELSE s.home
<1>1. CASE OwnStream(s, c)
  BY <1>1 DEF Reset, Stores, Place, SameLock, SameTalk
<1>2. CASE ~OwnStream(s, c)
  <2> DEFINE kept == s.lock /\ ~Cuts(s, c)
             cancel == IF Cuts(s, c) THEN None ELSE s.cancel
             home == IF Cuts(s, c) /\ s.cancel # None THEN None ELSE s.home
             e == [Empty EXCEPT !.restoring = s.restoring, !.lock = kept, !.cancel = cancel, !.home = home]
  <2>1. /\ s.restoring \in SUBSET Canvases /\ kept \in BOOLEAN
        /\ cancel \in Streams \cup {None} /\ home \in Place
    BY DEF Stores, Place
  <2> HIDE DEF kept, cancel, home
  <2>2. /\ e \in Stores /\ e.restoring = s.restoring /\ ~e.streaming /\ Fresh(e)
        /\ e.lock = kept /\ e.home = home
    <3>1. e \in Stores
      <4>1. Empty \in Stores
        BY DEF Empty, Stores, Place
      <4> QED
        BY <2>1, <4>1 DEF Stores
    <3>2. e.restoring = s.restoring /\ e.streaming = FALSE /\ e.lock = kept /\ e.home = home
      BY DEF Empty
    <3>3. Fresh(e)
      BY DEF Empty, Fresh
    <3> QED
      BY <3>1, <3>2, <3>3
  <2> USE DEF kept, cancel, home
  <2>3. Reset(s, c) = Refreshed(e, c)
    BY <1>2 DEF Reset
  <2> HIDE DEF e
  <2> QED
    BY <1>2, <2>2, <2>3, RefreshedStore DEF SameLock, SameTalk, Fresh
<1> QED
  BY <1>1, <1>2

\* Wherever the page goes, the store follows it, and what is being read goes on.
LEMMA MovedStore ==
    ASSUME NEW s \in Stores, NEW prev \in Place, NEW c \in Place
    PROVE  /\ Moved(s, prev, c) \in Stores /\ Moved(s, prev, c).active = c
           /\ Moved(s, prev, c).restoring = s.restoring
BY RefreshedStore, ResetStore DEF Moved, SameTalk

StreamRecord == [phase : Phases, canvas : Place, resumed : BOOLEAN, mount : 0 .. Visits]

LEMMA GoesStreams ==
    ASSUME StoreTypeOK, NEW i \in Streams, NEW phase \in Phases, Goes(i, phase)
    PROVE  /\ streams' \in [Streams -> StreamRecord]
           /\ streams'[i].phase = phase /\ streams'[i].canvas = streams[i].canvas
           /\ \A j \in Streams \ {i} : streams'[j] = streams[j]
BY DEF Goes, StoreTypeOK, StreamRecord

LEMMA OverStreams ==
    ASSUME StoreTypeOK, NEW cut
    PROVE  /\ Over(cut) \in [Streams -> StreamRecord]
           /\ \A j \in Streams : Over(cut)[j].canvas = streams[j].canvas
           /\ \A j \in Streams \cap cut : Over(cut)[j].phase = "over"
           /\ \A j \in Streams \ cut : Over(cut)[j] = streams[j]
           /\ cut = {} => Over(cut) = streams
BY DEF Over, StoreTypeOK, StreamRecord, Phases

-----------------------------------------------------------------------------
Live == In({"saving", "asking", "reading"})
Busy == Live \cup In({"done"})

Known ==
    /\ page \in created \cup {None} /\ store.restoring \subseteq created
    /\ \A i \in Streams : streams[i].canvas \in created \cup {None}
    /\ mount <= moves

\* The lock is held while a stream lives, the one there is, and by it: without a home
\* until it has its canvas and is begun, and then with its own.
Tame == slips \cap {"early", "closing", "draft"} = {}
Locked ==
    /\ \A i, j \in Busy : i = j
    /\ store.streaming = store.lock
    /\ store.lock <=> Live # {}
    /\ \A i \in In({"saving"}) : store.home = None
    /\ \A i \in In({"asking", "reading"}) : streams[i].canvas # None /\ store.home = streams[i].canvas
    /\ \A i \in In({"reading"}) : store.cancel = i
    /\ Busy = {} => store.home = None

\* The store is of the page's canvas, and so is the stream.
Here ==
    /\ ~strayed /\ store.active = page
    /\ store.history \in {None, page} /\ store.session \in {None, page} /\ store.listed \in {None, page}
    /\ \A i \in Live : streams[i].canvas = page
    /\ In({"asking", "reading"}) # {} => store.bubbles # {} \/ store.history # None

\* No history on its way replaces the bubble of the stream.
Bubbles ==
    /\ In({"asking", "reading"}) \subseteq store.bubbles
    /\ Live # {} => store.active \notin store.restoring

StoreInv ==
    /\ StoreTypeOK /\ Known
    /\ Tame => Locked
    /\ Tame /\ "remount" \notin slips => Here
    /\ slips = {} => Bubbles

LEMMA StoreInitially == StoreInit => StoreInv
<1> SUFFICES ASSUME StoreInit PROVE StoreInv
  OBVIOUS
<1>1. \A i \in Streams : streams[i].phase = "none" /\ streams[i].canvas = None
  BY DEF StoreInit
<1>2. StoreTypeOK
  <2>1. store \in Stores
    BY DEF StoreInit, Empty, Stores, Place
  <2>2. streams \in [Streams -> [phase : Phases, canvas : Place, resumed : BOOLEAN, mount : 0 .. Visits]]
    BY StoreAssumption DEF StoreInit, Place, Phases
  <2>3. created \subseteq Canvases /\ talked \subseteq created /\ running \subseteq talked
    BY DEF StoreInit
  <2>4. page \in Place /\ due \in BOOLEAN /\ strayed \in BOOLEAN /\ slips \subseteq Slips
    BY DEF StoreInit, Place
  <2>5. mount \in 0 .. Visits /\ moves \in 0 .. Visits
    BY StoreAssumption DEF StoreInit
  <2> QED
    BY <2>1, <2>2, <2>3, <2>4, <2>5 DEF StoreTypeOK
<1>3. Live = {} /\ Busy = {} /\ In({"asking", "reading"}) = {} /\ In({"saving"}) = {} /\ In({"reading"}) = {}
  BY <1>1 DEF Live, Busy, In
<1>4. store = Empty
  BY DEF StoreInit
<1>5. Known
  BY <1>1, <1>4 DEF StoreInit, Known, Empty
<1>6. Locked
  BY <1>3, <1>4 DEF Locked, Empty
<1>7. Here
  BY <1>3, <1>4 DEF Here, Empty, StoreInit
<1>8. Bubbles
  BY <1>3 DEF Bubbles
<1> QED
  BY <1>2, <1>5, <1>6, <1>7, <1>8 DEF StoreInv

\* A step that leaves the streams and the lock alone.
LEMMA LockedStays ==
    ASSUME Locked, UNCHANGED streams, SameLock(store', store)
    PROVE  Locked'
BY DEF Locked, Live, Busy, In, SameLock

LEMMA SlipsStay ==
    ASSUME StoreInv, slips \subseteq slips'
    PROVE  /\ Tame' => Tame /\ Locked
           /\ Tame' /\ "remount" \notin slips' => Tame /\ "remount" \notin slips /\ Here
           /\ slips' = {} => slips = {} /\ Tame' /\ "remount" \notin slips' /\ Bubbles
BY DEF StoreInv, Tame

LEMMA ListKeeps == ASSUME StoreInv, ListArrives PROVE StoreInv'
<1>1. /\ store' \in Stores /\ SameLock(store', store) /\ SameTalk(store', store)
      /\ store'.active = store.active
      /\ store'.listed = None \/ store'.listed = store.listed \/ store'.listed = store.active
  <2>1. CASE store.active = store.listing
    <3> DEFINE alive == store.listing \in running
               listed == IF store.listing \in talked THEN store.listing ELSE None
    <3>1. alive \in BOOLEAN /\ listed \in Place /\ listed \in {None, store.active}
      BY <2>1 DEF StoreInv, StoreTypeOK, Stores, Place
    <3>2. store' = [store EXCEPT !.listing = None, !.live = alive, !.listed = listed]
      BY <2>1 DEF ListArrives
    <3> HIDE DEF alive, listed
    <3>3. /\ store' \in Stores /\ SameLock(store', store) /\ SameTalk(store', store)
          /\ store'.active = store.active /\ store'.listed = listed
      BY <3>1, <3>2 DEF StoreInv, StoreTypeOK, Stores, Place, SameLock, SameTalk
    <3> QED
      BY <3>1, <3>3
  <2>2. CASE store.active # store.listing
    BY <2>2 DEF ListArrives, StoreInv, StoreTypeOK, Stores, Place, SameLock, SameTalk
  <2> QED
    BY <2>1, <2>2
<1>2. StoreTypeOK'
  BY <1>1 DEF ListArrives, StoreInv, StoreTypeOK
<1>3. Known'
  BY <1>1 DEF ListArrives, StoreInv, Known, SameTalk
<1>4. slips' = slips /\ UNCHANGED <<streams, page, strayed>>
  BY DEF ListArrives
<1>5. Tame' => Locked'
  BY <1>1, <1>4, SlipsStay, LockedStays
<1>6. Here => Here'
  BY <1>1, <1>4 DEF Here, SameTalk, Live, In
<1>7. Bubbles => Bubbles'
  BY <1>1, <1>4 DEF Bubbles, SameTalk, Live, In
<1> QED
  BY <1>2, <1>3, <1>4, <1>5, <1>6, <1>7, SlipsStay DEF StoreInv

LEMMA ReadyKeeps == ASSUME StoreInv, Ready PROVE StoreInv'
<1>1. store \in Stores /\ page \in Place /\ store' = Readied(store, page)
  BY DEF Ready, StoreInv, StoreTypeOK
<1>2. StoreTypeOK'
  <2>1. store' \in Stores
    BY <1>1, ReadiedStore
  <2>2. due' \in BOOLEAN
    BY DEF Ready
  <2> QED
    BY <2>1, <2>2 DEF Ready, StoreInv, StoreTypeOK
<1>3. Known'
  BY <1>1, ReadiedStore DEF Ready, StoreInv, Known
<1>4. slips' = slips /\ UNCHANGED <<streams, page, strayed>>
  BY DEF Ready
<1>5. Tame' => Locked'
  BY <1>1, <1>4, ReadiedStore, SlipsStay, LockedStays
<1>6. Here => Here'
  BY <1>1, <1>4, ReadiedStore DEF Here, Live, In
<1>7. Locked /\ Bubbles => Bubbles'
  BY <1>1, <1>4, ReadiedStore DEF Locked, Bubbles, Live, In
<1> QED
  BY <1>2, <1>3, <1>4, <1>5, <1>6, <1>7, SlipsStay DEF StoreInv

LEMMA UnrestoredKeeps == ASSUME StoreInv, NEW c \in Canvases, Unrestored(c) PROVE StoreInv'
<1>1. /\ store' \in Stores /\ SameLock(store', store) /\ store'.active = store.active
      /\ store'.history = store.history /\ store'.bubbles = store.bubbles
      /\ store'.listed = store.listed /\ store'.session \in {store.session, None}
      /\ store'.restoring \subseteq store.restoring
  <2> DEFINE session == IF StillWanted(c) THEN None ELSE store.session
             rest == store.restoring \ {c}
  <2>1. session \in Place /\ session \in {store.session, None} /\ rest \in SUBSET Canvases
        /\ rest \subseteq store.restoring
    BY DEF StoreInv, StoreTypeOK, Stores, Place
  <2>2. store' = [store EXCEPT !.restoring = rest, !.session = session]
    BY DEF Unrestored
  <2> HIDE DEF session, rest
  <2>3. /\ store' \in Stores /\ SameLock(store', store) /\ store'.active = store.active
        /\ store'.history = store.history /\ store'.bubbles = store.bubbles
        /\ store'.listed = store.listed /\ store'.session = session /\ store'.restoring = rest
    BY <2>1, <2>2 DEF StoreInv, StoreTypeOK, Stores, SameLock
  <2> QED
    BY <2>1, <2>3
<1>2. StoreTypeOK'
  BY <1>1 DEF Unrestored, StoreInv, StoreTypeOK
<1>3. Known'
  BY <1>1 DEF Unrestored, StoreInv, Known
<1>4. slips' = slips /\ UNCHANGED <<streams, page, strayed>>
  BY DEF Unrestored
<1>5. Tame' => Locked'
  BY <1>1, <1>4, SlipsStay, LockedStays
<1>6. Here => Here'
  BY <1>1, <1>4 DEF Here, Live, In
<1>7. Bubbles => Bubbles'
  BY <1>1, <1>4 DEF Bubbles, Live, In
<1> QED
  BY <1>2, <1>3, <1>4, <1>5, <1>6, <1>7, SlipsStay DEF StoreInv

LEMMA NewConversationKeeps == ASSUME StoreInv, NewConversation PROVE StoreInv'
<1>1. /\ store' \in Stores /\ SameLock(store', store) /\ store'.active = store.active
      /\ store'.history = None /\ store'.session = None
      /\ store'.listed = store.listed /\ store'.restoring = store.restoring /\ ~store.lock
  BY DEF NewConversation, StoreInv, StoreTypeOK, Stores, Place, SameLock
<1>2. StoreTypeOK'
  BY <1>1 DEF NewConversation, StoreInv, StoreTypeOK
<1>3. Known'
  BY <1>1 DEF NewConversation, StoreInv, Known
<1>4. slips' = slips /\ UNCHANGED <<streams, page, strayed>>
  BY DEF NewConversation
<1>5. Tame' => Locked'
  BY <1>1, <1>4, SlipsStay, LockedStays
<1>6. Locked => Live = {} /\ In({"asking", "reading"})' = {} /\ Live' = {}
  BY <1>1, <1>4 DEF Locked, Live, In
<1>7. Locked /\ Here => Here'
  BY <1>1, <1>4, <1>6 DEF Here
<1>8. Locked /\ Bubbles => Bubbles'
  BY <1>1, <1>4, <1>6 DEF Bubbles
<1> QED
  BY <1>2, <1>3, <1>4, <1>5, <1>7, <1>8, SlipsStay DEF StoreInv

LEMMA ActKeeps == ASSUME StoreInv, NEW i \in Streams, Act(i) PROVE StoreInv'
<1>1. slips' = slips /\ UNCHANGED <<streams, page, store, created, mount, moves>>
  BY DEF Act
<1>2. StoreTypeOK'
  BY DEF Act, StoreInv, StoreTypeOK
<1>3. Known'
  BY <1>1 DEF StoreInv, Known
<1>4. Tame' => Locked'
  BY <1>1, SlipsStay, LockedStays DEF SameLock
<1>5. ASSUME Here PROVE Here'
  <2>1. i \in Live /\ streams[i].canvas = page
    BY <1>5 DEF Act, Live, In, Here
  <2>2. ~strayed'
    BY <1>5, <2>1 DEF Act, Here
  <2> QED
    BY <1>1, <1>5, <2>2 DEF Here, Live, In
<1>6. Bubbles => Bubbles'
  BY <1>1 DEF Bubbles, Live, In
<1> QED
  BY <1>1, <1>2, <1>3, <1>4, <1>5, <1>6, SlipsStay DEF StoreInv

LEMMA WelcomeKeeps == ASSUME StoreInv, NEW i \in Streams, Welcome(i) PROVE StoreInv'
<1> DEFINE c == streams[i].canvas
           before == [store EXCEPT !.session = c]
<1>1. c \in Place /\ store \in Stores /\ store' = Refreshed(before, c)
  BY DEF Welcome, StoreInv, StoreTypeOK
<1> HIDE DEF c
<1>2. /\ before \in Stores /\ before.session = c /\ before.restoring = store.restoring
      /\ before.history = store.history /\ before.bubbles = store.bubbles
      /\ before.listed = store.listed /\ SameLock(before, store)
  BY <1>1 DEF Stores, Place, SameLock
<1> HIDE DEF before
<1>3. /\ store' \in Stores /\ SameLock(store', store) /\ store'.active = c
      /\ store'.history = store.history /\ store'.session = c
      /\ store'.bubbles = store.bubbles /\ store'.restoring = store.restoring
      /\ store'.listed \in {store.listed, None}
  BY <1>1, <1>2, RefreshedStore DEF SameLock, SameTalk
<1>4. StoreTypeOK'
  BY <1>3 DEF Welcome, StoreInv, StoreTypeOK
<1>5. Known'
  BY <1>3 DEF Welcome, StoreInv, Known
<1>6. slips' = slips /\ UNCHANGED <<streams, page, strayed>>
  BY DEF Welcome
<1>7. Tame' => Locked'
  BY <1>3, <1>6, SlipsStay, LockedStays
<1>8. Here => c = page
  BY DEF Welcome, Here, Live, In, c
<1>9. Here => Here'
  BY <1>3, <1>6, <1>8 DEF Here, Live, In
<1>10. Here /\ Bubbles => Bubbles'
  BY <1>3, <1>6, <1>8 DEF Here, Bubbles, Live, In
<1> QED
  BY <1>4, <1>5, <1>6, <1>7, <1>9, <1>10, SlipsStay DEF StoreInv

LEMMA StoreStutters ==
    ASSUME StoreInv, UNCHANGED <<page, created, store, streams, moves, mount, strayed, slips, due>>,
           talked' \subseteq created /\ running' \subseteq talked'
    PROVE  StoreInv'
<1>1. StoreTypeOK' /\ Known'
  BY DEF StoreInv, StoreTypeOK, Known
<1>2. Tame' => Locked'
  BY SlipsStay, LockedStays DEF SameLock
<1>3. (Here => Here') /\ (Bubbles => Bubbles')
  BY DEF Here, Bubbles, Live, In
<1> QED
  BY <1>1, <1>2, <1>3, SlipsStay DEF StoreInv

-----------------------------------------------------------------------------
\* The steps of a stream.
LEMMA SendKeeps == ASSUME StoreInv, NEW i \in Streams, Send(i) PROVE StoreInv'
<1>1. /\ store' \in Stores /\ store'.lock /\ store'.streaming /\ store'.home = store.home
      /\ store'.active = store.active /\ store'.listed = store.listed /\ SameTalk(store', store)
  BY DEF Send, Taken, StoreInv, StoreTypeOK, Stores, SameTalk
<1>2. /\ streams' \in [Streams -> StreamRecord] /\ streams'[i].phase = "saving"
      /\ streams'[i].canvas = page /\ \A j \in Streams \ {i} : streams'[j] = streams[j]
  <2>1. /\ streams \in [Streams -> StreamRecord] /\ page \in Place /\ mount \in 0 .. Visits
        /\ streams' = [streams EXCEPT ![i].phase = "saving", ![i].canvas = page, ![i].mount = mount]
    BY DEF Send, StoreInv, StoreTypeOK, StreamRecord
  <2>2. /\ streams'[i].phase = "saving" /\ streams'[i].canvas = page
        /\ \A j \in Streams \ {i} : streams'[j] = streams[j]
    BY <2>1 DEF StreamRecord
  <2>3. streams' \in [Streams -> StreamRecord]
    <3> DEFINE r == [streams[i] EXCEPT !.phase = "saving", !.canvas = page, !.mount = mount]
    <3>1. r \in StreamRecord
      BY <2>1 DEF StreamRecord, Phases
    <3>2. streams' = [streams EXCEPT ![i] = r]
      BY <2>1
    <3> HIDE DEF r
    <3> QED
      BY <2>1, <3>1, <3>2
  <2> QED
    BY <2>2, <2>3
<1>3. slips' \subseteq Slips /\ slips \subseteq slips'
  BY DEF Send, StoreInv, StoreTypeOK, Slips
<1>4. StoreTypeOK'
  BY <1>1, <1>2, <1>3 DEF Send, StoreInv, StoreTypeOK, StreamRecord
<1>5. Known'
  BY <1>1, <1>2 DEF Send, StoreInv, Known, SameTalk
<1>6. ASSUME Tame' PROVE Busy = {} /\ Locked
  <2>1. Locked /\ Live = {}
    BY <1>3, <1>6, SlipsStay DEF Send, Locked
  <2>2. In({"done"}) = {}
    BY <1>6 DEF Send, Tame
  <2> QED
    BY <2>1, <2>2 DEF Busy
<1>7. ASSUME Busy = {}
      PROVE  /\ Busy' = {i} /\ Live' = {i} /\ In({"saving"})' = {i}
             /\ In({"asking", "reading"})' = {} /\ In({"reading"})' = {}
  BY <1>2, <1>7 DEF Busy, Live, In
<1>8. Tame' => Locked'
  BY <1>1, <1>6, <1>7 DEF Locked
<1>9. Tame' /\ Here => Here'
  BY <1>1, <1>2, <1>6, <1>7 DEF Here, Send, SameTalk
<1>10. slips' = {} => store.active \notin store.restoring
  BY DEF Send
<1>11. slips' = {} => Bubbles'
  BY <1>1, <1>3, <1>6, <1>7, <1>10, SlipsStay DEF Bubbles, SameTalk
<1> QED
  BY <1>3, <1>4, <1>5, <1>8, <1>9, <1>11, SlipsStay DEF StoreInv

LEMMA BeginKeeps == ASSUME StoreInv, NEW i \in Streams, Begin(i) PROVE StoreInv'
<1> DEFINE c == streams[i].canvas
           wider == store.bubbles \cup {i}
<1>1. c \in Place /\ wider \in SUBSET Streams /\ store \in Stores
  BY DEF StoreInv, StoreTypeOK, Stores
<1>2. store' = [store EXCEPT !.home = c, !.bubbles = wider]
  BY <1>1 DEF Begin, Stores
<1> HIDE DEF c, wider
<1>3. /\ store' \in Stores /\ store'.lock = store.lock /\ store'.streaming = store.streaming
      /\ store'.home = c /\ store'.active = store.active /\ store'.listed = store.listed
      /\ store'.bubbles = wider /\ store'.restoring = store.restoring
      /\ store'.history = store.history /\ store'.session = store.session
  BY <1>1, <1>2 DEF Stores
<1>4. i \in wider
  BY DEF wider
<1>5. /\ streams' \in [Streams -> StreamRecord] /\ streams'[i].phase = "asking"
      /\ streams'[i].canvas = c /\ \A j \in Streams \ {i} : streams'[j] = streams[j]
  BY GoesStreams DEF Begin, StoreInv, Phases, c
<1>6. slips' \subseteq Slips /\ slips \subseteq slips'
  BY DEF Begin, StoreInv, StoreTypeOK, Slips
<1>7. StoreTypeOK'
  BY <1>3, <1>5, <1>6 DEF Begin, StoreInv, StoreTypeOK, StreamRecord
<1>8. Known'
  BY <1>3, <1>5 DEF Begin, StoreInv, Known, c
<1>9. ASSUME Tame'
      PROVE  /\ Locked /\ store.lock /\ c # None
             /\ Busy' = {i} /\ Live' = {i} /\ Live = {i} /\ In({"saving"})' = {} /\ In({"reading"})' = {}
             /\ In({"asking", "reading"})' = {i}
  <2>1. Locked /\ i \in Live /\ i \in Busy
    BY <1>6, <1>9, SlipsStay DEF Begin, Live, Busy, In
  <2>2. c # None
    BY <1>9 DEF Begin, Tame, c
  <2>3. \A j \in Streams \ {i} : j \notin Busy
    BY <2>1 DEF Locked
  <2> QED
    BY <1>5, <2>1, <2>2, <2>3 DEF Busy, Live, In, Locked
<1>10. Tame' => Locked'
  BY <1>3, <1>5, <1>9 DEF Locked
<1>11. Tame' /\ Here => Here'
  BY <1>3, <1>4, <1>5, <1>9 DEF Here, Begin, c
<1>12. Tame' /\ Bubbles => Bubbles'
  BY <1>3, <1>4, <1>9 DEF Bubbles
<1> QED
  BY <1>6, <1>7, <1>8, <1>10, <1>11, <1>12, SlipsStay DEF StoreInv

LEMMA ConnectKeeps == ASSUME StoreInv, NEW i \in Streams, Connect(i) PROVE StoreInv'
<1>1. /\ store' \in Stores /\ store'.lock = store.lock /\ store'.streaming = store.streaming
      /\ store'.home = store.home /\ store'.cancel = i /\ store'.active = store.active
      /\ store'.listed = store.listed /\ SameTalk(store', store)
  BY DEF Connect, StoreInv, StoreTypeOK, Stores, SameTalk
<1>2. /\ streams' \in [Streams -> StreamRecord] /\ streams'[i].phase = "reading"
      /\ streams'[i].canvas = streams[i].canvas /\ \A j \in Streams \ {i} : streams'[j] = streams[j]
  BY GoesStreams DEF Connect, StoreInv, Phases
<1>3. slips' = slips /\ UNCHANGED <<page, strayed>>
  BY DEF Connect
<1>4. StoreTypeOK'
  <2>1. talked' \subseteq created /\ running' \subseteq talked'
    BY DEF Connect, WithSession, StoreInv, StoreTypeOK, Known
  <2> QED
    BY <1>1, <1>2, <2>1 DEF Connect, StoreInv, StoreTypeOK, StreamRecord
<1>5. Known'
  BY <1>1, <1>2 DEF Connect, StoreInv, Known, SameTalk
<1>6. ASSUME Locked
      PROVE  /\ Busy' = {i} /\ Live' = {i} /\ Live = {i} /\ In({"saving"})' = {} /\ In({"reading"})' = {i}
             /\ In({"asking", "reading"})' = {i} /\ i \in In({"asking", "reading"})
  <2>1. i \in Live /\ i \in Busy /\ i \in In({"asking", "reading"})
    BY DEF Connect, Live, Busy, In
  <2>2. \A j \in Streams \ {i} : j \notin Busy
    BY <1>6, <2>1 DEF Locked
  <2> QED
    BY <1>2, <2>1, <2>2 DEF Busy, Live, In
<1>7. Locked => Locked'
  BY <1>1, <1>2, <1>6 DEF Locked
<1>8. Locked /\ Here => Here'
  BY <1>1, <1>2, <1>3, <1>6 DEF Here, SameTalk
<1>9. Locked /\ Bubbles => Bubbles'
  BY <1>1, <1>6 DEF Bubbles, SameTalk
<1> QED
  BY <1>3, <1>4, <1>5, <1>7, <1>8, <1>9, SlipsStay DEF StoreInv

LEMMA DoneKeeps == ASSUME StoreInv, NEW i \in Streams, Done(i) PROVE StoreInv'
<1>1. /\ store' \in Stores /\ store'.lock = FALSE /\ store'.streaming = FALSE /\ store'.active = store.active
      /\ store'.listed = store.listed /\ SameTalk(store', store)
  BY DEF Done, StoreInv, StoreTypeOK, Stores, SameTalk
<1>2. /\ streams' \in [Streams -> StreamRecord] /\ streams'[i].phase = "done"
      /\ streams'[i].canvas = streams[i].canvas /\ \A j \in Streams \ {i} : streams'[j] = streams[j]
  BY GoesStreams DEF Done, StoreInv, Phases
<1>3. slips' = slips /\ UNCHANGED <<page, strayed>>
  BY DEF Done
<1>4. StoreTypeOK'
  BY <1>1, <1>2 DEF Done, StoreInv, StoreTypeOK, StreamRecord
<1>5. Known'
  BY <1>1, <1>2 DEF Done, StoreInv, Known, SameTalk
<1>6. ASSUME Locked
      PROVE  /\ Busy' = {i} /\ Live' = {} /\ In({"saving"})' = {} /\ In({"reading"})' = {}
             /\ In({"asking", "reading"})' = {}
  <2>1. i \in Live /\ i \in Busy
    BY DEF Done, Live, Busy, In
  <2>2. \A j \in Streams \ {i} : j \notin Busy
    BY <1>6, <2>1 DEF Locked
  <2> QED
    BY <1>2, <2>1, <2>2 DEF Busy, Live, In
<1>7. Locked => Locked'
  BY <1>1, <1>6 DEF Locked
<1>8. Locked /\ Here => Here'
  BY <1>1, <1>3, <1>6 DEF Here, SameTalk
<1>9. Locked => Bubbles'
  BY <1>6 DEF Bubbles
<1> QED
  BY <1>3, <1>4, <1>5, <1>7, <1>8, <1>9, SlipsStay DEF StoreInv

LEMMA EndKeeps == ASSUME StoreInv, NEW i \in Streams, End(i) PROVE StoreInv'
<1>1. /\ store' \in Stores /\ store'.lock = FALSE /\ store'.streaming = FALSE /\ store'.home = None
      /\ store'.active = store.active /\ store'.listed = store.listed /\ SameTalk(store', store)
  BY ReleasedStore DEF End, StoreInv, StoreTypeOK
<1>2. /\ streams' \in [Streams -> StreamRecord] /\ streams'[i].phase = "over"
      /\ streams'[i].canvas = streams[i].canvas /\ \A j \in Streams \ {i} : streams'[j] = streams[j]
  BY GoesStreams DEF End, StoreInv, Phases
<1>3. slips' = slips /\ UNCHANGED <<page, strayed>>
  BY DEF End
<1>4. StoreTypeOK'
  BY <1>1, <1>2 DEF End, StoreInv, StoreTypeOK, StreamRecord
<1>5. Known'
  BY <1>1, <1>2 DEF End, StoreInv, Known, SameTalk
<1>6. ASSUME Locked
      PROVE  /\ Busy' = {} /\ Live' = {} /\ In({"saving"})' = {} /\ In({"reading"})' = {}
             /\ In({"asking", "reading"})' = {}
  <2>1. i \in Busy
    BY DEF End, Ending, Live, Busy, In
  <2>2. \A j \in Streams \ {i} : j \notin Busy
    BY <1>6, <2>1 DEF Locked
  <2> QED
    BY <1>2, <2>1, <2>2 DEF Busy, Live, In
<1>7. Locked => Locked'
  BY <1>1, <1>6 DEF Locked
<1>8. Locked /\ Here => Here'
  BY <1>1, <1>3, <1>6 DEF Here, SameTalk
<1>9. Locked => Bubbles'
  BY <1>6 DEF Bubbles
<1> QED
  BY <1>3, <1>4, <1>5, <1>7, <1>8, <1>9, SlipsStay DEF StoreInv

LEMMA AbortKeeps == ASSUME StoreInv, Abort PROVE StoreInv'
<1> DEFINE cut == {store.cancel} \ {None}
<1>1. /\ store' \in Stores /\ store'.lock = FALSE /\ store'.streaming = FALSE
      /\ store'.active = store.active /\ store'.listed = store.listed /\ SameTalk(store', store)
      /\ store.cancel # None => store'.home = None
  <2>1. CASE store.cancel # None
    BY <2>1, ReleasedStore DEF Abort, StoreInv, StoreTypeOK
  <2>2. CASE store.cancel = None
    BY <2>2 DEF Abort, StoreInv, StoreTypeOK, Stores, SameTalk
  <2> QED
    BY <2>1, <2>2
<1>2. streams' = Over(cut)
  BY DEF Abort
<1> HIDE DEF cut
<1>3. /\ streams' \in [Streams -> StreamRecord]
      /\ \A j \in Streams : streams'[j].canvas = streams[j].canvas
      /\ \A j \in Streams \cap cut : streams'[j].phase = "over"
      /\ \A j \in Streams \ cut : streams'[j] = streams[j]
  BY <1>2, OverStreams DEF StoreInv
<1>4. slips' \subseteq Slips /\ slips \subseteq slips' /\ UNCHANGED <<page, strayed>>
  BY DEF Abort, StoreInv, StoreTypeOK, Slips
<1>5. StoreTypeOK'
  BY <1>1, <1>3, <1>4 DEF Abort, StoreInv, StoreTypeOK, StreamRecord
<1>6. Known'
  BY <1>1, <1>3, <1>4 DEF Abort, StoreInv, Known, SameTalk
<1>7. ASSUME Tame' PROVE store.cancel # None /\ Busy' = {}
  <2>1. Locked /\ Live # {}
    BY <1>4, <1>7, SlipsStay DEF Abort, Locked
  <2>2. Early = {}
    BY <1>7 DEF Abort, Tame
  <2>3. PICK j \in Streams : j \in In({"reading"}) /\ j \in Busy
    BY <2>1, <2>2 DEF Live, Early, Busy, In
  <2>4. store.cancel = j /\ j # None /\ cut = {j}
    BY <2>1, <2>3, StoreAssumption DEF Locked, cut, Streams
  <2>5. \A k \in Streams \ {j} : k \notin Busy
    BY <2>1, <2>3 DEF Locked
  <2> QED
    BY <1>3, <2>3, <2>4, <2>5 DEF Busy, Live, In
<1>8. Busy' = {} => Live' = {} /\ In({"saving"})' = {} /\ In({"reading"})' = {} /\ In({"asking", "reading"})' = {}
  BY DEF Busy, Live, In
<1>9. Tame' => Locked'
  BY <1>1, <1>7, <1>8 DEF Locked
<1>10. Tame' /\ Here => Here'
  BY <1>1, <1>4, <1>7, <1>8 DEF Here, SameTalk
<1>11. Tame' => Bubbles'
  BY <1>7, <1>8 DEF Bubbles
<1> QED
  BY <1>4, <1>5, <1>6, <1>9, <1>10, <1>11, SlipsStay DEF StoreInv

\* The history comes, and a turn that still runs is followed.
LEMMA RestoredKeeps == ASSUME StoreInv, NEW c \in Canvases, Restored(c) PROVE StoreInv'
<1> DEFINE rest == store.restoring \ {c}
<1>1. store \in Stores /\ rest \in SUBSET Canvases /\ c \in Place /\ c # None
  BY StoreAssumption DEF StoreInv, StoreTypeOK, Stores, Place
<1>2. c \in store.restoring
  BY DEF Restored
<1>3. CASE ~StillWanted(c) /\ store' = [store EXCEPT !.restoring = rest] /\ UNCHANGED <<streams, slips>>
  <2>1. /\ store' \in Stores /\ SameLock(store', store) /\ store'.active = store.active
        /\ store'.listed = store.listed /\ store'.session = store.session
        /\ store'.history = store.history /\ store'.bubbles = store.bubbles /\ store'.restoring = rest
    BY <1>1, <1>3 DEF Stores, SameLock
  <2>2. StoreTypeOK' /\ Known'
    BY <1>3, <2>1 DEF Restored, StoreInv, StoreTypeOK, Known
  <2>3. UNCHANGED <<page, strayed>>
    BY DEF Restored
  <2>4. Locked => Locked'
    BY <1>3, <2>1, LockedStays
  <2>5. (Here => Here') /\ (Bubbles => Bubbles')
    BY <1>3, <2>1, <2>3 DEF Here, Bubbles, Live, In
  <2> QED
    BY <1>3, <2>2, <2>4, <2>5, SlipsStay DEF StoreInv
<1>4. CASE /\ StillWanted(c) /\ store' = [store EXCEPT !.restoring = rest, !.history = c, !.bubbles = {}]
           /\ UNCHANGED <<streams, slips>>
  <2>1. /\ store' \in Stores /\ SameLock(store', store) /\ store'.active = store.active
        /\ store'.listed = store.listed /\ store'.session = store.session
        /\ store'.history = c /\ store'.restoring = rest
    BY <1>1, <1>4 DEF Stores, SameLock
  <2>2. StoreTypeOK' /\ Known'
    BY <1>4, <2>1 DEF Restored, StoreInv, StoreTypeOK, Known
  <2>3. UNCHANGED <<page, strayed>>
    BY DEF Restored
  <2>4. Locked => Locked'
    BY <1>4, <2>1, LockedStays
  <2>5. Here => Here'
    BY <1>1, <1>4, <2>1, <2>3 DEF Here, Live, In, StillWanted
  <2>6. Bubbles => Live = {} /\ Live' = {} /\ In({"asking", "reading"})' = {}
    BY <1>2, <1>4 DEF Bubbles, StillWanted, Live, In
  <2>7. Bubbles => Bubbles'
    BY <2>6 DEF Bubbles
  <2> QED
    BY <1>4, <2>2, <2>4, <2>5, <2>7, SlipsStay DEF StoreInv
<1>5. ASSUME NEW i \in Streams, Unused(i), StillWanted(c), ~store.lock,
             store' = [store EXCEPT !.restoring = rest, !.history = c, !.lock = TRUE, !.streaming = TRUE,
                                    !.home = c, !.cancel = i, !.bubbles = {i}],
             streams' = [streams EXCEPT ![i] = [phase |-> "reading", canvas |-> c,
                                                resumed |-> TRUE, mount |-> mount]],
             slips' = IF In({"done"}) # {} THEN slips \cup {"closing"} ELSE slips
      PROVE  StoreInv'
  <2>1. /\ store' \in Stores /\ store'.lock = TRUE /\ store'.streaming = TRUE /\ store'.home = c /\ store'.cancel = i
        /\ store'.active = store.active /\ store'.listed = store.listed /\ store'.session = store.session
        /\ store'.history = c /\ store'.restoring = rest /\ store'.bubbles = {i}
    BY <1>1, <1>5 DEF Stores
  <2>2. /\ streams' \in [Streams -> StreamRecord] /\ streams'[i].phase = "reading"
        /\ streams'[i].canvas = c /\ \A j \in Streams \ {i} : streams'[j] = streams[j]
    BY <1>1, <1>5 DEF StoreInv, StoreTypeOK, StreamRecord, Phases
  <2>3. slips' \subseteq Slips /\ slips \subseteq slips' /\ UNCHANGED <<page, strayed>>
    BY <1>5 DEF Restored, StoreInv, StoreTypeOK, Slips
  <2>4. StoreTypeOK'
    BY <2>1, <2>2, <2>3 DEF Restored, StoreInv, StoreTypeOK, StreamRecord
  <2>5. Known'
    <3>1. c \in created /\ UNCHANGED <<created, mount, moves>>
      BY <1>2 DEF Restored, StoreInv, Known
    <3>2. ASSUME NEW j \in Streams PROVE streams'[j].canvas \in created' \cup {None}
      BY <2>2, <3>1 DEF StoreInv, Known
    <3> QED
      BY <2>1, <2>3, <3>1, <3>2 DEF StoreInv, Known
  <2>6. ASSUME Tame' PROVE Busy = {}
    <3>1. Locked /\ Live = {}
      BY <1>5, <2>3, <2>6, SlipsStay DEF Locked
    <3>2. In({"done"}) = {}
      BY <1>5, <2>6 DEF Tame
    <3> QED
      BY <3>1, <3>2 DEF Busy
  <2>7. ASSUME Busy = {}
        PROVE  /\ Busy' = {i} /\ Live' = {i} /\ In({"saving"})' = {}
               /\ In({"asking", "reading"})' = {i} /\ In({"reading"})' = {i}
    BY <2>2, <2>7 DEF Busy, Live, In
  <2>8. Tame' => Locked'
    BY <1>1, <2>1, <2>2, <2>6, <2>7 DEF Locked
  <2>9. Tame' /\ Here => Here'
    BY <1>1, <1>5, <2>1, <2>2, <2>3, <2>6, <2>7 DEF Here, StillWanted
  <2>10. Tame' => Bubbles'
    BY <1>5, <2>1, <2>6, <2>7 DEF Bubbles, StillWanted
  <2> QED
    BY <2>3, <2>4, <2>5, <2>8, <2>9, <2>10, SlipsStay DEF StoreInv
<1>6. \/ ~StillWanted(c) /\ store' = [store EXCEPT !.restoring = rest] /\ UNCHANGED <<streams, slips>>
      \/ /\ StillWanted(c) /\ store' = [store EXCEPT !.restoring = rest, !.history = c, !.bubbles = {}]
         /\ UNCHANGED <<streams, slips>>
      \/ \E i \in Streams :
            /\ Unused(i) /\ StillWanted(c) /\ ~store.lock
            /\ store' = [store EXCEPT !.restoring = rest, !.history = c, !.lock = TRUE,
                                      !.streaming = TRUE, !.home = c, !.cancel = i, !.bubbles = {i}]
            /\ streams' = [streams EXCEPT ![i] = [phase |-> "reading", canvas |-> c,
                                                  resumed |-> TRUE, mount |-> mount]]
            /\ slips' = IF In({"done"}) # {} THEN slips \cup {"closing"} ELSE slips
  <2> DEFINE fewer == [store EXCEPT !.restoring = rest]
             read == [fewer EXCEPT !.history = c, !.bubbles = {}]
  <2>1. read = [store EXCEPT !.restoring = rest, !.history = c, !.bubbles = {}] /\ read.lock = store.lock
    BY <1>1 DEF Stores
  <2>2. ASSUME NEW i \in Streams
        PROVE  [read EXCEPT !.lock = TRUE, !.streaming = TRUE, !.home = c, !.cancel = i, !.bubbles = {i}]
               = [store EXCEPT !.restoring = rest, !.history = c, !.lock = TRUE,
                               !.streaming = TRUE, !.home = c, !.cancel = i, !.bubbles = {i}]
    BY <1>1 DEF Stores
  <2>3. \/ ~StillWanted(c) /\ store' = fewer /\ UNCHANGED <<streams, slips>>
        \/ StillWanted(c) /\ store' = read /\ UNCHANGED <<streams, slips>>
        \/ \E i \in Streams :
              /\ Unused(i) /\ StillWanted(c) /\ ~read.lock
              /\ store' = [read EXCEPT !.lock = TRUE, !.streaming = TRUE, !.home = c, !.cancel = i,
                                       !.bubbles = {i}]
              /\ streams' = [streams EXCEPT ![i] = [phase |-> "reading", canvas |-> c,
                                                    resumed |-> TRUE, mount |-> mount]]
              /\ slips' = IF In({"done"}) # {} THEN slips \cup {"closing"} ELSE slips
    BY Zenon DEF Restored
  <2> HIDE DEF read, fewer
  <2>4. fewer = [store EXCEPT !.restoring = rest]
    BY DEF fewer
  <2> QED
    BY <2>1, <2>2, <2>3, <2>4
<1> QED
  BY <1>3, <1>4, <1>5, <1>6

-----------------------------------------------------------------------------
(***************************************************************************)
(* The page changes.                                                       *)
(***************************************************************************)
\* The draft gets its canvas: the stream that made it has no home yet, and keeps the lock.
LEMMA EnsureKeeps == ASSUME StoreInv, NEW i \in Streams, Ensure(i) PROVE StoreInv'
<1>1. PICK c \in Canvases \ created :
          /\ created' = created \cup {c} /\ page' = c
          /\ store' = Readied(Moved(store, page, c), c)
          /\ streams' = [Over(CutMoving(store, page, c)) EXCEPT ![i].canvas = c]
  BY DEF Ensure
<1> DEFINE m == Moved(store, page, c)
           cut == CutMoving(store, page, c)
<1>2. store \in Stores /\ page \in Place /\ c \in Place /\ c # None
  BY StoreAssumption DEF StoreInv, StoreTypeOK, Place
<1>3. m \in Stores /\ m.active = c /\ m.restoring = store.restoring
  BY <1>2, MovedStore
<1>4. streams' \in [Streams -> StreamRecord] /\ streams'[i].canvas = c
      /\ streams'[i].phase = Over(cut)[i].phase
      /\ \A j \in Streams \ {i} : streams'[j] = Over(cut)[j]
  BY <1>1, <1>2, OverStreams DEF StoreInv, StreamRecord
<1>5. store' \in Stores /\ store'.active = c /\ store'.restoring \subseteq store.restoring \cup {c}
  BY <1>1, <1>2, <1>3, ReadiedStore
<1>6. slips' = slips /\ strayed' = strayed /\ UNCHANGED <<mount, moves>>
  BY DEF Ensure
<1>7. StoreTypeOK'
  <2>1. talked' \subseteq created' /\ running' \subseteq talked' /\ created' \subseteq Canvases
    BY <1>1 DEF Ensure, StoreInv, StoreTypeOK
  <2>2. page' \in Place /\ due' = due
    BY <1>1, <1>2 DEF Ensure
  <2> QED
    BY <1>4, <1>5, <1>6, <2>1, <2>2 DEF StoreInv, StoreTypeOK, StreamRecord
<1>8. Known'
  <2>1. \A j \in Streams : streams'[j].canvas \in created' \cup {None}
    BY <1>1, <1>4, OverStreams DEF StoreInv, Known
  <2> QED
    BY <1>1, <1>5, <1>6, <2>1 DEF StoreInv, Known
<1>9. ASSUME Locked
      PROVE  /\ SameLock(m, store) /\ cut = {} /\ store.streaming = TRUE /\ store.home = None
             /\ Busy = {i} /\ store.lock
  <2>1. i \in Busy /\ i \in Live /\ i \in In({"saving"})
    BY DEF Ensure, Busy, Live, In
  <2>2. store.lock /\ store.home = None /\ Busy = {i} /\ store.streaming = TRUE
    BY <1>2, <1>9, <2>1 DEF Locked, Stores, Busy, Live, In
  <2>3. OwnStream(store, c)
    BY <1>2, <2>2 DEF OwnStream
  <2>4. SameLock(m, store)
    BY <1>2, <2>3, RefreshedStore, ResetStore DEF Moved
  <2>5. cut = {}
    BY <2>3 DEF CutMoving, CutBy
  <2> QED
    BY <2>2, <2>4, <2>5
<1> HIDE DEF m, cut
<1>10. ASSUME Locked
       PROVE  /\ SameLock(store', store) /\ store'.restoring = store.restoring
              /\ Busy' = {i} /\ Live' = {i} /\ In({"saving"})' = {i} /\ streams'[i].phase = "saving"
              /\ In({"asking", "reading"})' = {} /\ In({"reading"})' = {}
  <2>1. m.streaming = TRUE
    BY <1>9, <1>10 DEF SameLock
  <2>2. SameLock(store', store) /\ store'.restoring = store.restoring
    BY <1>1, <1>2, <1>3, <1>9, <1>10, <2>1, ReadiedStore DEF SameLock, m
  <2>3. \A j \in Streams : streams'[j].phase = streams[j].phase
    BY <1>4, <1>9, <1>10, OverStreams DEF StoreInv
  <2>4. streams[i].phase = "saving"
    BY DEF Ensure
  <2>5. \A j \in Streams \ {i} : j \notin Busy
    BY <1>9, <1>10
  <2> QED
    BY <2>2, <2>3, <2>4, <2>5 DEF Busy, Live, In
<1>11. Locked => Locked'
  BY <1>9, <1>10 DEF Locked, SameLock
<1>12. ASSUME Locked, Here PROVE Here'
  <2>1. page = None /\ store.active = None
    BY <1>12 DEF Here, Ensure, Live, In
  <2>2. m = Refreshed(store, c)
    BY <2>1 DEF m, Moved, SamePlace
  <2>3. m.session = None /\ m.history = None /\ m.listed = None
    BY <1>2, <1>12, <2>1, <2>2, RefreshedStore DEF Here, SameTalk
  <2>4. store'.session = None /\ store'.history = None /\ store'.listed = None
    BY <1>1, <1>2, <1>3, <2>3, ReadiedStore DEF m
  <2> QED
    BY <1>1, <1>4, <1>5, <1>6, <1>10, <1>12, <2>4 DEF Here
<1>13. Locked => Bubbles'
  BY <1>5, <1>10 DEF Bubbles, StoreInv, Known
<1> QED
  BY <1>6, <1>7, <1>8, <1>11, <1>12, <1>13, SlipsStay DEF StoreInv

\* Another canvas comes on the page: a stream of the one that was there is cut.
LEMMA VisitKeeps == ASSUME StoreInv, NEW c \in Place, Visit(c) PROVE StoreInv'
<1> DEFINE m == Moved(store, page, c)
           cut == CutMoving(store, page, c)
<1>1. store \in Stores /\ page \in Place /\ c # page /\ page' = c /\ c \in created \cup {None}
  BY DEF Visit, StoreInv, StoreTypeOK
<1>2. m \in Stores /\ m.active = c /\ m.restoring = store.restoring
  BY <1>1, MovedStore
<1>3. store' = Readied(m, c) /\ streams' = Over(cut)
  BY DEF Visit
<1>4. /\ store' \in Stores /\ store'.active = c /\ SameLock(store', m)
      /\ store'.restoring \subseteq store.restoring \cup ({c} \ {None})
      /\ store'.history = m.history /\ store'.listed = m.listed
      /\ store'.session \in {m.session, m.listed}
  BY <1>2, <1>3, ReadiedStore
<1>5. slips' \subseteq Slips /\ slips \subseteq slips' /\ UNCHANGED <<strayed, mount, created>> /\ moves' = moves + 1
  BY DEF Visit, StoreInv, StoreTypeOK, Slips
<1>6. StoreTypeOK'
  <2>1. moves' \in 0 .. Visits
    BY StoreAssumption DEF Visit, StoreInv, StoreTypeOK
  <2>2. streams' \in [Streams -> StreamRecord]
    BY <1>3, OverStreams DEF StoreInv
  <2> QED
    BY <1>1, <1>4, <1>5, <2>1, <2>2 DEF Visit, StoreInv, StoreTypeOK, StreamRecord
<1>7. Known'
  <2>1. \A j \in Streams : streams'[j].canvas \in created \cup {None}
    BY <1>3, OverStreams DEF StoreInv, Known
  <2> QED
    BY <1>1, <1>4, <1>5, <2>1 DEF StoreInv, Known, StoreTypeOK
<1>8. ASSUME Tame' PROVE Locked /\ Live = In({"reading"}) /\ In({"saving"}) = {}
  <2>1. Locked
    BY <1>5, <1>8, SlipsStay
  <2>2. Early = {}
    BY <1>8 DEF Visit, Tame
  <2> QED
    BY <2>1, <2>2 DEF Early, Live, In
\* Either nothing of the stream changes, or it is cut.
<1>9. ASSUME Tame'
      PROVE  \/ SameLock(m, store) /\ cut = {} /\ (SamePlace(store, page, c) \/ OwnStream(store, c))
             \/ /\ ~SamePlace(store, page, c) /\ ~OwnStream(store, c) /\ m.streaming = FALSE /\ m.lock = FALSE
                /\ Fresh(m)
                /\ \/ cut = {} /\ m.home = store.home /\ Live = {} /\ ~store.lock
                   \/ \E j \in In({"reading"}) : cut = {j} /\ Busy = {j} /\ m.home = None
  <2>1. CASE SamePlace(store, page, c)
    BY <1>1, <2>1, RefreshedStore DEF CutMoving, Moved
  <2>2. CASE ~SamePlace(store, page, c) /\ OwnStream(store, c)
    BY <1>1, <2>2, ResetStore DEF CutMoving, CutBy, Moved
  <2>3. CASE ~SamePlace(store, page, c) /\ ~OwnStream(store, c)
    <3>1. /\ m = Reset(store, c) /\ Fresh(m) /\ m.streaming = FALSE
          /\ m.lock = (store.lock /\ ~Cuts(store, c))
          /\ m.home = IF Cuts(store, c) /\ store.cancel # None THEN None ELSE store.home
      BY <1>1, <2>3, <1>2, ResetStore DEF Moved, Stores
    <3>2. CASE store.lock
      <4>1. PICK j \in Streams : j \in In({"reading"}) /\ j \in Busy
        BY <1>8, <1>9, <3>2 DEF Locked, In, Busy, Live
      <4>2. /\ store.home = streams[j].canvas /\ streams[j].canvas # None
            /\ store.cancel = j /\ j # None /\ Busy = {j}
        <5>1. /\ store.home = streams[j].canvas /\ streams[j].canvas # None /\ store.cancel = j
          BY <1>8, <1>9, <4>1 DEF Locked, In
        <5>2. \A k \in Busy : k = j
          BY <1>8, <1>9, <4>1 DEF Locked
        <5>3. j # None
          BY StoreAssumption DEF Streams
        <5> QED
          BY <4>1, <5>1, <5>2, <5>3
      <4>3. Cuts(store, c)
        BY <2>3, <3>2, <4>2 DEF OwnStream, Cuts
      <4>4. cut = {j} /\ m.home = None /\ m.lock = FALSE
        BY <2>3, <3>1, <4>2, <4>3 DEF CutMoving, CutBy
      <4> QED
        BY <2>3, <3>1, <4>1, <4>2, <4>4
    <3>3. CASE ~store.lock
      <4>1. ~Cuts(store, c) /\ Live = {}
        BY <1>8, <1>9, <3>3 DEF Cuts, Locked
      <4>2. cut = {} /\ m.home = store.home /\ m.lock = FALSE
        BY <2>3, <3>1, <3>3, <4>1 DEF CutMoving, CutBy
      <4> QED
        BY <2>3, <3>1, <3>3, <4>1, <4>2
    <3> QED
      BY <3>2, <3>3
  <2> QED
    BY <2>1, <2>2, <2>3
<1> HIDE DEF m, cut
<1>10. cut = {} => streams' = streams
  BY <1>3, OverStreams DEF StoreInv
<1>11. ASSUME NEW j \in In({"reading"}), cut = {j}, Busy = {j} PROVE Busy' = {}
  <2>1. \A k \in Streams \ {j} : streams'[k] = streams[k] /\ k \notin Busy
    BY <1>3, <1>11, OverStreams DEF StoreInv
  <2>2. streams'[j].phase = "over"
    BY <1>3, <1>11, OverStreams DEF StoreInv, In
  <2> QED
    BY <2>1, <2>2 DEF Busy, Live, In
<1>12. Busy' = {} => Live' = {} /\ In({"saving"})' = {} /\ In({"reading"})' = {} /\ In({"asking", "reading"})' = {}
  BY DEF Busy, Live, In
<1>13. ASSUME Tame' PROVE Locked'
  <2>1. CASE SameLock(m, store) /\ cut = {}
    <3>1. SameLock(store', store)
      BY <1>4, <2>1 DEF SameLock
    <3> QED
      BY <1>8, <1>10, <1>13, <2>1, <3>1, LockedStays
  <2>2. CASE m.streaming = FALSE /\ m.lock = FALSE /\ cut = {} /\ m.home = store.home /\ Live = {}
    <3>1. streams' = streams /\ store'.streaming = FALSE /\ store'.lock = FALSE /\ store'.home = store.home
      BY <1>4, <1>10, <2>2 DEF SameLock
    <3> QED
      BY <1>8, <1>13, <2>2, <3>1 DEF Locked, Live, Busy, In
  <2>3. CASE /\ m.streaming = FALSE /\ m.lock = FALSE
             /\ \E j \in In({"reading"}) : cut = {j} /\ Busy = {j} /\ m.home = None
    <3>1. Busy' = {} /\ store'.streaming = FALSE /\ store'.lock = FALSE /\ store'.home = None
      BY <1>4, <1>11, <2>3 DEF SameLock
    <3> QED
      BY <1>12, <3>1 DEF Locked
  <2> QED
    BY <1>9, <1>13, <2>1, <2>2, <2>3
\* No stream survives if the store followed the page till now, and nothing of the old canvas does.
<1>14. ASSUME Tame', Here PROVE Live' = {} /\ In({"asking", "reading"})' = {}
  <2>1. CASE Live = {}
    <3>1. cut = {}
      BY <1>9, <1>14, <2>1 DEF Live, In
    <3> QED
      BY <1>10, <2>1, <3>1 DEF Live, In
  <2>2. CASE Live # {}
    <3>1. PICK j \in Streams : j \in In({"reading"}) /\ j \in Live
      BY <1>8, <1>14, <2>2 DEF In
    <3>2. store.home = page /\ page # None /\ store.active = page
      BY <1>8, <1>14, <3>1 DEF Locked, Here, In
    <3>3. ~SamePlace(store, page, c) /\ ~OwnStream(store, c)
      BY <1>1, <3>2 DEF SamePlace, OwnStream
    <3>4. Busy' = {}
      BY <1>9, <1>11, <1>14, <2>2, <3>3
    <3> QED
      BY <1>12, <3>4
  <2> QED
    BY <2>1, <2>2
<1>15. ASSUME Tame', Here PROVE m.session = None /\ m.history = None /\ m.listed = None
  <2>1. CASE SamePlace(store, page, c)
    <3>1. page = None /\ m = Refreshed(store, c)
      BY <1>1, <1>15, <2>1 DEF SamePlace, Here, Moved, m
    <3> QED
      BY <1>1, <1>15, <3>1, RefreshedStore DEF Here, SameTalk
  <2>2. CASE ~SamePlace(store, page, c) /\ ~OwnStream(store, c)
    BY <1>9, <1>15, <2>2 DEF Fresh
  <2>3. CASE ~SamePlace(store, page, c) /\ OwnStream(store, c)
    <3>1. PICK j \in Streams : j \in In({"reading"}) /\ j \in Live
      BY <1>8, <1>15, <2>3 DEF In, OwnStream, Locked
    <3>2. store.home = page /\ page # None
      BY <1>8, <1>15, <3>1 DEF Locked, Here, In
    <3> QED
      BY <1>1, <2>3, <3>2 DEF OwnStream
  <2> QED
    BY <2>1, <2>2, <2>3
<1>16. Tame' /\ Here => Here'
  BY <1>1, <1>4, <1>5, <1>14, <1>15 DEF Here
<1>17. Tame' /\ Here => Bubbles'
  BY <1>14 DEF Bubbles
<1> QED
  BY <1>5, <1>6, <1>7, <1>13, <1>16, <1>17, SlipsStay DEF StoreInv

LEMMA RemountKeeps == ASSUME StoreInv, Remount PROVE StoreInv'
<1>1. store \in Stores /\ page' = None /\ None \in Place /\ store' = Refreshed(store, None)
  BY DEF Remount, Moved, SamePlace, StoreInv, StoreTypeOK, Place
<1>2. /\ store' \in Stores /\ store'.active = None /\ store'.listed = None
      /\ SameLock(store', store) /\ SameTalk(store', store)
  BY <1>1, RefreshedStore
<1>3. slips' \subseteq Slips /\ slips \subseteq slips' /\ UNCHANGED <<strayed, streams, created>>
  BY DEF Remount, StoreInv, StoreTypeOK, Slips
<1>4. mount' = mount + 1 /\ moves' = moves + 1 /\ moves < Visits
  BY DEF Remount
<1>5. StoreTypeOK'
  <2>1. moves' \in 0 .. Visits /\ mount' \in 0 .. Visits
    BY <1>4, StoreAssumption DEF StoreInv, StoreTypeOK, Known
  <2> QED
    BY <1>1, <1>2, <1>3, <2>1 DEF Remount, StoreInv, StoreTypeOK
<1>6. Known'
  BY <1>1, <1>2, <1>3, <1>4 DEF StoreInv, StoreTypeOK, Known, SameTalk
<1>7. Tame' => Locked'
  BY <1>2, <1>3, SlipsStay, LockedStays
<1>8. ASSUME Tame', "remount" \notin slips', Here
      PROVE  /\ store.session = None /\ store.history = None
             /\ Live' = {} /\ In({"asking", "reading"})' = {}
  <2>1. store.session = None /\ store.history = None /\ store.bubbles = {}
    BY <1>8 DEF Remount
  <2>2. Early = {}
    BY <1>8 DEF Remount, Tame
  <2>3. In({"asking", "reading"}) = {}
    BY <1>8, <2>1 DEF Here
  <2> QED
    BY <1>3, <2>1, <2>2, <2>3 DEF Live, Early, In
<1>9. Tame' /\ "remount" \notin slips' /\ Here => Here' /\ Bubbles'
  BY <1>1, <1>2, <1>3, <1>8 DEF Here, Bubbles, SameTalk
<1> QED
  BY <1>3, <1>5, <1>6, <1>7, <1>9, SlipsStay DEF StoreInv

-----------------------------------------------------------------------------
(***************************************************************************)
(* The invariant of the assistant and what it says.                        *)
(***************************************************************************)
LEMMA StoreKept == ASSUME StoreInv, [StoreNext]_storeVars PROVE StoreInv'
<1>1. ASSUME NEW c \in Place, Visit(c) PROVE StoreInv'
  BY <1>1, VisitKeeps
<1>2. CASE Remount \/ ListArrives \/ Ready \/ Abort \/ NewConversation
  BY <1>2, RemountKeeps, ListKeeps, ReadyKeeps, AbortKeeps, NewConversationKeeps
<1>3. ASSUME NEW c \in Canvases, Restored(c) \/ Unrestored(c) \/ Finish(c) PROVE StoreInv'
  <2>1. CASE Restored(c)
    BY <2>1, RestoredKeeps
  <2>2. CASE Unrestored(c)
    BY <2>2, UnrestoredKeeps
  <2>3. CASE Finish(c)
    <3>1. UNCHANGED <<page, created, talked, store, streams, moves, mount, strayed, slips, due>>
      BY <2>3 DEF Finish
    <3>2. talked' \subseteq created /\ running' \subseteq talked'
      BY <2>3, <3>1 DEF Finish, StoreInv, StoreTypeOK
    <3> QED
      BY <3>1, <3>2, StoreStutters
  <2> QED
    BY <1>3, <2>1, <2>2, <2>3
<1>4. ASSUME NEW i \in Streams, Send(i) \/ Progress(i) \/ End(i) PROVE StoreInv'
  BY <1>4, SendKeeps, EnsureKeeps, BeginKeeps, ConnectKeeps, ActKeeps, WelcomeKeeps,
     DoneKeeps, EndKeeps DEF Progress
<1>5. CASE UNCHANGED storeVars
  <2>1. talked' \subseteq created /\ running' \subseteq talked'
    BY <1>5 DEF storeVars, StoreInv, StoreTypeOK
  <2> QED
    BY <1>5, <2>1, StoreStutters DEF storeVars
<1> QED
  BY <1>1, <1>2, <1>3, <1>4, <1>5 DEF StoreNext

LEMMA StoreInvariant == StoreSpec => []StoreInv
<1>1. StoreInv /\ [StoreNext]_storeVars => StoreInv'
  BY StoreKept
<1> QED
  BY <1>1, StoreInitially, PTL DEF StoreSpec

\* The page, the streams and the store keep their types.
THEOREM AssistantTypeCorrect == StoreSpec => []StoreTypeOK
BY StoreInvariant, PTL DEF StoreInv

\* In every reachable state that no known slip has touched, the assistant shows the
\* conversation of its canvas, all of the answer being read, and that answer's stream is the
\* only one and holds the lock (AIAssistant.vue, canvasAssistantStore.ts).
THEOREM ConversationIsOwn == StoreSpec => []AssistantSound
<1>1. StoreInv => OwnCanvas
  BY DEF StoreInv, OwnCanvas, Here, Tame
<1>2. StoreInv => BubbleShown
  BY DEF StoreInv, BubbleShown, Bubbles, In
<1>3. StoreInv => LockHeld
  <2> SUFFICES ASSUME StoreInv, slips = {} PROVE LockHeld
    BY DEF LockHeld
  <2>1. Locked
    BY DEF StoreInv, Tame
  <2>2. Cardinality(Early \cup In({"reading"})) <= 1
    <3>1. Early \cup In({"reading"}) = Live
      BY DEF Early, Live, In
    <3>2. \A i, j \in Live : i = j
      BY <2>1 DEF Locked, Busy
    <3>3. CASE Live = {}
      BY <3>1, <3>3, FS_EmptySet
    <3>4. ASSUME NEW i \in Live PROVE Cardinality(Live) <= 1
      <4>1. Live = {i}
        BY <3>2, <3>4
      <4>2. Cardinality({i}) = 1
        BY FS_Singleton
      <4> QED
        BY <4>1, <4>2
    <3> QED
      BY <3>1, <3>3, <3>4
  <2>3. Early # {} => store.lock
    BY <2>1 DEF Locked, Early, Live, In
  <2>4. \A i \in In({"reading"}) : store.lock /\ store.cancel = i /\ store.home = streams[i].canvas
    BY <2>1 DEF Locked, Live, In
  <2> QED
    BY <2>2, <2>3, <2>4 DEF LockHeld
<1> QED
  BY <1>1, <1>2, <1>3, StoreInvariant, PTL DEF AssistantSound

-----------------------------------------------------------------------------
(***************************************************************************)
(* The blocks of a canvas: their lists.                                    *)
(***************************************************************************)
\* A block has its id once it is in a list, and is a text if its body is one.
TextRight(b) == b.kind = "text" <=> b.body \in Texts
Listed == {b \in Block : b.id # 0 /\ TextRight(b)}
Asked == {a \in Action : a.op = "add" => TextRight(a.block)}

Has(s, t) == \E i \in DOMAIN s : s[i].body = t
Once(s) == \A i, j \in DOMAIN s : s[i].body \in Texts /\ s[i].body = s[j].body => i = j

LEMMA BlockFields ==
    ASSUME NEW b \in Block
    PROVE  b.id \in Ids \cup {0} /\ b.kind \in {"chart", "text"}
           /\ b.body \in Texts \cup {"chart", "patched"}
BY DEF Block

LEMMA Kinds ==
    ASSUME NEW a \in Asked
    PROVE  /\ a.op = "add" => a.block \in Block /\ TextRight(a.block) /\ a = [op |-> "add", block |-> a.block]
           /\ a.op \in {"update", "remove"} => a.id \in Ids /\ a = [op |-> a.op, id |-> a.id]
           /\ a.op = "clear" => a = [op |-> "clear"]
           /\ a.op \in {"add", "update", "remove", "clear"}
BY DEF Asked, Action

LEMMA Outside == NoBlocks \notin Seq(Listed) /\ Seq(Listed) \subseteq Seq(Block)
                 /\ Seq(Asked) \subseteq Seq(Action)
<1>1. Listed \subseteq Block /\ Asked \subseteq Action
  BY DEF Listed, Asked
<1>2. Seq(Listed) \subseteq Seq(Block) /\ Seq(Asked) \subseteq Seq(Action)
  BY <1>1, SeqMonotonic
<1> QED
  BY <1>2, CanvasAssumption

\* The writer's number makes a block one of a list.
LEMMA NumberedIsListed ==
    ASSUME NEW a \in Asked, fresh \in Ids
    PROVE  /\ Numbered(a) \in Asked /\ Numbered(a).op = a.op
           /\ a.op \in {"update", "remove"} => Numbered(a).id = a.id
           /\ a.op = "add" => /\ Numbered(a).block \in Listed
                              /\ Numbered(a).block.body = a.block.body
                              /\ Numbered(a).block.kind = a.block.kind
                              /\ Numbered(a).block.id = fresh
<1>1. CASE a.op = "add"
  <2> DEFINE b == [a.block EXCEPT !.id = fresh]
  <2>1. a.block \in Block /\ TextRight(a.block) /\ a = [op |-> "add", block |-> a.block]
    BY <1>1, Kinds
  <2>2. b \in Block /\ b.id = fresh /\ b.body = a.block.body /\ b.kind = a.block.kind
    BY <2>1 DEF Block
  <2>3. Numbered(a) = [op |-> "add", block |-> b]
    <3>1. Numbered(a) = [a EXCEPT !.block = b]
      BY <1>1 DEF Numbered
    <3> HIDE DEF b
    <3> QED
      BY <2>1, <3>1
  <2>4. b \in Listed
    <3>1. MaxId \in Nat
      BY CanvasAssumption
    <3>2. fresh # 0
      BY <3>1 DEF Ids
    <3>3. TextRight(b)
      BY <2>1, <2>2 DEF TextRight
    <3> HIDE DEF b
    <3> QED
      BY <2>2, <3>2, <3>3 DEF Listed
  <2> HIDE DEF b
  <2>5. Numbered(a).op = "add" /\ Numbered(a).block = b
    BY <2>3
  <2>6. Numbered(a) \in Asked
    BY <2>3, <2>4, <2>5 DEF Asked, Action, Listed
  <2> QED
    BY <1>1, <2>2, <2>4, <2>5, <2>6
<1>2. CASE a.op # "add"
  BY <1>2 DEF Numbered
<1> QED
  BY <1>1, <1>2

\* A chart patched is a chart.
LEMMA PatchedIsListed ==
    ASSUME NEW b \in Listed, b.kind = "chart"
    PROVE  /\ Patched(b) \in Listed /\ Patched(b).body \notin Texts /\ b.body \notin Texts
           /\ Patched(b).kind = "chart"
<1>1. b \in Block /\ b.id # 0 /\ b.body \notin Texts
  BY DEF Listed, TextRight
<1>2. Patched(b) = [id |-> b.id, kind |-> b.kind, body |-> "patched"]
  BY <1>1 DEF Patched, Block
<1>3. /\ Patched(b).id = b.id /\ Patched(b).kind = b.kind /\ Patched(b).body = "patched"
      /\ Patched(b) \in Block
  BY <1>1, <1>2 DEF Block
<1>4. "patched" \notin Texts
  BY CanvasAssumption
<1> QED
  BY <1>1, <1>3, <1>4 DEF Listed, TextRight

LEMMA OnceAppended ==
    ASSUME NEW s \in Seq(Listed), NEW b \in Listed
    PROVE  /\ Append(s, b) \in Seq(Listed)
           /\ \A t : Has(Append(s, b), t) <=> Has(s, t) \/ b.body = t
           /\ Once(s) /\ (b.body \in Texts => ~Has(s, b.body)) => Once(Append(s, b))
<1> DEFINE a == Append(s, b)
<1>1. /\ a \in Seq(Listed) /\ Len(a) = Len(s) + 1 /\ Len(s) \in Nat
      /\ \A i \in 1 .. Len(s) : a[i] = s[i]
      /\ a[Len(s) + 1] = b
  BY Appended, Lengths
<1>2. DOMAIN a = 1 .. Len(s) + 1 /\ DOMAIN s = 1 .. Len(s)
  BY <1>1, Lengths
<1> HIDE DEF a
<1>3. \A t : Has(a, t) <=> Has(s, t) \/ b.body = t
  BY <1>1, <1>2 DEF Has
<1>4. ASSUME Once(s), b.body \in Texts => ~Has(s, b.body) PROVE Once(a)
  <2> SUFFICES ASSUME NEW i \in 1 .. Len(s) + 1, NEW j \in 1 .. Len(s) + 1,
                      a[i].body \in Texts, a[i].body = a[j].body
               PROVE  i = j
    BY <1>2 DEF Once
  <2>1. CASE i \in 1 .. Len(s) /\ j \in 1 .. Len(s)
    BY <1>1, <1>2, <1>4, <2>1 DEF Once
  <2>2. CASE i = Len(s) + 1 /\ j \in 1 .. Len(s)
    BY <1>1, <1>2, <1>4, <2>2 DEF Has
  <2>3. CASE j = Len(s) + 1 /\ i \in 1 .. Len(s)
    BY <1>1, <1>2, <1>4, <2>3 DEF Has
  <2> QED
    BY <1>1, <2>1, <2>2, <2>3
<1> QED
  BY <1>1, <1>3, <1>4 DEF a

LEMMA OnceRemoved ==
    ASSUME NEW s \in Seq(Listed), NEW i \in DOMAIN s
    PROVE  /\ RemoveAt(s, i) \in Seq(Listed)
           /\ \A t : Has(RemoveAt(s, i), t) => Has(s, t)
           /\ Once(s) => Once(RemoveAt(s, i))
<1> DEFINE r == RemoveAt(s, i)
<1>1. Len(s) \in Nat /\ DOMAIN s = 1 .. Len(s)
  BY Lengths
<1>2. /\ r \in Seq(Listed) /\ Len(r) = Len(s) - 1
      /\ \A k \in 1 .. Len(s) - 1 : r[k] = IF k < i THEN s[k] ELSE s[k + 1]
  BY <1>1, Removed
<1>3. DOMAIN r = 1 .. Len(s) - 1
  BY <1>2, Lengths
<1> HIDE DEF r
<1>4. ASSUME NEW t, Has(r, t) PROVE Has(s, t)
  <2>1. PICK k \in 1 .. Len(s) - 1 : r[k].body = t
    BY <1>3, <1>4 DEF Has
  <2>2. \E m \in DOMAIN s : r[k] = s[m]
    BY <1>1, <1>2
  <2> QED
    BY <2>1, <2>2 DEF Has
<1>5. ASSUME Once(s) PROVE Once(r)
  <2> SUFFICES ASSUME NEW k \in 1 .. Len(s) - 1, NEW j \in 1 .. Len(s) - 1,
                      r[k].body \in Texts, r[k].body = r[j].body
               PROVE  k = j
    BY <1>3 DEF Once
  <2> DEFINE at(n) == IF n < i THEN n ELSE n + 1
  <2>1. r[k] = s[at(k)] /\ r[j] = s[at(j)] /\ at(k) \in DOMAIN s /\ at(j) \in DOMAIN s
    BY <1>1, <1>2
  <2>2. at(k) = at(j)
    BY <1>5, <2>1 DEF Once
  <2> QED
    BY <1>1, <2>2
<1> QED
  BY <1>2, <1>4, <1>5 DEF r

\* A list of which some charts are patched.
LEMMA OncePatched ==
    ASSUME NEW s \in Seq(Listed), NEW C, \A i \in C : i \in DOMAIN s => s[i].kind = "chart"
    PROVE  LET p == [i \in DOMAIN s |-> IF i \in C THEN Patched(s[i]) ELSE s[i]]
           IN  /\ p \in Seq(Listed) /\ \A t \in Texts : Has(p, t) <=> Has(s, t)
               /\ Once(s) => Once(p)
<1> DEFINE e(i) == IF i \in C THEN Patched(s[i]) ELSE s[i]
           p == [i \in 1 .. Len(s) |-> e(i)]
<1>1. Len(s) \in Nat /\ DOMAIN s = 1 .. Len(s) /\ \A i \in 1 .. Len(s) : s[i] \in Listed
  BY Lengths
<1>2. \A i \in 1 .. Len(s) : e(i) \in Listed
  BY <1>1, PatchedIsListed
<1>3. \A i \in 1 .. Len(s) : p[i] = s[i] \/ (p[i].body \notin Texts /\ s[i].body \notin Texts)
  BY <1>1, PatchedIsListed
<1>4. DOMAIN p = 1 .. Len(s) /\ p = [i \in DOMAIN s |-> IF i \in C THEN Patched(s[i]) ELSE s[i]]
  BY <1>1
<1>5. p \in Seq(Listed)
  <2> HIDE DEF e
  <2> QED
    BY <1>1, <1>2, IsASeq
<1> HIDE DEF p
<1>6. \A t \in Texts : Has(p, t) <=> Has(s, t)
  BY <1>1, <1>3, <1>4 DEF Has
<1>7. Once(s) => Once(p)
  BY <1>1, <1>3, <1>4 DEF Once
<1> QED
  BY <1>4, <1>5, <1>6, <1>7

\* The removal of the writer: its definition defines a list.
LEMMA WithoutSteps ==
    ASSUME NEW s \in Seq(Listed), NEW id
    PROVE  \E L : /\ Without(s, id) = L[Len(s)] /\ L[0] = <<>>
                  /\ \A n \in 1 .. Len(s) :
                        L[n] = IF IsChart(s[n], id) THEN L[n - 1] ELSE Append(L[n - 1], s[n])
<1> DEFINE LeftTo(f, m) == f = [n \in 0 .. m |-> IF n = 0 THEN <<>>
                                ELSE IF IsChart(s[n], id) THEN f[n - 1] ELSE Append(f[n - 1], s[n])]
           Bad == {m \in Nat : ~ \E f : LeftTo(f, m)}
<1>1. ASSUME Bad # {} PROVE FALSE
  <2>1. PICK m \in Bad : \A k \in Bad : m <= k
    BY <1>1, Least
  <2>2. CASE m = 0
    <3> DEFINE f == [n \in 0 .. 0 |-> <<>>]
    <3>1. LeftTo(f, 0)
      OBVIOUS
    <3> QED
      BY <2>1, <2>2, <3>1
  <2>3. CASE m # 0
    <3>1. m - 1 \in Nat /\ m - 1 \notin Bad
      <4>1. m \in Nat
        BY <2>1
      <4> HIDE DEF Bad
      <4> QED
        BY <2>1, <2>3, <4>1
    <3>2. PICK f : LeftTo(f, m - 1)
      BY <3>1
    <3> DEFINE next == IF IsChart(s[m], id) THEN f[m - 1] ELSE Append(f[m - 1], s[m])
               g == [n \in 0 .. m |-> IF n = m THEN next ELSE f[n]]
    <3>3. LeftTo(g, m)
      <4>1. \A n \in 0 .. m - 1 :
               f[n] = IF n = 0 THEN <<>>
                      ELSE IF IsChart(s[n], id) THEN f[n - 1] ELSE Append(f[n - 1], s[n])
        BY <3>2
      <4>2. \A n \in 0 .. m :
               g[n] = IF n = 0 THEN <<>>
                      ELSE IF IsChart(s[n], id) THEN g[n - 1] ELSE Append(g[n - 1], s[n])
        BY <2>1, <2>3, <4>1
      <4> QED
        BY <4>2
    <3> QED
      BY <2>1, <3>3
  <2> QED
    BY <2>2, <2>3
<1>2. Len(s) \in Nat
  BY Lengths
<1>3. \E f : LeftTo(f, Len(s))
  BY <1>1, <1>2
<1> DEFINE L == CHOOSE f : LeftTo(f, Len(s))
<1>4. LeftTo(L, Len(s))
  BY <1>3, Zenon
<1>5. Without(s, id) = L[Len(s)]
  BY Zenon DEF Without
<1> HIDE DEF L
<1>6. \A n \in 0 .. Len(s) :
         L[n] = IF n = 0 THEN <<>>
                ELSE IF IsChart(s[n], id) THEN L[n - 1] ELSE Append(L[n - 1], s[n])
  BY <1>4
<1>7. L[0] = <<>>
  BY <1>2, <1>6
<1>8. \A n \in 1 .. Len(s) :
         L[n] = IF IsChart(s[n], id) THEN L[n - 1] ELSE Append(L[n - 1], s[n])
  BY <1>2, <1>6
<1> QED
  BY <1>5, <1>7, <1>8

LEMMA OnceWithout ==
    ASSUME NEW s \in Seq(Listed), NEW id
    PROVE  /\ Without(s, id) \in Seq(Listed)
           /\ \A t \in Texts : Has(s, t) <=> Has(Without(s, id), t)
           /\ Once(s) => Once(Without(s, id))
<1>1. PICK L : /\ Without(s, id) = L[Len(s)] /\ L[0] = <<>>
               /\ \A n \in 1 .. Len(s) :
                     L[n] = IF IsChart(s[n], id) THEN L[n - 1] ELSE Append(L[n - 1], s[n])
  BY WithoutSteps
<1>2. Len(s) \in Nat /\ DOMAIN s = 1 .. Len(s) /\ \A i \in 1 .. Len(s) : s[i] \in Listed
  BY Lengths
<1> DEFINE Good(n) == /\ L[n] \in Seq(Listed)
                      /\ \A t \in Texts : Has(L[n], t) <=> \E i \in 1 .. n : s[i].body = t
                      /\ Once(s) => Once(L[n])
           Bad == {n \in 0 .. Len(s) : ~Good(n)}
<1>3. Good(0)
  <2>1. L[0] \in Seq(Listed) /\ DOMAIN L[0] = {}
    BY <1>1, EmptySeq
  <2> QED
    BY <2>1 DEF Has, Once
<1>4. ASSUME NEW n \in 1 .. Len(s), Good(n - 1) PROVE Good(n)
  <2>1. s[n] \in Listed /\ n \in Nat /\ n - 1 \in Nat
    BY <1>2
  <2>2. CASE IsChart(s[n], id)
    <3>1. L[n] = L[n - 1]
      BY <1>1, <2>2
    <3>2. s[n].body \notin Texts
      BY <2>1, <2>2 DEF IsChart, Listed, TextRight
    <3>3. \A t \in Texts : (\E i \in 1 .. n : s[i].body = t) <=> (\E i \in 1 .. n - 1 : s[i].body = t)
      <4>1. 1 .. n = (1 .. n - 1) \cup {n}
        BY <2>1
      <4> QED
        BY <3>2, <4>1
    <3> QED
      BY <1>4, <3>1, <3>3
  <2>3. CASE ~IsChart(s[n], id)
    <3>1. L[n] = Append(L[n - 1], s[n])
      BY <1>1, <2>3
    <3>2. /\ L[n] \in Seq(Listed) /\ \A t : Has(L[n], t) <=> Has(L[n - 1], t) \/ s[n].body = t
          /\ Once(L[n - 1]) /\ (s[n].body \in Texts => ~Has(L[n - 1], s[n].body)) => Once(L[n])
      BY <1>4, <2>1, <3>1, OnceAppended
    <3>3. \A t \in Texts : (\E i \in 1 .. n : s[i].body = t)
                             <=> (\E i \in 1 .. n - 1 : s[i].body = t) \/ s[n].body = t
      <4>1. 1 .. n = (1 .. n - 1) \cup {n}
        BY <2>1
      <4> QED
        BY <4>1
    <3>4. ASSUME Once(s), s[n].body \in Texts PROVE ~Has(L[n - 1], s[n].body)
      <4>1. \A i \in 1 .. n - 1 : i \in DOMAIN s /\ n \in DOMAIN s /\ i # n
        BY <1>2, <2>1
      <4>2. ~ \E i \in 1 .. n - 1 : s[i].body = s[n].body
        BY <3>4, <4>1 DEF Once
      <4> QED
        BY <1>4, <3>4, <4>2
    <3> QED
      BY <1>4, <3>2, <3>3, <3>4
  <2> QED
    BY <2>2, <2>3
<1>5. Good(Len(s))
  <2>1. ASSUME Bad # {} PROVE FALSE
    <3>1. Bad \in SUBSET Nat
      BY <1>2
    <3>2. PICK m \in Bad : \A k \in Bad : m <= k
      BY <2>1, <3>1, Least
    <3> HIDE DEF Good
    <3>3. m # 0 /\ m \in 1 .. Len(s)
      BY <1>2, <1>3, <3>2
    <3>4. Good(m - 1)
      BY <1>2, <3>2, <3>3
    <3> QED
      BY <1>4, <3>2, <3>3, <3>4
  <2> HIDE DEF Good
  <2> QED
    BY <1>2, <2>1
<1>6. \A t \in Texts : Has(s, t) <=> Has(L[Len(s)], t)
  BY <1>2, <1>5 DEF Has
<1> QED
  BY <1>1, <1>5, <1>6

-----------------------------------------------------------------------------
(***************************************************************************)
(* What the writer and the page make of an action.                         *)
(***************************************************************************)
\* Texts are never lost but by a clear, and come by an add only.
LEMMA WrittenIs ==
    ASSUME NEW s \in Seq(Listed), NEW a \in Asked, a.op = "add" => a.block \in Listed
    PROVE  /\ Written(s, a) \in Seq(Listed)
           /\ a.op # "clear" => \A t \in Texts : Has(s, t) => Has(Written(s, a), t)
           /\ Once(s) /\ (a.op = "add" /\ a.block.body \in Texts => ~Has(s, a.block.body))
                => Once(Written(s, a))
           /\ a.op = "add" => Written(s, a) = Append(s, a.block)
           /\ a.op = "clear" => Written(s, a) = <<>>
<1>1. CASE a.op = "add"
  <2>1. Written(s, a) = Append(s, a.block)
    BY <1>1 DEF Written
  <2> QED
    BY <1>1, <2>1, OnceAppended
<1>2. CASE a.op = "update"
  <2> DEFINE C == {i \in DOMAIN s : IsChart(s[i], a.id)}
             p == [i \in DOMAIN s |-> IF i \in C THEN Patched(s[i]) ELSE s[i]]
  <2>1. \A i \in C : i \in DOMAIN s => s[i].kind = "chart"
    BY DEF IsChart
  <2>2. Written(s, a) = p
    BY <1>2 DEF Written
  <2>3. p \in Seq(Listed) /\ (\A t \in Texts : Has(p, t) <=> Has(s, t)) /\ (Once(s) => Once(p))
    <3> HIDE DEF C
    <3> QED
      BY <2>1, OncePatched
  <2> HIDE DEF p
  <2> QED
    BY <1>2, <2>2, <2>3
<1>3. CASE a.op = "remove"
  <2>1. Written(s, a) = Without(s, a.id)
    BY <1>3 DEF Written
  <2> QED
    BY <1>3, <2>1, OnceWithout
<1>4. CASE a.op = "clear"
  <2>1. Written(s, a) = <<>>
    BY <1>4 DEF Written, Cleared
  <2>2. <<>> \in Seq(Listed) /\ Once(<<>>)
    BY EmptySeq DEF Once
  <2> QED
    BY <1>4, <2>1, <2>2
<1> QED
  BY <1>1, <1>2, <1>3, <1>4, Kinds

LEMMA ShownIs ==
    ASSUME NEW s \in Seq(Listed), NEW a \in Asked, a.op = "add" => a.block \in Listed
    PROVE  /\ Shown(s, a) \in Seq(Listed)
           /\ \A t \in Texts : Has(Shown(s, a), t) =>
                 /\ a.op # "clear"
                 /\ Has(s, t) \/ (a.op = "add" /\ a.block.body = t)
           /\ Once(s) /\ (a.op = "add" /\ a.block.body \in Texts => ~Has(s, a.block.body))
                => Once(Shown(s, a))
           /\ a.op = "add" => Shown(s, a) = Append(s, a.block)
           /\ a.op = "clear" => Shown(s, a) = <<>>
<1>1. CASE a.op = "add"
  <2>1. Shown(s, a) = Append(s, a.block)
    BY <1>1 DEF Shown
  <2> QED
    BY <1>1, <2>1, OnceAppended
<1>2. CASE a.op = "update"
  <2> DEFINE C == {i \in DOMAIN s : i = IndexOf(a) /\ s[i].kind = "chart"}
             p == [i \in DOMAIN s |-> IF i \in C THEN Patched(s[i]) ELSE s[i]]
  <2>1. \A i \in C : i \in DOMAIN s => s[i].kind = "chart"
    OBVIOUS
  <2>2. Shown(s, a) = p
    BY <1>2 DEF Shown
  <2>3. p \in Seq(Listed) /\ (\A t \in Texts : Has(p, t) <=> Has(s, t)) /\ (Once(s) => Once(p))
    <3> HIDE DEF C
    <3> QED
      BY <2>1, OncePatched
  <2> HIDE DEF p
  <2> QED
    BY <1>2, <2>2, <2>3
<1>3. CASE a.op = "remove"
  <2>1. Shown(s, a) = IF IndexOf(a) \in DOMAIN s THEN RemoveAt(s, IndexOf(a)) ELSE s
    BY <1>3 DEF Shown
  <2> QED
    BY <1>3, <2>1, OnceRemoved
<1>4. CASE a.op = "clear"
  <2>1. Shown(s, a) = <<>>
    BY <1>4 DEF Shown
  <2>2. <<>> \in Seq(Listed) /\ Once(<<>>) /\ \A t : ~Has(<<>>, t)
    BY EmptySeq DEF Once, Has
  <2> QED
    BY <1>4, <2>1, <2>2
<1> QED
  BY <1>1, <1>2, <1>3, <1>4, Kinds

-----------------------------------------------------------------------------
(***************************************************************************)
(* The types, of calls made in any number at once.                         *)
(***************************************************************************)
ToolCalls ==
    {Free} \cup [at : {"load", "read"}, act : Asked]
    \cup [at : {"write"}, act : Asked, base : Seq(Listed)]
Ledger == [texts : SUBSET Texts, charts : BOOLEAN, removed : SUBSET Ids]
Named(s) == \A i \in DOMAIN s : s[i].op = "add" => s[i].block.id # 0
CanvasTyped ==
    /\ {persist, busy, touched, severed} \subseteq BOOLEAN
    /\ row \in Seq(Listed) /\ screen \in Seq(Listed) /\ sent \in Seq(Listed)
    /\ tx \in Seq(Listed) \cup {NoBlocks} /\ saving \in Seq(Listed) \cup {NoBlocks}
    /\ stream \in Seq(Asked) /\ log \in Seq(Asked) /\ call \in [Slots -> ToolCalls]
    /\ ledger \in Ledger /\ turn \in 0 .. MaxTurns /\ fresh \in 1 .. MaxId + 1
    /\ persist => Named(stream)

LEMMA TypedIsTyped == CanvasTyped => CanvasTypeOK
<1> SUFFICES ASSUME CanvasTyped PROVE CanvasTypeOK
  OBVIOUS
<1>1. ASSUME NEW c \in Slots PROVE call[c].at \in {"free", "load", "read", "write"}
  <2>1. call[c] \in ToolCalls
    BY DEF CanvasTyped
  <2> QED
    BY <2>1 DEF ToolCalls, Free
<1> QED
  BY <1>1, Outside DEF CanvasTyped, CanvasTypeOK, Ledger

LEMMA Calls ==
    ASSUME CanvasTyped, NEW c \in Slots
    PROVE  /\ call[c] = Free <=> call[c].at = "free"
           /\ call[c].at # "free" => call[c].act \in Asked
           /\ call[c].at = "write" => call[c].base \in Seq(Listed)
           /\ call[c].at \in {"load", "read"} => call[c] = [at |-> call[c].at, act |-> call[c].act]
           /\ call[c].at \in {"free", "load", "read", "write"}
<1>1. call[c] \in ToolCalls
  BY DEF CanvasTyped
<1> QED
  BY <1>1 DEF ToolCalls, Free

LEMMA Requested == ASSUME CanvasTyped PROVE Requests \subseteq Asked
<1>1. \A id \in 1 .. fresh - 1 : id \in Ids
  <2>1. fresh \in 1 .. MaxId + 1 /\ MaxId \in Nat
    BY CanvasAssumption DEF CanvasTyped
  <2> QED
    BY <2>1 DEF Ids
<1>2. Chart \in Block /\ TextRight(Chart)
  BY CanvasAssumption DEF Chart, Block, TextRight
<1>3. \A t \in Texts : Text(t) \in Block /\ TextRight(Text(t))
  BY DEF Text, Block, TextRight
<1>4. ASSUME NEW b \in Block, TextRight(b) PROVE [op |-> "add", block |-> b] \in Asked
  BY <1>4 DEF Asked, Action
<1>5. \A a \in [op : {"update", "remove"}, id : 1 .. fresh - 1] : a \in Asked
  BY <1>1 DEF Asked, Action
<1>6. [op |-> "clear"] \in Asked
  BY DEF Asked, Action
<1> QED
  BY <1>2, <1>3, <1>4, <1>5, <1>6 DEF Requests

LEMMA Viewed == ASSUME CanvasTyped PROVE View \in Seq(Listed)
BY DEF CanvasTyped, View

LEMMA RecordedIs ==
    ASSUME NEW a \in Asked, ledger \in Ledger, NEW seen, seen \in Seq(Listed) \cup {NoBlocks}
    PROVE  /\ Recorded(a, seen) \in Ledger
           /\ ledger.texts \subseteq Recorded(a, seen).texts
           /\ ledger.removed \subseteq Recorded(a, seen).removed
           /\ a.op = "add" /\ a.block.kind = "text" => a.block.body \in Recorded(a, seen).texts
           /\ a.op = "remove" => a.id \in Recorded(a, seen).removed
<1>1. /\ ledger = [texts |-> ledger.texts, charts |-> ledger.charts, removed |-> ledger.removed]
      /\ ledger.texts \in SUBSET Texts /\ ledger.charts \in BOOLEAN /\ ledger.removed \in SUBSET Ids
  BY DEF Ledger
<1>2. CASE a.op = "add" /\ a.block.kind = "text"
  <2>1. a.block.body \in Texts
    BY <1>2, Kinds DEF TextRight
  <2>2. Recorded(a, seen) = [texts |-> ledger.texts \cup {a.block.body}, charts |-> ledger.charts,
                             removed |-> ledger.removed]
    BY <1>1, <1>2 DEF Recorded
  <2> QED
    BY <1>1, <1>2, <2>1, <2>2 DEF Ledger
<1>3. CASE a.op = "add" /\ a.block.kind = "chart"
  <2>2. Recorded(a, seen) = [texts |-> ledger.texts, charts |-> TRUE, removed |-> ledger.removed]
    BY <1>1, <1>3 DEF Recorded
  <2> QED
    BY <1>1, <1>3, <2>2 DEF Ledger
<1>4. CASE a.op = "remove"
  <2>1. a.id \in Ids
    BY <1>4, Kinds
  <2>2. Recorded(a, seen) = [texts |-> ledger.texts, charts |-> ledger.charts,
                             removed |-> ledger.removed \cup {a.id}]
    BY <1>1, <1>4 DEF Recorded
  <2> QED
    BY <1>1, <1>4, <2>1, <2>2 DEF Ledger
<1>5. CASE a.op = "clear" /\ seen # NoBlocks
  <2> DEFINE ids == {seen[i].id : i \in DOMAIN seen}
  <2>1. ids \in SUBSET Ids
    <3>1. seen \in Seq(Listed)
      BY <1>5
    <3>2. DOMAIN seen = 1 .. Len(seen) /\ \A i \in 1 .. Len(seen) : seen[i] \in Listed
      BY <3>1, Lengths
    <3> QED
      BY <3>2 DEF Listed, Block
  <2>2. Recorded(a, seen) = [texts |-> ledger.texts, charts |-> ledger.charts,
                             removed |-> ledger.removed \cup ids]
    BY <1>1, <1>5 DEF Recorded
  <2> HIDE DEF ids
  <2> QED
    BY <1>1, <1>5, <2>1, <2>2 DEF Ledger
<1>6. CASE a.op = "update" \/ (a.op = "clear" /\ seen = NoBlocks)
  <2>1. Recorded(a, seen) = ledger
    BY <1>6 DEF Recorded
  <2> QED
    BY <1>6, <2>1
<1>7. a.op = "add" => a.block.kind \in {"chart", "text"}
  BY Kinds, BlockFields
<1> QED
  BY <1>2, <1>3, <1>4, <1>5, <1>6, <1>7, Kinds

\* The event the page applies, with its id.
Delivered == IF Head(stream).op = "add" /\ Head(stream).block.id = 0
             THEN Numbered(Head(stream)) ELSE Head(stream)

LEMMA DeliverIs ==
    ASSUME CanvasTyped, Deliver
    PROVE  /\ Len(stream) \in Nat \ {0} /\ Head(stream) = stream[1]
           /\ stream' = Tail(stream) /\ stream' \in Seq(Asked) /\ Len(stream') = Len(stream) - 1
           /\ \A i \in 1 .. Len(stream') : stream'[i] = stream[i + 1]
           /\ DOMAIN stream = 1 .. Len(stream) /\ DOMAIN stream' = 1 .. Len(stream')
           /\ Delivered \in Asked /\ Delivered.op = stream[1].op
           /\ Delivered.op = "add" =>
                /\ Delivered.block \in Listed /\ Delivered.block.body = stream[1].block.body
                /\ Delivered.block.kind = stream[1].block.kind
           /\ persist => Delivered = stream[1]
           /\ screen' = Shown(screen, Delivered) /\ fresh' \in 1 .. MaxId + 1
           /\ UNCHANGED <<persist, row, tx, sent, saving, ledger, call, turn, busy, log, touched,
                          severed>>
<1>1. stream \in Seq(Asked) /\ stream # <<>> /\ screen \in Seq(Listed)
  BY DEF CanvasTyped, Deliver
<1>2. /\ Len(stream) \in Nat \ {0} /\ Head(stream) = stream[1] /\ stream' = Tail(stream)
      /\ stream' \in Seq(Asked) /\ Len(stream') = Len(stream) - 1
      /\ \A i \in 1 .. Len(stream') : stream'[i] = stream[i + 1]
  BY <1>1, EmptySeq, HeadTailProperties DEF Deliver
<1>3. DOMAIN stream = 1 .. Len(stream) /\ DOMAIN stream' = 1 .. Len(stream') /\ stream[1] \in Asked
  BY <1>1, <1>2, Lengths
<1>4. fresh \in 1 .. MaxId + 1 /\ MaxId \in Nat
  BY CanvasAssumption DEF CanvasTyped
<1>5. CASE stream[1].op = "add" /\ stream[1].block.id = 0
  <2>1. fresh <= MaxId /\ fresh' = fresh + 1 /\ Delivered = Numbered(stream[1])
        /\ screen' = Shown(screen, Delivered)
    BY <1>2, <1>5 DEF Deliver, Delivered
  <2>2. fresh \in Ids
    BY <1>4, <2>1 DEF Ids
  <2>3. persist => FALSE
    <3>1. 1 \in DOMAIN stream
      BY <1>2, <1>3
    <3>2. persist => Named(stream)
      BY Zenon DEF CanvasTyped
    <3> QED
      BY <1>5, <3>1, <3>2 DEF Named
  <2> QED
    BY <1>2, <1>3, <1>4, <1>5, <2>1, <2>2, <2>3, NumberedIsListed DEF Deliver
<1>6. CASE ~(stream[1].op = "add" /\ stream[1].block.id = 0)
  <2>1. fresh' = fresh /\ Delivered = stream[1] /\ screen' = Shown(screen, Delivered)
    BY <1>2, <1>6 DEF Deliver, Delivered
  <2>2. stream[1].op = "add" => stream[1].block \in Listed
    BY <1>3, <1>6, Kinds DEF Listed
  <2> QED
    BY <1>2, <1>3, <1>4, <2>1, <2>2 DEF Deliver
<1> QED
  BY <1>5, <1>6

\* A slot takes another call, or is free again.
LEMMA CallsAre ==
    ASSUME CanvasTyped, NEW c \in Slots, NEW x \in ToolCalls, call' = [call EXCEPT ![c] = x]
    PROVE  /\ call' \in [Slots -> ToolCalls] /\ call'[c] = x
           /\ \A d \in Slots : d # c => call'[d] = call[d]
BY DEF CanvasTyped

\* What a tool returns.
LEMMA ReturnIs ==
    ASSUME CanvasTyped, NEW c \in Slots, NEW a \in Asked, Return(c, a)
    PROVE  /\ call' \in [Slots -> ToolCalls] /\ call'[c] = Free
           /\ \A d \in Slots : d # c => call'[d] = call[d]
           /\ log' = Append(log, a) /\ log' \in Seq(Asked) /\ Len(log') = Len(log) + 1
           /\ stream' = Append(stream, a) /\ stream' \in Seq(Asked) /\ Len(stream') = Len(stream) + 1
           /\ \A i \in 1 .. Len(log) : log'[i] = log[i]
           /\ \A i \in 1 .. Len(stream) : stream'[i] = stream[i]
           /\ log'[Len(log) + 1] = a /\ stream'[Len(stream) + 1] = a
           /\ Len(log) \in Nat /\ Len(stream) \in Nat
           /\ DOMAIN log = 1 .. Len(log) /\ DOMAIN stream = 1 .. Len(stream)
           /\ DOMAIN log' = 1 .. Len(log) + 1 /\ DOMAIN stream' = 1 .. Len(stream) + 1
<1>1. log \in Seq(Asked) /\ stream \in Seq(Asked) /\ call \in [Slots -> ToolCalls]
  BY DEF CanvasTyped
<1>2. call' = [call EXCEPT ![c] = Free] /\ log' = Append(log, a) /\ stream' = Append(stream, a)
  BY DEF Return
<1>3. Free \in ToolCalls
  BY DEF ToolCalls
<1>4. /\ call' \in [Slots -> ToolCalls] /\ call'[c] = Free
      /\ \A d \in Slots : d # c => call'[d] = call[d]
  BY <1>2, <1>3, CallsAre
<1>5. /\ log' \in Seq(Asked) /\ Len(log') = Len(log) + 1 /\ \A i \in 1 .. Len(log) : log'[i] = log[i]
      /\ log'[Len(log) + 1] = a
  BY <1>1, <1>2, Appended
<1>6. /\ stream' \in Seq(Asked) /\ Len(stream') = Len(stream) + 1
      /\ \A i \in 1 .. Len(stream) : stream'[i] = stream[i] /\ stream'[Len(stream) + 1] = a
  BY <1>1, <1>2, Appended
<1>7. Len(log) \in Nat /\ Len(stream) \in Nat
      /\ DOMAIN log = 1 .. Len(log) /\ DOMAIN stream = 1 .. Len(stream)
      /\ DOMAIN log' = 1 .. Len(log') /\ DOMAIN stream' = 1 .. Len(stream')
  BY <1>1, <1>5, <1>6, Lengths
<1>8. stream'[Len(stream) + 1] = a
  BY <1>1, <1>2, Appended
<1> QED
  BY <1>2, <1>4, <1>5, <1>6, <1>7, <1>8

\* The call a worker writes, and what it writes.
LEMMA WriteIs ==
    ASSUME CanvasTyped, NEW c \in Slots, Write(c)
    PROVE  LET a == Numbered(call[c].act)
           IN  /\ a \in Asked /\ call[c].act \in Asked /\ a.op = call[c].act.op
               /\ a.op = "add" => /\ a.block \in Listed /\ a.block.body = call[c].act.block.body
                                  /\ a.block.kind = call[c].act.block.kind /\ a.block.id # 0
               /\ a.op = "remove" => a.id = call[c].act.id
               /\ call[c].base \in Seq(Listed) /\ Return(c, a) /\ fresh' \in 1 .. MaxId + 1
               /\ tx' = IF Writable(call[c].base, a) THEN Written(call[c].base, a) ELSE tx
               /\ UNCHANGED <<persist, row, ledger, turn, busy, pageVars>>
               /\ call[c].at = "write"
<1> DEFINE act == call[c].act
           a == Numbered(act)
<1>1. call[c].at = "write" /\ Return(c, a) /\ UNCHANGED <<persist, row, ledger, turn, busy, pageVars>>
      /\ tx' = (IF Writable(call[c].base, a) THEN Written(call[c].base, a) ELSE tx)
      /\ (a.op = "add" => fresh <= MaxId)
      /\ fresh' = (IF a.op = "add" THEN fresh + 1 ELSE fresh)
  BY DEF Write
<1>2. act \in Asked /\ call[c].base \in Seq(Listed)
  BY <1>1, Calls
<1>3. fresh \in 1 .. MaxId + 1 /\ MaxId \in Nat
  BY CanvasAssumption DEF CanvasTyped
<1>4. fresh' \in 1 .. MaxId + 1
  BY <1>1, <1>3
<1>5. CASE act.op = "add"
  <2>1. a.op = "add"
    <3>1. a = [act EXCEPT !.block.id = fresh] /\ act = [op |-> "add", block |-> act.block]
      BY <1>2, <1>5, Kinds DEF Numbered
    <3> QED
      BY <1>5, <3>1
  <2>2. fresh \in Ids /\ fresh # 0
    BY <1>1, <1>3, <2>1 DEF Ids
  <2>3. /\ a \in Asked /\ a.op = act.op /\ a.block \in Listed /\ a.block.body = act.block.body
        /\ a.block.kind = act.block.kind /\ a.block.id = fresh
    BY <1>2, <1>5, <2>2, NumberedIsListed
  <2> HIDE DEF a, act
  <2>4. a.op # "remove"
    BY <2>1
  <2> QED
    BY <1>1, <1>2, <1>4, <2>2, <2>3, <2>4 DEF a, act
<1>6. CASE act.op # "add"
  <2>1. a = act
    BY <1>6 DEF Numbered
  <2> QED
    BY <1>1, <1>2, <1>4, <1>6, <2>1
<1> QED
  BY <1>5, <1>6

LEMMA LoadKeepsTypes == ASSUME CanvasTyped, NEW c \in Slots, Load(c) PROVE CanvasTyped'
<1> DEFINE a == call[c].act
<1>1. call[c].at = "load" /\ UNCHANGED <<persist, row, tx, turn, busy, fresh, pageVars>>
  BY DEF Load
<1>2. a \in Asked /\ call[c] = [at |-> "load", act |-> a]
  BY <1>1, Calls
<1>3. PICK seen \in {View, NoBlocks} :
         IF Blocked(a, seen)
         THEN call' = [call EXCEPT ![c] = Free] /\ UNCHANGED <<ledger, log, stream>>
         ELSE /\ ledger' = Recorded(a, seen)
              /\ IF persist
                 THEN call' = [call EXCEPT ![c].at = "read"] /\ UNCHANGED <<log, stream>>
                 ELSE Return(c, a)
  BY DEF Load
<1>4. seen \in Seq(Listed) \cup {NoBlocks}
  BY <1>3, Viewed
<1>5. ledger \in Ledger /\ Recorded(a, seen) \in Ledger
  BY <1>2, <1>4, RecordedIs DEF CanvasTyped
<1>6. Free \in ToolCalls /\ [at |-> "read", act |-> a] \in ToolCalls
  BY <1>2 DEF ToolCalls
<1> HIDE DEF a
<1>7. CASE Blocked(a, seen)
  <2>1. call' = [call EXCEPT ![c] = Free] /\ UNCHANGED <<ledger, log, stream>>
    BY <1>3, <1>7
  <2>2. call' \in [Slots -> ToolCalls]
    BY <1>6, <2>1, CallsAre
  <2> QED
    BY <1>1, <2>1, <2>2 DEF CanvasTyped, pageVars, Named
<1>8. CASE ~Blocked(a, seen) /\ persist
  <2>1. ledger' = Recorded(a, seen) /\ call' = [call EXCEPT ![c].at = "read"] /\ UNCHANGED <<log, stream>>
    BY <1>3, <1>8
  <2>2. call' = [call EXCEPT ![c] = [at |-> "read", act |-> a]]
    <3>1. [call[c] EXCEPT !.at = "read"] = [at |-> "read", act |-> a]
      BY <1>2
    <3>2. call' = [call EXCEPT ![c] = [call[c] EXCEPT !.at = "read"]]
      BY <2>1
    <3> QED
      BY <3>1, <3>2
  <2>3. call' \in [Slots -> ToolCalls]
    BY <1>6, <2>2, CallsAre
  <2> QED
    BY <1>1, <1>5, <2>1, <2>3 DEF CanvasTyped, pageVars, Named
<1>9. CASE ~Blocked(a, seen) /\ ~persist
  <2>1. ledger' = Recorded(a, seen) /\ Return(c, a)
    BY <1>3, <1>9
  <2>2. call' \in [Slots -> ToolCalls] /\ log' \in Seq(Asked) /\ stream' \in Seq(Asked)
    BY <1>2, <2>1, ReturnIs
  <2> QED
    BY <1>1, <1>5, <1>9, <2>1, <2>2 DEF CanvasTyped, pageVars
<1> QED
  BY <1>7, <1>8, <1>9

LEMMA TypesKept == ASSUME CanvasTyped, [CanvasNext]_canvasVars PROVE CanvasTyped'
<1>0. Free \in ToolCalls /\ Len(<<>>) = 0 /\ <<>> \in Seq(Asked) /\ <<>> \in Seq(Listed) /\ Named(<<>>)
  BY EmptySeq DEF ToolCalls, Named
<1>1. ASSUME NEW c \in Slots, BeginCall(c) PROVE CanvasTyped'
  <2>1. PICK a \in Requests : call' = [call EXCEPT ![c] = [at |-> "load", act |-> a]]
    BY <1>1 DEF BeginCall
  <2>2. [at |-> "load", act |-> a] \in ToolCalls
    BY <2>1, Requested DEF ToolCalls
  <2>3. call' \in [Slots -> ToolCalls]
    BY <2>1, <2>2, CallsAre
  <2>4. UNCHANGED <<persist, row, tx, stream, ledger, turn, busy, log, fresh, pageVars>>
    BY <1>1 DEF BeginCall
  <2> QED
    BY <2>3, <2>4 DEF CanvasTyped, pageVars, Named
<1>2. ASSUME NEW c \in Slots, Load(c) PROVE CanvasTyped'
  BY <1>2, LoadKeepsTypes
<1>3. ASSUME NEW c \in Slots, Read(c) PROVE CanvasTyped'
  <2> DEFINE x == [at |-> "write", act |-> call[c].act, base |-> View]
  <2>1. call[c].at = "read" /\ call' = [call EXCEPT ![c] = x]
        /\ UNCHANGED <<persist, row, tx, stream, ledger, turn, busy, log, fresh, pageVars>>
    BY <1>3 DEF Read
  <2>2. x \in ToolCalls
    BY <2>1, Calls, Viewed DEF ToolCalls
  <2> HIDE DEF x
  <2>3. call' \in [Slots -> ToolCalls]
    BY <2>1, <2>2, CallsAre
  <2> QED
    BY <2>1, <2>3 DEF CanvasTyped, pageVars, Named
<1>4. ASSUME NEW c \in Slots, Write(c) PROVE CanvasTyped'
  <2> DEFINE a == Numbered(call[c].act)
  <2>1. /\ a \in Asked /\ (a.op = "add" => a.block \in Listed /\ a.block.id # 0)
        /\ call[c].base \in Seq(Listed) /\ Return(c, a) /\ fresh' \in 1 .. MaxId + 1
        /\ tx' = IF Writable(call[c].base, a) THEN Written(call[c].base, a) ELSE tx
        /\ UNCHANGED <<persist, row, ledger, turn, busy, pageVars>>
    BY <1>4, WriteIs
  <2> HIDE DEF a
  <2>2. tx' \in Seq(Listed) \cup {NoBlocks}
    <3>1. Written(call[c].base, a) \in Seq(Listed)
      BY <2>1, WrittenIs
    <3> QED
      BY <2>1, <3>1 DEF CanvasTyped
  <2>3. call' \in [Slots -> ToolCalls] /\ log' \in Seq(Asked) /\ stream' \in Seq(Asked)
    BY <2>1, ReturnIs
  <2>4. Named(stream) => Named(stream')
    <3>1. \A i \in DOMAIN stream' : stream'[i] = a \/ (i \in DOMAIN stream /\ stream'[i] = stream[i])
      BY <2>1, ReturnIs
    <3> QED
      BY <2>1, <3>1 DEF Named
  <2> QED
    BY <2>1, <2>2, <2>3, <2>4 DEF CanvasTyped, pageVars, Named
<1>5. CASE Commit
  <2>1. row' = View /\ tx' = NoBlocks /\ busy' = FALSE
        /\ UNCHANGED <<persist, stream, ledger, call, turn, log, fresh, pageVars>>
    BY <1>5 DEF Commit, Committed
  <2> QED
    BY <2>1, Viewed DEF CanvasTyped, pageVars, Named
<1>6. CASE Crash
  <2>1. [c \in Slots |-> Free] \in [Slots -> ToolCalls]
    BY <1>0
  <2> QED
    BY <1>6, <2>1 DEF Crash, CanvasTyped, pageVars, Named
<1>7. CASE SendTurn
  <2>1. (row' = screen /\ UNCHANGED severed) \/ (severed' = TRUE /\ UNCHANGED row)
    BY <1>7 DEF SendTurn, SendAfter, Flush
  <2>2. ledger' = NewLedger /\ NewLedger \in Ledger
    BY <1>7 DEF SendTurn, SendAfter, NewLedger, Ledger
  <2>3. turn' \in 0 .. MaxTurns
    <3>1. turn < MaxTurns /\ turn' = turn + 1 /\ turn \in 0 .. MaxTurns
      BY <1>7 DEF SendTurn, SendAfter, CanvasTyped
    <3>2. MaxTurns \in Nat
      BY CanvasAssumption
    <3> QED
      BY <3>1, <3>2
  <2>4. /\ busy' = TRUE /\ sent' = screen /\ log' = <<>> /\ touched' = FALSE
        /\ UNCHANGED <<persist, tx, screen, stream, saving, call, fresh>>
    BY <1>7 DEF SendTurn, SendAfter
  <2> QED
    BY <1>0, <2>1, <2>2, <2>3, <2>4 DEF CanvasTyped, Named
<1>8. CASE Deliver
  <2>1. stream' \in Seq(Asked) /\ screen' = Shown(screen, Delivered) /\ fresh' \in 1 .. MaxId + 1
        /\ UNCHANGED <<persist, row, tx, sent, saving, ledger, call, turn, busy, log, touched, severed>>
        /\ Delivered \in Asked /\ (Delivered.op = "add" => Delivered.block \in Listed)
    BY <1>8, DeliverIs
  <2>2. screen' \in Seq(Listed)
    BY <2>1, ShownIs DEF CanvasTyped
  <2>3. Named(stream) => Named(stream')
    <3>1. \A i \in DOMAIN stream' : i + 1 \in DOMAIN stream /\ stream'[i] = stream[i + 1]
      BY <1>8, DeliverIs
    <3> QED
      BY <3>1 DEF Named
  <2> QED
    BY <2>1, <2>2, <2>3 DEF CanvasTyped, Named
<1>9. CASE Delete
  <2>1. PICK i \in DOMAIN screen : screen' = RemoveAt(screen, i)
    BY <1>9 DEF Delete
  <2>2. screen' \in Seq(Listed)
    BY <2>1, OnceRemoved DEF CanvasTyped
  <2> QED
    BY <1>9, <2>2 DEF Delete, CanvasTyped, Named
<1>10. CASE Save
  BY <1>10 DEF Save, CanvasTyped, Named
<1>11. CASE Land
  BY <1>11 DEF Land, CanvasTyped, Named
<1>12. CASE Reload
  <2>1. severed' \in BOOLEAN
    BY <1>12 DEF Reload
  <2> QED
    BY <1>0, <1>12, <2>1 DEF Reload, CanvasTyped
<1>13. CASE UNCHANGED canvasVars
  BY <1>13 DEF canvasVars, CanvasTyped, Named
<1> QED
  BY <1>1, <1>2, <1>3, <1>4, <1>5, <1>6, <1>7, <1>8, <1>9, <1>10, <1>11, <1>12, <1>13 DEF CanvasNext

LEMMA TypedInitially == CanvasInit => CanvasTyped
<1> SUFFICES ASSUME CanvasInit PROVE CanvasTyped
  OBVIOUS
<1>1. <<>> \in Seq(Listed) /\ <<>> \in Seq(Asked) /\ Named(<<>>)
  BY EmptySeq DEF Named
<1>2. MaxId \in Nat \ {0} /\ MaxTurns \in Nat
  BY CanvasAssumption
<1>3. Free \in ToolCalls /\ NewLedger \in Ledger
  BY DEF ToolCalls, NewLedger, Ledger
<1>4. turn \in 0 .. MaxTurns /\ fresh \in 1 .. MaxId + 1
  BY <1>2 DEF CanvasInit
<1>5. call \in [Slots -> ToolCalls]
  BY <1>3 DEF CanvasInit
<1> QED
  BY <1>1, <1>3, <1>4, <1>5 DEF CanvasInit, CanvasTyped

\* The blocks, the events and the calls are what they should be, of calls made
\* in any number at once.
THEOREM BlocksTypeCorrect == CanvasSpec => []CanvasTypeOK
<1>1. CanvasSpec => []CanvasTyped
  BY TypedInitially, TypesKept, PTL DEF CanvasSpec
<1> QED
  BY <1>1, TypedIsTyped, PTL

-----------------------------------------------------------------------------
(***************************************************************************)
(* The inductive invariant of the blocks, where one call is made at a      *)
(* time.                                                                   *)
(***************************************************************************)
OneCall == \A c, d \in Slots : c = d

\* Only a turn that persists writes, and only while it runs.
WritesInTurn ==
    /\ tx # NoBlocks => busy /\ persist
    /\ \A c \in Slots : /\ call[c].at # "free" => busy
                        /\ call[c].at \in {"read", "write"} => persist
                        /\ call[c].at = "write" /\ tx # NoBlocks => call[c].base = tx

AddsText(a) == a.op = "add" /\ a.block.kind = "text"
Ledgered(a) == /\ AddsText(a) => a.block.body \in ledger.texts
               /\ a.op = "remove" => a.id \in ledger.removed
Repeats(a, b) ==
    \/ AddsText(a) /\ AddsText(b) /\ a.block.body = b.block.body
    \/ a.op = "remove" /\ b.op = "remove" /\ a.id = b.id
Unrepeated(a) ==
    /\ \A i \in DOMAIN log : ~Repeats(log[i], a)
    /\ AddsText(a) => \A i \in DOMAIN stream : ~Repeats(stream[i], a)

\* The ledger holds what was returned, and nothing was returned twice.
Chronicle ==
    /\ \A i \in DOMAIN log : Ledgered(log[i])
    /\ \A i, j \in DOMAIN log : i < j => ~Repeats(log[i], log[j])
    /\ \A i \in DOMAIN stream : AddsText(stream[i]) => stream[i].block.body \in ledger.texts
    /\ \A i, j \in DOMAIN stream : i < j /\ AddsText(stream[i]) => ~Repeats(stream[i], stream[j])
\* A call is not in the ledger until it was loaded, and is from then on.
Noted ==
    \A c \in Slots :
        /\ call[c].at = "load" => Untold(call[c].act)
        /\ call[c].at \in {"read", "write"} => Ledgered(call[c].act) /\ Unrepeated(call[c].act)

\* A text the page shows is added again only behind a clear.
Clears(s) == \E i \in DOMAIN s : s[i].op = "clear"
Renews ==
    \A i \in DOMAIN stream : AddsText(stream[i]) /\ Has(screen, stream[i].block.body)
        => \E j \in DOMAIN stream : j < i /\ stream[j].op = "clear"
OnceEach ==
    /\ Once(screen) /\ Once(row) /\ Renews
    /\ tx # NoBlocks => Once(tx)
    /\ saving # NoBlocks => Once(saving)
    /\ \A c \in Slots : call[c].at = "write" => Once(call[c].base)

\* A save that may still land before the turn holds the row.
Lands == tx = NoBlocks /\ saving # NoBlocks
\* What the page shows and the turn did not add, the tools see.
Covers ==
    busy =>
      /\ \A t \in Texts \ ledger.texts : Has(screen, t) /\ ~Clears(stream) =>
           /\ Has(View, t)
           /\ Lands => Has(saving, t)
           /\ \A c \in Slots : call[c].at = "write" => Has(call[c].base, t)
      /\ persist /\ tx = NoBlocks =>
           /\ ~Clears(stream)
           /\ saving # NoBlocks => \A t \in Texts \ ledger.texts : Has(saving, t) => Has(row, t)
\* A text about to be written is nowhere yet.
New(c, t) ==
    /\ Has(screen, t) => Clears(stream)
    /\ call[c].at = "write" => ~Has(call[c].base, t)
    /\ call[c].at = "read" => ~Has(View, t) /\ (Lands => ~Has(saving, t))
AddsNew ==
    \A c \in Slots : call[c].at \in {"read", "write"} /\ AddsText(call[c].act)
        => New(c, call[c].act.block.body)

\* The turn's list is what the events make of the page's, by their places:
\* after the last clear there are only adds.
Base(k) == IF k = 0 THEN screen ELSE <<>>
AgreesFrom(k) ==
    /\ k > 0 => stream[k].op = "clear"
    /\ \A i \in k + 1 .. Len(stream) : stream[i].op = "add"
    /\ Len(tx) = Len(Base(k)) + Len(stream) - k
    /\ \A i \in 1 .. Len(Base(k)) : tx[i] = Base(k)[i]
    /\ \A i \in k + 1 .. Len(stream) : tx[Len(Base(k)) + i - k] = stream[i].block
Agrees == \E k \in 0 .. Len(stream) : AgreesFrom(k)
Follows ==
    busy /\ persist /\ ~touched /\ ~severed /\ OnlyGrows =>
      /\ tx # NoBlocks => Agrees
      /\ tx = NoBlocks =>
           /\ log = <<>> /\ stream = <<>> /\ row = screen /\ saving \in {NoBlocks, screen}
           /\ \A c \in Slots : call[c].at = "write" => call[c].base = screen

CanvasInv ==
    /\ CanvasTyped /\ WritesInTurn /\ Chronicle /\ Noted /\ Follows
    /\ ~severed => OnceEach /\ Covers /\ AddsNew

-----------------------------------------------------------------------------
(***************************************************************************)
(* A tool returns.                                                         *)
(***************************************************************************)
LEMMA ReturnTells ==
    ASSUME CanvasTyped, Chronicle, NEW c \in Slots, NEW a \in Asked, Return(c, a), Unrepeated(a),
           ledger.texts \subseteq ledger'.texts, ledger.removed \subseteq ledger'.removed,
           AddsText(a) => a.block.body \in ledger'.texts, a.op = "remove" => a.id \in ledger'.removed
    PROVE  Chronicle'
<1>1. /\ \A i \in 1 .. Len(log) : log'[i] = log[i]
      /\ \A i \in 1 .. Len(stream) : stream'[i] = stream[i]
      /\ log'[Len(log) + 1] = a /\ stream'[Len(stream) + 1] = a
      /\ Len(log) \in Nat /\ Len(stream) \in Nat
      /\ DOMAIN log = 1 .. Len(log) /\ DOMAIN stream = 1 .. Len(stream)
      /\ DOMAIN log' = 1 .. Len(log) + 1 /\ DOMAIN stream' = 1 .. Len(stream) + 1
  BY ReturnIs
<1>2. \A i \in DOMAIN log' : (i \in DOMAIN log /\ log'[i] = log[i]) \/ (i = Len(log) + 1 /\ log'[i] = a)
  BY <1>1
<1>3. \A i \in DOMAIN stream' : \/ i \in DOMAIN stream /\ stream'[i] = stream[i]
                                \/ i = Len(stream) + 1 /\ stream'[i] = a
  BY <1>1
<1>4. \A i \in DOMAIN log' : /\ AddsText(log'[i]) => log'[i].block.body \in ledger'.texts
                             /\ log'[i].op = "remove" => log'[i].id \in ledger'.removed
  BY <1>2 DEF Chronicle, Ledgered
<1>5. \A i, j \in DOMAIN log' : i < j => ~Repeats(log'[i], log'[j])
  <2> SUFFICES ASSUME NEW i \in DOMAIN log', NEW j \in DOMAIN log', i < j
               PROVE  ~Repeats(log'[i], log'[j])
    OBVIOUS
  <2>1. i \in DOMAIN log /\ log'[i] = log[i]
    BY <1>1
  <2>2. CASE j \in DOMAIN log /\ log'[j] = log[j]
    BY <2>1, <2>2 DEF Chronicle
  <2>3. CASE log'[j] = a
    BY <2>1, <2>3 DEF Unrepeated
  <2> QED
    BY <1>2, <2>2, <2>3
<1>6. \A i \in DOMAIN stream' : AddsText(stream'[i]) => stream'[i].block.body \in ledger'.texts
  BY <1>3 DEF Chronicle
<1>7. \A i, j \in DOMAIN stream' : i < j /\ AddsText(stream'[i]) => ~Repeats(stream'[i], stream'[j])
  <2> SUFFICES ASSUME NEW i \in DOMAIN stream', NEW j \in DOMAIN stream', i < j, AddsText(stream'[i])
               PROVE  ~Repeats(stream'[i], stream'[j])
    OBVIOUS
  <2>1. i \in DOMAIN stream /\ stream'[i] = stream[i]
    BY <1>1
  <2>2. CASE j \in DOMAIN stream /\ stream'[j] = stream[j]
    BY <2>1, <2>2 DEF Chronicle
  <2>3. CASE stream'[j] = a
    BY <2>1, <2>3 DEF Unrepeated, Repeats, AddsText
  <2> QED
    BY <1>3, <2>2, <2>3
<1> QED
  BY <1>4, <1>5, <1>6, <1>7 DEF Chronicle, Ledgered, Repeats, AddsText

LEMMA ReturnRenews ==
    ASSUME CanvasTyped, Renews, NEW c \in Slots, NEW a \in Asked, Return(c, a), screen' = screen,
           AddsText(a) /\ Has(screen, a.block.body) => Clears(stream)
    PROVE  Renews' /\ (Clears(stream') <=> Clears(stream) \/ a.op = "clear")
<1>1. /\ \A i \in 1 .. Len(stream) : stream'[i] = stream[i]
      /\ stream'[Len(stream) + 1] = a /\ Len(stream) \in Nat
      /\ DOMAIN stream = 1 .. Len(stream) /\ DOMAIN stream' = 1 .. Len(stream) + 1
  BY ReturnIs
<1>2. \A i \in DOMAIN stream : i \in DOMAIN stream' /\ stream'[i] = stream[i] /\ i < Len(stream) + 1
  BY <1>1
<1>3. \A i \in DOMAIN stream' : i \in DOMAIN stream \/ i = Len(stream) + 1
  BY <1>1
<1>4. ASSUME NEW i \in DOMAIN stream', AddsText(stream'[i]), Has(screen, stream'[i].block.body)
      PROVE  \E j \in DOMAIN stream' : j < i /\ stream'[j].op = "clear"
  <2>1. CASE i \in DOMAIN stream
    <3>1. PICK j \in DOMAIN stream : j < i /\ stream[j].op = "clear"
      BY <1>2, <1>4, <2>1 DEF Renews
    <3> QED
      BY <1>2, <3>1
  <2>2. CASE i = Len(stream) + 1
    <3>1. PICK j \in DOMAIN stream : stream[j].op = "clear"
      BY <1>1, <1>4, <2>2 DEF Clears
    <3> QED
      BY <1>2, <2>2, <3>1
  <2> QED
    BY <1>3, <2>1, <2>2
<1>5. Renews'
  BY <1>4 DEF Renews, AddsText, Has
<1>6. Clears(stream') <=> Clears(stream) \/ a.op = "clear"
  BY <1>1, <1>2, <1>3 DEF Clears
<1> QED
  BY <1>5, <1>6

\* Where one call is made, the other slots are this one.
LEMMA OnlyOne == ASSUME OneCall, NEW c \in Slots PROVE \A d \in Slots : d = c
BY DEF OneCall

LEMMA FreeKeeps ==
    ASSUME \A c \in Slots : call'[c].at = "free", tx' = NoBlocks \/ (busy' /\ persist')
    PROVE  WritesInTurn' /\ Noted' /\ AddsNew'
BY DEF WritesInTurn, Noted, AddsNew

LEMMA CallFrees ==
    ASSUME OneCall, CanvasTyped, NEW c \in Slots, call' = [call EXCEPT ![c] = Free]
    PROVE  \A d \in Slots : call'[d].at = "free"
<1>1. \A d \in Slots : call'[d] = Free
  BY OnlyOne DEF CanvasTyped
<1> QED
  BY <1>1 DEF Free

\* A page that only saw the ledger grow, or events come.
LEMMA CoversGrow ==
    ASSUME Covers, UNCHANGED <<busy, persist, row, tx, screen, saving>>, ledger.texts \subseteq ledger'.texts,
           Clears(stream) => Clears(stream'), persist => (Clears(stream') => Clears(stream)),
           \A d \in Slots : call'[d].at = "write" => call[d].at = "write" /\ call'[d] = call[d]
    PROVE  Covers'
<1>1. View' = View /\ (Lands' <=> Lands)
  BY DEF View, Lands
<1>2. \A s, t : Has(s, t)' = Has(s, t)
  BY DEF Has
<1> SUFFICES ASSUME busy' PROVE
      /\ \A t \in Texts \ ledger'.texts : Has(screen, t) /\ ~Clears(stream') =>
           /\ Has(View, t)
           /\ Lands => Has(saving, t)
           /\ \A d \in Slots : call'[d].at = "write" => Has(call'[d].base, t)
      /\ persist /\ tx = NoBlocks =>
           /\ ~Clears(stream')
           /\ saving # NoBlocks => \A t \in Texts \ ledger'.texts : Has(saving, t) => Has(row, t)
  BY <1>1 DEF Covers, Has, Clears
<1> QED
  BY DEF Covers

LEMMA Unspoken == ASSUME Chronicle, UNCHANGED <<log, stream, ledger>> PROVE Chronicle'
BY DEF Chronicle, Ledgered

LEMMA OnceStays ==
    ASSUME OnceEach, UNCHANGED <<screen, row, tx, saving, stream>>,
           \A d \in Slots : call'[d].at = "write" => Once(call'[d].base)
    PROVE  OnceEach'
<1>1. Renews'
  BY DEF OnceEach, Renews, Has
<1> QED
  BY <1>1 DEF OnceEach, Once

LEMMA FollowsStays ==
    ASSUME Follows,
           UNCHANGED <<persist, row, tx, screen, saving, stream, busy, log, touched, severed>>,
           \A d \in Slots : call'[d].at = "write" =>
              call'[d].base = View \/ (call[d].at = "write" /\ call'[d].base = call[d].base)
    PROVE  Follows'
<1>1. (OnlyGrows' <=> OnlyGrows) /\ (Agrees' <=> Agrees)
  BY DEF OnlyGrows, Agrees, AgreesFrom, Base
<1> SUFFICES ASSUME busy, persist, ~touched, ~severed, OnlyGrows PROVE
      /\ tx # NoBlocks => Agrees
      /\ tx = NoBlocks =>
           /\ log = <<>> /\ stream = <<>> /\ row = screen /\ saving \in {NoBlocks, screen}
           /\ \A c \in Slots : call'[c].at = "write" => call'[c].base = screen
  BY <1>1 DEF Follows
<1> QED
  BY DEF Follows, View

LEMMA CallBegins ==
    ASSUME OneCall, CanvasInv, NEW c \in Slots, BeginCall(c)
    PROVE  CanvasInv'
<1>1. PICK a \in Requests : Untold(a) /\ call' = [call EXCEPT ![c] = [at |-> "load", act |-> a]]
  BY DEF BeginCall
<1>2. busy /\ UNCHANGED <<persist, row, tx, screen, sent, saving, stream, ledger, turn, busy, log,
                          fresh, touched, severed>>
  BY DEF BeginCall, pageVars
<1>3. \A d \in Slots : call'[d] = [at |-> "load", act |-> a]
  BY <1>1, OnlyOne DEF CanvasInv, CanvasTyped
<1>4. \A d \in Slots : call'[d].at = "load" /\ call'[d].act = a
  BY <1>3
<1>5. CanvasTyped'
  BY TypesKept DEF CanvasInv, CanvasNext
<1>6. WritesInTurn'
  BY <1>2, <1>4 DEF CanvasInv, WritesInTurn
<1>7. Chronicle'
  BY <1>2, Unspoken DEF CanvasInv
<1>8. Noted'
  BY <1>1, <1>2, <1>4 DEF Noted, Untold
<1>9. Follows'
  BY <1>2, <1>4, FollowsStays DEF CanvasInv
<1>10. ASSUME ~severed' PROVE OnceEach' /\ Covers' /\ AddsNew'
  <2>1. OnceEach /\ Covers
    BY <1>2, <1>10 DEF CanvasInv
  <2>2. OnceEach'
    BY <1>2, <1>4, <2>1, OnceStays
  <2>3. Covers'
    BY <1>2, <1>4, <2>1, CoversGrow
  <2>4. AddsNew'
    BY <1>4 DEF AddsNew
  <2> QED
    BY <2>2, <2>3, <2>4
<1> QED
  BY <1>5, <1>6, <1>7, <1>8, <1>9, <1>10 DEF CanvasInv

-----------------------------------------------------------------------------
(***************************************************************************)
(* A call loads.                                                           *)
(***************************************************************************)
\* What is known of a call that was not blocked.
LEMMA Passed ==
    ASSUME CanvasInv, NEW c \in Slots, call[c].at = "load", NEW a \in Asked, a = call[c].act,
           ~Blocked(a, View)
    PROVE  /\ busy /\ Unrepeated(a)
           /\ AddsText(a) => a.block.body \in Texts \ ledger.texts /\ ~Has(View, a.block.body)
           /\ ~severed /\ AddsText(a) =>
                /\ Has(screen, a.block.body) => Clears(stream)
                /\ persist /\ Lands => ~Has(saving, a.block.body)
<1>1. busy
  BY DEF CanvasInv, WritesInTurn
<1>2. View # NoBlocks
  BY Viewed, Outside DEF CanvasInv
<1>3. Untold(a)
  BY DEF CanvasInv, Noted
<1>4. AddsText(a) => a.block.body \in Texts \ ledger.texts /\ ~Has(View, a.block.body)
  <2>1. ASSUME AddsText(a) PROVE a.block.body \in Texts
    BY <2>1, Kinds DEF AddsText, TextRight
  <2>2. ASSUME AddsText(a) PROVE a.block.body \notin ledger.texts
    BY <1>3, <2>2 DEF Untold, AddsText
  <2>3. ASSUME AddsText(a) PROVE ~Has(View, a.block.body)
    BY <1>2, <2>3 DEF Blocked, BlockedBy, AddsText, Has
  <2> QED
    BY <2>1, <2>2, <2>3
<1>5. a.op = "remove" => a.id \notin ledger.removed
  BY <1>2 DEF Blocked, BlockedBy
<1>6. Unrepeated(a)
  <2>1. \A i \in DOMAIN log : ~Repeats(log[i], a)
    BY <1>4, <1>5 DEF CanvasInv, Chronicle, Ledgered, Repeats
  <2>2. AddsText(a) => \A i \in DOMAIN stream : ~Repeats(stream[i], a)
    BY <1>4 DEF CanvasInv, Chronicle, Repeats, AddsText
  <2> QED
    BY <2>1, <2>2 DEF Unrepeated
<1>7. ASSUME ~severed, AddsText(a)
      PROVE  /\ Has(screen, a.block.body) => Clears(stream)
             /\ persist /\ Lands => ~Has(saving, a.block.body)
  <2>1. Covers
    BY <1>7 DEF CanvasInv
  <2>2. Has(screen, a.block.body) => Clears(stream)
    BY <1>1, <1>4, <1>7, <2>1 DEF Covers
  <2>3. persist /\ Lands => ~Has(saving, a.block.body)
    <3>1. ASSUME persist, Lands, Has(saving, a.block.body) PROVE FALSE
      <4>1. Has(row, a.block.body)
        BY <1>1, <1>4, <1>7, <2>1, <3>1 DEF Covers, Lands
      <4>2. View = row
        BY <3>1 DEF View, Lands
      <4> QED
        BY <1>4, <1>7, <4>1, <4>2
    <3> QED
      BY <3>1
  <2> QED
    BY <2>2, <2>3
<1> QED
  BY <1>1, <1>4, <1>6, <1>7

LEMMA LoadKeeps ==
    ASSUME OneCall, CanvasInv, NEW c \in Slots, Load(c)
    PROVE  CanvasInv'
<1>1. /\ call[c].at = "load"
      /\ UNCHANGED <<persist, row, tx, turn, busy, fresh, screen, sent, saving, touched, severed>>
  BY DEF Load, pageVars
<1>2. PICK a \in Asked : a = call[c].act /\ call[c] = [at |-> "load", act |-> a]
  BY <1>1, Calls DEF CanvasInv
<1>3. IF Blocked(a, View)
      THEN call' = [call EXCEPT ![c] = Free] /\ UNCHANGED <<ledger, log, stream>>
      ELSE /\ ledger' = Recorded(a, View)
           /\ IF persist
              THEN call' = [call EXCEPT ![c].at = "read"] /\ UNCHANGED <<log, stream>>
              ELSE Return(c, a)
  <2>1. ~ \E d \in Slots \ {c} : call[d] # Free
    BY OnlyOne
  <2> QED
    BY <1>2, <2>1 DEF Load
<1>4. CanvasTyped /\ CanvasTyped' /\ WritesInTurn /\ Chronicle /\ Noted /\ Follows
  BY TypesKept DEF CanvasInv, CanvasNext
<1>5. ~severed' => ~severed /\ OnceEach /\ Covers /\ AddsNew
  BY <1>1 DEF CanvasInv
<1>6. CASE Blocked(a, View)
  <2>1. call' = [call EXCEPT ![c] = Free] /\ UNCHANGED <<ledger, log, stream>>
    BY <1>3, <1>6
  <2>2. \A d \in Slots : call'[d].at = "free"
    BY <1>4, <2>1, CallFrees
  <2>3. WritesInTurn' /\ Noted' /\ AddsNew'
    BY <1>1, <1>4, <2>2, FreeKeeps DEF WritesInTurn
  <2>4. Chronicle' /\ Follows'
    BY <1>1, <1>4, <2>1, <2>2, Unspoken, FollowsStays
  <2>5. ~severed' => OnceEach' /\ Covers'
    BY <1>1, <1>5, <2>1, <2>2, OnceStays, CoversGrow
  <2> QED
    BY <1>4, <2>3, <2>4, <2>5 DEF CanvasInv
<1>7. ASSUME ~Blocked(a, View)
      PROVE  /\ ledger.texts \subseteq ledger'.texts /\ ledger.removed \subseteq ledger'.removed
             /\ AddsText(a) => a.block.body \in ledger'.texts
             /\ a.op = "remove" => a.id \in ledger'.removed
  <2>1. ledger' = Recorded(a, View) /\ View \in Seq(Listed) /\ ledger \in Ledger
    BY <1>3, <1>4, <1>7, Viewed DEF CanvasTyped
  <2> QED
    BY <2>1, RecordedIs DEF AddsText
<1>8. CASE ~Blocked(a, View) /\ persist
  <2>1. call' = [call EXCEPT ![c].at = "read"] /\ UNCHANGED <<log, stream>>
    BY <1>3, <1>8
  <2>2. \A d \in Slots : call'[d] = [at |-> "read", act |-> a]
    <3>1. [call[c] EXCEPT !.at = "read"] = [at |-> "read", act |-> a]
      BY <1>2
    <3>2. call'[c] = [call[c] EXCEPT !.at = "read"]
      BY <1>4, <2>1 DEF CanvasTyped
    <3> QED
      BY <3>1, <3>2, OnlyOne
  <2>3. \A d \in Slots : call'[d].at = "read" /\ call'[d].act = a
    BY <2>2
  <2>4. WritesInTurn'
    BY <1>1, <1>4, <1>8, <2>3 DEF WritesInTurn
  <2>5. Chronicle'
    BY <1>4, <1>7, <1>8, <2>1 DEF Chronicle, Ledgered
  <2>6. Noted'
    <3>1. Unrepeated(a)
      BY <1>1, <1>2, <1>8, Passed
    <3>2. \A d \in Slots : Ledgered(call[d].act)' /\ Unrepeated(call[d].act)'
      BY <1>7, <1>8, <2>1, <2>3, <3>1 DEF Ledgered, Unrepeated
    <3> QED
      BY <2>3, <3>2 DEF Noted
  <2>7. Follows'
    BY <1>1, <1>4, <2>1, <2>3, FollowsStays
  <2>8. ASSUME ~severed' PROVE OnceEach' /\ Covers' /\ AddsNew'
    <3>1. OnceEach' /\ Covers'
      BY <1>1, <1>5, <1>7, <1>8, <2>1, <2>3, <2>8, OnceStays, CoversGrow
    <3>2. AddsText(a) => /\ Has(screen, a.block.body) => Clears(stream)
                         /\ ~Has(View, a.block.body) /\ (Lands => ~Has(saving, a.block.body))
      BY <1>1, <1>2, <1>5, <1>8, <2>8, Passed
    <3>3. View' = View /\ (Lands' <=> Lands) /\ UNCHANGED <<screen, stream, saving>>
      BY <1>1, <2>1 DEF View, Lands
    <3>4. AddsNew'
      BY <2>3, <3>2, <3>3 DEF AddsNew, New, Has, Clears
    <3> QED
      BY <3>1, <3>4
  <2> QED
    BY <1>4, <2>4, <2>5, <2>6, <2>7, <2>8 DEF CanvasInv
<1>9. CASE ~Blocked(a, View) /\ ~persist
  <2>1. Return(c, a)
    BY <1>3, <1>9
  <2>2. \A d \in Slots : call'[d].at = "free"
    BY <1>4, <2>1, CallFrees DEF Return
  <2>3. WritesInTurn' /\ Noted' /\ AddsNew'
    BY <1>1, <1>4, <2>2, FreeKeeps DEF WritesInTurn
  <2>4. Unrepeated(a)
    BY <1>1, <1>2, <1>9, Passed
  <2>5. Chronicle'
    BY <1>4, <1>7, <1>9, <2>1, <2>4, ReturnTells
  <2>6. Follows'
    BY <1>1, <1>9 DEF Follows
  <2>7. ASSUME ~severed' PROVE OnceEach' /\ Covers'
    <3>1. AddsText(a) /\ Has(screen, a.block.body) => Clears(stream)
      BY <1>1, <1>2, <1>5, <1>9, <2>7, Passed
    <3>2. Renews' /\ (Clears(stream') <=> Clears(stream) \/ a.op = "clear")
      BY <1>1, <1>4, <1>5, <2>1, <2>7, <3>1, ReturnRenews DEF OnceEach
    <3>3. OnceEach'
      BY <1>1, <1>5, <2>2, <2>7, <3>2 DEF OnceEach, Once
    <3>4. Covers'
      BY <1>1, <1>5, <1>7, <1>9, <2>2, <2>7, <3>2, CoversGrow
    <3> QED
      BY <3>3, <3>4
  <2> QED
    BY <1>4, <2>3, <2>5, <2>6, <2>7 DEF CanvasInv
<1> QED
  BY <1>6, <1>8, <1>9

-----------------------------------------------------------------------------
(***************************************************************************)
(* The writer reads the row, and writes it.                                *)
(***************************************************************************)
LEMMA ReadKeeps ==
    ASSUME OneCall, CanvasInv, NEW c \in Slots, Read(c)
    PROVE  CanvasInv'
<1>1. /\ call[c].at = "read"
      /\ call' = [call EXCEPT ![c] = [at |-> "write", act |-> call[c].act, base |-> View]]
      /\ UNCHANGED <<persist, row, tx, stream, ledger, turn, busy, log, fresh, screen, sent, saving,
                     touched, severed>>
  BY DEF Read, pageVars
<1>2. CanvasTyped /\ CanvasTyped' /\ WritesInTurn /\ Chronicle /\ Noted /\ Follows
  BY TypesKept DEF CanvasInv, CanvasNext
<1>3. PICK a : a = call[c].act
  OBVIOUS
<1>4. \A d \in Slots : call'[d] = [at |-> "write", act |-> a, base |-> View]
  BY <1>1, <1>2, <1>3, OnlyOne DEF CanvasTyped
<1>5. \A d \in Slots : call'[d].at = "write" /\ call'[d].act = a /\ call'[d].base = View
  BY <1>4
<1>6. busy /\ persist
  BY <1>1, <1>2 DEF WritesInTurn
<1>7. WritesInTurn'
  BY <1>1, <1>5, <1>6 DEF WritesInTurn, View
<1>8. Chronicle'
  BY <1>1, <1>2, Unspoken
<1>9. Noted'
  <2>1. Ledgered(a) /\ Unrepeated(a)
    BY <1>1, <1>2, <1>3 DEF Noted
  <2>2. \A d \in Slots : Ledgered(call[d].act)' /\ Unrepeated(call[d].act)'
    BY <1>1, <1>5, <2>1 DEF Ledgered, Unrepeated
  <2> QED
    BY <1>5, <2>2 DEF Noted
<1>10. Follows'
  BY <1>1, <1>2, <1>5, FollowsStays
<1>11. ASSUME ~severed' PROVE OnceEach' /\ Covers' /\ AddsNew'
  <2>1. OnceEach /\ Covers /\ AddsNew
    BY <1>1, <1>11 DEF CanvasInv
  <2>2. View' = View /\ (Lands' <=> Lands)
    BY <1>1 DEF View, Lands
  <2>3. Once(View)
    BY <2>1 DEF OnceEach, View
  <2>4. OnceEach'
    BY <1>1, <1>5, <2>1, <2>3, OnceStays
  <2>5. Covers'
    BY <1>1, <1>5, <2>1, <2>2 DEF Covers, Has, Clears
  <2>6. AddsNew'
    <3>1. AddsText(a) => /\ Has(screen, a.block.body) => Clears(stream)
                         /\ ~Has(View, a.block.body)
      BY <1>1, <1>3, <2>1 DEF AddsNew, New
    <3> QED
      BY <1>1, <1>5, <2>2, <3>1 DEF AddsNew, New, Has, Clears
  <2> QED
    BY <2>4, <2>5, <2>6
<1> QED
  BY <1>2, <1>7, <1>8, <1>9, <1>10, <1>11 DEF CanvasInv

\* The turn's list goes on as the events do.
LEMMA WriteAgrees ==
    ASSUME CanvasTyped, WritesInTurn, Follows, OnlyGrows, NEW c \in Slots, call[c].at = "write",
           NEW a \in Asked, a.op = "add" => a.block \in Listed, a.op \in {"add", "clear"},
           persist, busy, ~touched, ~severed, Return(c, a), screen' = screen,
           tx' = Written(call[c].base, a)
    PROVE  Agrees'
<1> DEFINE base == call[c].base
<1>0. PICK n : n = Len(stream)
  OBVIOUS
<1>1. /\ \A i \in 1 .. n : stream'[i] = stream[i]
      /\ stream'[n + 1] = a /\ Len(stream') = n + 1 /\ n \in Nat
  BY <1>0, ReturnIs
<1>2. base \in Seq(Listed) /\ screen \in Seq(Listed) /\ Len(<<>>) = 0 /\ Len(screen) \in Nat
  BY Calls, LenProperties, EmptySeq DEF CanvasTyped
<1>3. CASE a.op = "clear"
  <2>1. tx' = <<>>
    BY <1>2, <1>3, WrittenIs
  <2>2. AgreesFrom(n + 1)'
    <3>1. Base(n + 1)' = <<>>
      BY <1>1 DEF Base
    <3> QED
      BY <1>1, <1>2, <1>3, <2>1, <3>1 DEF AgreesFrom
  <2>3. n + 1 \in 0 .. Len(stream')
    BY <1>1
  <2> QED
    BY <2>2, <2>3 DEF Agrees
<1>4. CASE a.op = "add"
  <2>1. tx' = Append(base, a.block) /\ a.block \in Listed
    BY <1>2, <1>4, WrittenIs
  <2>2. /\ Len(tx') = Len(base) + 1 /\ \A i \in 1 .. Len(base) : tx'[i] = base[i]
        /\ tx'[Len(base) + 1] = a.block /\ Len(base) \in Nat
    BY <1>2, <2>1, Appended, Lengths
  <2> DEFINE Fits(k) ==
               /\ k > 0 => stream[k].op = "clear"
               /\ \A i \in k + 1 .. n : stream[i].op = "add"
               /\ Len(base) = Len(Base(k)) + n - k
               /\ \A i \in 1 .. Len(Base(k)) : base[i] = Base(k)[i]
               /\ \A i \in k + 1 .. n : base[Len(Base(k)) + i - k] = stream[i].block
  <2>3. \E k \in 0 .. n : Fits(k)
    <3>1. CASE tx = NoBlocks
      <4>1. stream = <<>> /\ base = screen
        BY <3>1 DEF Follows
      <4>2. n = 0 /\ Base(0) = screen
        BY <1>0, <1>2, <4>1 DEF Base
      <4>3. Fits(0)
        BY <1>2, <4>1, <4>2
      <4> QED
        BY <4>2, <4>3
    <3>2. CASE tx # NoBlocks
      <4>1. base = tx /\ Agrees
        BY <3>2 DEF Follows, WritesInTurn
      <4> QED
        BY <1>0, <4>1 DEF Agrees, AgreesFrom
    <3> HIDE DEF Fits
    <3> QED
      BY <3>1, <3>2
  <2>3a. PICK k \in 0 .. n : Fits(k)
    BY <2>3
  <2>4. Base(k)' = Base(k) /\ Len(Base(k)) \in Nat
    BY <1>2 DEF Base
  <2>5. k \in 0 .. n + 1 /\ k \in Nat /\ k <= n
    BY <1>1
  <2> HIDE DEF base
  <2>6. /\ k > 0 => stream'[k].op = "clear"
        /\ \A i \in k + 1 .. n + 1 : stream'[i].op = "add"
    <3>1. \A i \in k + 1 .. n + 1 : i \in k + 1 .. n \/ i = n + 1
      BY <1>1
    <3>2. \A i \in k + 1 .. n : i \in 1 .. n
      BY <1>1, <2>5
    <3>3. k > 0 => k \in 1 .. n
      BY <1>1, <2>5
    <3> QED
      BY <1>1, <1>4, <2>3a, <3>1, <3>2, <3>3
  <2>7. Len(tx') = Len(Base(k)) + (n + 1) - k
    BY <1>1, <2>2, <2>3a, <2>4, <2>5
  <2>8. \A i \in 1 .. Len(Base(k)) : tx'[i] = Base(k)[i]
    <3>1. \A i \in 1 .. Len(Base(k)) : i \in 1 .. Len(base)
      BY <1>1, <2>2, <2>3a, <2>4, <2>5
    <3> QED
      BY <2>2, <2>3a, <3>1
  <2>9. ASSUME NEW i \in k + 1 .. n + 1 PROVE tx'[Len(Base(k)) + i - k] = stream'[i].block
    <3>1. CASE i = n + 1
      <4>1. Len(Base(k)) + i - k = Len(base) + 1
        BY <1>1, <2>3a, <2>4, <2>5, <3>1
      <4> QED
        BY <1>1, <2>2, <3>1, <4>1
    <3>2. CASE i \in k + 1 .. n
      <4>1. Len(Base(k)) + i - k \in 1 .. Len(base) /\ i \in 1 .. n
        BY <1>1, <2>2, <2>3a, <2>4, <2>5, <3>2
      <4> QED
        BY <1>1, <2>2, <2>3a, <3>2, <4>1
    <3> QED
      BY <1>1, <2>5, <3>1, <3>2
  <2>10. AgreesFrom(k)'
    BY <1>1, <2>4, <2>6, <2>7, <2>8, <2>9 DEF AgreesFrom
  <2> QED
    BY <1>1, <2>5, <2>10 DEF Agrees
<1> QED
  BY <1>3, <1>4

LEMMA WriteKeeps ==
    ASSUME OneCall, CanvasInv, NEW c \in Slots, Write(c)
    PROVE  CanvasInv'
<1>1. CanvasTyped /\ CanvasTyped' /\ WritesInTurn /\ Chronicle /\ Noted /\ Follows
  BY TypesKept DEF CanvasInv, CanvasNext
<1>2. PICK a, act : a = Numbered(call[c].act) /\ act = call[c].act
  OBVIOUS
<1>3. /\ a \in Asked /\ act \in Asked /\ a.op = act.op
      /\ a.op = "add" => /\ a.block \in Listed /\ a.block.body = act.block.body
                         /\ a.block.kind = act.block.kind
      /\ a.op = "remove" => a.id = act.id
      /\ call[c].base \in Seq(Listed) /\ Return(c, a) /\ call[c].at = "write"
      /\ tx' = IF Writable(call[c].base, a) THEN Written(call[c].base, a) ELSE tx
      /\ UNCHANGED <<persist, row, ledger, turn, busy, screen, sent, saving, touched, severed>>
  BY <1>1, <1>2, WriteIs DEF pageVars
<1>4. busy /\ persist /\ Ledgered(act) /\ Unrepeated(act)
  BY <1>1, <1>2, <1>3 DEF WritesInTurn, Noted
<1>5. (AddsText(a) <=> AddsText(act)) /\ (AddsText(a) => a.block.body = act.block.body)
  BY <1>3 DEF AddsText
<1>6. Unrepeated(a) /\ Ledgered(a)
  BY <1>3, <1>4, <1>5 DEF Unrepeated, Ledgered, Repeats
<1>7. \A d \in Slots : call'[d].at = "free"
  BY <1>1, <1>3, CallFrees DEF Return
<1>8. WritesInTurn' /\ Noted' /\ AddsNew'
  BY <1>3, <1>4, <1>7, FreeKeeps
<1>9. Chronicle'
  BY <1>1, <1>3, <1>6, ReturnTells DEF Ledgered
<1>10. Follows'
  <2>1. ASSUME ~touched', ~severed', OnlyGrows' PROVE Agrees' /\ tx' # NoBlocks
    <3>1. OnlyGrows /\ a.op \in {"add", "clear"}
      <4>0. /\ DOMAIN log = 1 .. Len(log) /\ DOMAIN log' = 1 .. Len(log) + 1 /\ Len(log) \in Nat
            /\ \A i \in 1 .. Len(log) : log'[i] = log[i]
            /\ log'[Len(log) + 1] = a
        BY <1>1, <1>3, ReturnIs
      <4>1. \A i \in DOMAIN log : i \in DOMAIN log' /\ log'[i] = log[i]
        BY <4>0
      <4>2. Len(log) + 1 \in DOMAIN log' /\ log'[Len(log) + 1] = a
        BY <4>0
      <4> QED
        BY <2>1, <4>1, <4>2 DEF OnlyGrows
    <3>2. tx' = Written(call[c].base, a)
      BY <1>3, <3>1 DEF Writable
    <3>3. tx' # NoBlocks
      BY <1>3, <3>2, WrittenIs, Outside
    <3> QED
      BY <1>1, <1>3, <1>4, <2>1, <3>1, <3>2, <3>3, WriteAgrees
  <2> QED
    BY <2>1 DEF Follows
<1>11. ASSUME ~severed' PROVE OnceEach' /\ Covers'
  <2> DEFINE t == a.block.body
             w == Written(call[c].base, a)
  <2>1. OnceEach /\ Covers /\ AddsNew
    BY <1>3, <1>11 DEF CanvasInv
  <2>2. AddsText(a) => (Has(screen, t) => Clears(stream)) /\ ~Has(call[c].base, t)
    BY <1>2, <1>3, <1>5, <2>1 DEF AddsNew, New
  <2>3. a.op = "add" /\ t \in Texts => AddsText(a)
    <3>1. a.op = "add" => TextRight(a.block)
      BY <1>3, Kinds
    <3> QED
      BY <3>1 DEF AddsText, TextRight
  <2>4. Renews' /\ (Clears(stream') <=> Clears(stream) \/ a.op = "clear")
    BY <1>1, <1>3, <2>1, <2>2, ReturnRenews DEF OnceEach
  <2>5. w \in Seq(Listed) /\ Once(w) /\ w # NoBlocks
        /\ (a.op # "clear" => \A s \in Texts : Has(call[c].base, s) => Has(w, s))
    BY <1>3, <2>1, <2>2, <2>3, WrittenIs, Outside DEF OnceEach
  <2> HIDE DEF w
  <2>6. tx' = w \/ (tx' = tx /\ a.op = "update")
    BY <1>3 DEF Writable, w
  <2>7. OnceEach'
    <3>1. tx' # NoBlocks => Once(tx')
      BY <2>1, <2>5, <2>6 DEF OnceEach
    <3> QED
      BY <1>3, <1>7, <2>1, <2>4, <3>1 DEF OnceEach, Once
  <2>8. Covers'
    <3>1. CASE tx' = w
      <4>1. tx' # NoBlocks /\ View' = w
        BY <2>5, <3>1 DEF View
      <4>2. ASSUME NEW s \in Texts \ ledger.texts, Has(screen, s), ~Clears(stream') PROVE Has(w, s)
        <5>1. Has(call[c].base, s)
          BY <1>3, <1>4, <2>1, <2>4, <4>2 DEF Covers
        <5> QED
          BY <2>4, <2>5, <4>2, <5>1
      <4>3. \A s : Has(screen, s)' <=> Has(screen, s)
        BY <1>3 DEF Has
      <4>4. \A s : Has(View, s)' <=> Has(w, s)
        BY <4>1 DEF Has
      <4>5. Clears(stream)' <=> Clears(stream')
        BY DEF Clears
      <4> QED
        BY <1>3, <1>7, <4>1, <4>2, <4>3, <4>4, <4>5 DEF Covers, Lands
    <3>2. CASE tx' = tx /\ a.op = "update"
      BY <1>3, <1>7, <2>1, <2>4, <3>2, CoversGrow
    <3> QED
      BY <2>6, <3>1, <3>2
  <2> QED
    BY <2>7, <2>8
<1> QED
  BY <1>1, <1>8, <1>9, <1>10, <1>11 DEF CanvasInv

-----------------------------------------------------------------------------
(***************************************************************************)
(* The turn ends, and another is sent.                                     *)
(***************************************************************************)
LEMMA EndKeepsBlocks ==
    ASSUME CanvasInv, CanvasTyped', tx' = NoBlocks, busy' = FALSE, row' \in {row, View},
           \A d \in Slots : call'[d].at = "free",
           UNCHANGED <<stream, ledger, log, screen, saving, severed>>
    PROVE  CanvasInv'
<1>1. WritesInTurn' /\ Noted' /\ AddsNew'
  BY FreeKeeps
<1>2. Chronicle'
  BY Unspoken DEF CanvasInv
<1>3. Follows' /\ Covers'
  BY DEF Follows, Covers
<1>4. ASSUME ~severed PROVE OnceEach'
  <2>1. OnceEach
    BY <1>4 DEF CanvasInv
  <2>2. Once(row')
    BY <2>1 DEF OnceEach, View
  <2>3. Renews'
    BY <2>1 DEF OnceEach, Renews, Has
  <2> QED
    BY <2>1, <2>2, <2>3 DEF OnceEach, Once
<1> QED
  BY <1>1, <1>2, <1>3, <1>4 DEF CanvasInv

LEMMA CommitKeeps == ASSUME CanvasInv, Commit PROVE CanvasInv'
<1>1. CanvasTyped'
  BY TypesKept DEF CanvasInv, CanvasNext
<1>2. /\ tx' = NoBlocks /\ busy' = FALSE /\ row' = View
      /\ UNCHANGED <<stream, ledger, call, log, screen, saving, severed>>
      /\ \A d \in Slots : call[d] = Free
  BY DEF Commit, Committed, pageVars
<1>3. \A d \in Slots : call'[d].at = "free"
  BY <1>2 DEF Free
<1> QED
  BY <1>1, <1>2, <1>3, EndKeepsBlocks

LEMMA CrashKeeps == ASSUME CanvasInv, Crash PROVE CanvasInv'
<1>1. CanvasTyped'
  BY TypesKept DEF CanvasInv, CanvasNext
<1>2. /\ tx' = NoBlocks /\ busy' = FALSE /\ row' = row
      /\ UNCHANGED <<stream, ledger, log, screen, saving, severed>>
      /\ call' = [d \in Slots |-> Free]
  BY DEF Crash, pageVars
<1>3. \A d \in Slots : call'[d].at = "free"
  BY <1>2 DEF Free
<1> QED
  BY <1>1, <1>2, <1>3, EndKeepsBlocks

LEMMA SendTurnKeeps == ASSUME CanvasInv, SendTurn PROVE CanvasInv'
<1>1. /\ ~busy /\ stream = <<>> /\ saving = NoBlocks /\ busy' = TRUE
      /\ (row' = screen /\ UNCHANGED severed) \/ (severed' = TRUE /\ UNCHANGED row)
      /\ ledger' = NewLedger /\ log' = <<>>
      /\ UNCHANGED <<persist, tx, screen, stream, saving, call>>
  BY DEF SendTurn, SendAfter, Flush
<1>2. CanvasTyped /\ CanvasTyped'
  BY TypesKept DEF CanvasInv, CanvasNext
<1>3. tx = NoBlocks /\ \A d \in Slots : call[d].at = "free"
  BY <1>1 DEF CanvasInv, WritesInTurn
<1>4. WritesInTurn' /\ Noted' /\ AddsNew'
  BY <1>1, <1>3, FreeKeeps
<1>5. DOMAIN <<>> = {}
  BY EmptySeq
<1>6. Chronicle'
  BY <1>1, <1>5 DEF Chronicle
<1>7. Follows'
  BY <1>1, <1>3 DEF Follows
<1>8. ASSUME ~severed' PROVE OnceEach' /\ Covers'
  <2>1. row' = screen /\ OnceEach
    BY <1>1, <1>8 DEF CanvasInv
  <2>2. View' = screen /\ ~Clears(stream) /\ ~Lands'
    BY <1>1, <1>3, <1>5, <2>1 DEF View, Lands, Clears
  <2>3. OnceEach'
    <3>1. Renews'
      BY <1>1, <1>5 DEF Renews
    <3> QED
      BY <1>1, <1>3, <2>1, <3>1 DEF OnceEach, Once
  <2>4. Covers'
    BY <1>1, <1>3, <2>2 DEF Covers, Has, Clears
  <2> QED
    BY <2>3, <2>4
<1> QED
  BY <1>2, <1>4, <1>6, <1>7, <1>8 DEF CanvasInv

-----------------------------------------------------------------------------
(***************************************************************************)
(* The page applies an event.                                              *)
(***************************************************************************)
LEMMA DeliverAgrees ==
    ASSUME CanvasTyped, Deliver, persist, Agrees
    PROVE  Agrees'
<1>1. /\ Len(stream) \in Nat \ {0} /\ Len(stream') = Len(stream) - 1
      /\ \A i \in 1 .. Len(stream') : stream'[i] = stream[i + 1]
      /\ Delivered \in Asked /\ (Delivered.op = "add" => Delivered.block \in Listed)
      /\ Delivered = stream[1] /\ screen' = Shown(screen, Delivered) /\ tx' = tx
  BY DeliverIs
<1>2. screen \in Seq(Listed) /\ Len(screen) \in Nat /\ Len(<<>>) = 0
  BY LenProperties, EmptySeq DEF CanvasTyped
<1>3. PICK m : m = Len(stream')
  OBVIOUS
<1>4. m \in Nat /\ Len(stream) = m + 1
  BY <1>1, <1>3
<1>5. PICK k \in 0 .. m + 1 : AgreesFrom(k)
  BY <1>4 DEF Agrees
<1>6. /\ k > 0 => stream[k].op = "clear"
      /\ \A i \in k + 1 .. m + 1 : stream[i].op = "add"
      /\ Len(tx) = Len(Base(k)) + (m + 1) - k
      /\ \A i \in 1 .. Len(Base(k)) : tx[i] = Base(k)[i]
      /\ \A i \in k + 1 .. m + 1 : tx[Len(Base(k)) + i - k] = stream[i].block
  BY <1>4, <1>5 DEF AgreesFrom
<1>7. \A i \in 1 .. m : stream'[i] = stream[i + 1]
  BY <1>1, <1>3
<1>8. CASE k = 0
  <2>1. /\ stream[1].op = "add" /\ Base(0) = screen
        /\ \A i \in 1 .. Len(screen) : tx[i] = screen[i]
        /\ \A i \in 1 .. m + 1 : tx[Len(screen) + i] = stream[i].block
        /\ Len(tx) = Len(screen) + m + 1
        /\ \A i \in 1 .. m + 1 : stream[i].op = "add"
    <3>1. Base(k) = screen /\ k + 1 = 1 /\ k = 0
      BY <1>8 DEF Base
    <3>2. /\ \A i \in 1 .. m + 1 : stream[i].op = "add"
          /\ Len(tx) = Len(screen) + (m + 1) - 0
          /\ \A i \in 1 .. Len(screen) : tx[i] = screen[i]
          /\ \A i \in 1 .. m + 1 : tx[Len(screen) + i - 0] = stream[i].block
      BY <1>6, <3>1
    <3>3. \A i \in 1 .. m + 1 : Len(screen) + i - 0 = Len(screen) + i
      BY <1>2, <1>4
    <3>4. 1 \in 1 .. m + 1 /\ Len(screen) + (m + 1) - 0 = Len(screen) + m + 1
      BY <1>2, <1>4
    <3> QED
      BY <3>1, <3>2, <3>3, <3>4
  <2>2. screen' = Append(screen, stream[1].block) /\ stream[1].block \in Listed
    BY <1>1, <1>2, <2>1, ShownIs
  <2>3. /\ Len(screen') = Len(screen) + 1 /\ \A i \in 1 .. Len(screen) : screen'[i] = screen[i]
        /\ screen'[Len(screen) + 1] = stream[1].block
    BY <1>2, <2>2, Appended
  <2>4. \A i \in 1 .. Len(screen) + 1 : i \in 1 .. Len(screen) \/ i = Len(screen) + 1
    BY <1>2
  <2>5. tx[Len(screen) + 1] = stream[1].block
    BY <1>4, <2>1
  <2>6. \A i \in 1 .. Len(screen') : tx'[i] = screen'[i]
    BY <1>1, <2>1, <2>3, <2>4, <2>5
  <2>7. ASSUME NEW i \in 1 .. m
        PROVE  stream'[i].op = "add" /\ tx'[Len(screen') + i - 0] = stream'[i].block
    <3>1. i + 1 \in 1 .. m + 1 /\ Len(screen') + i - 0 = Len(screen) + (i + 1)
      <4>1. Len(screen') = Len(screen) + 1 /\ Len(screen) \in Nat /\ m \in Nat
        BY <1>2, <1>4, <2>3
      <4> QED
        BY <4>1
    <3>2. tx[Len(screen) + (i + 1)] = stream[i + 1].block /\ stream[i + 1].op = "add"
      BY <2>1, <3>1
    <3> QED
      BY <1>1, <1>7, <3>1, <3>2
  <2>8. AgreesFrom(0)'
    <3>1. Base(0)' = screen'
      BY DEF Base
    <3>2. Len(tx') = Len(screen') + m - 0
      BY <1>1, <1>2, <1>4, <2>1, <2>3
    <3> QED
      BY <1>3, <2>6, <2>7, <3>1, <3>2 DEF AgreesFrom
  <2> QED
    BY <1>3, <1>4, <2>8 DEF Agrees
<1>9. CASE k = 1
  <2>1. /\ stream[1].op = "clear" /\ Base(1) = <<>>
        /\ \A i \in 2 .. m + 1 : stream[i].op = "add" /\ tx[i - 1] = stream[i].block
        /\ Len(tx) = m
    <3>1. Base(k) = <<>> /\ Base(1) = <<>> /\ k = 1
      BY <1>9 DEF Base
    <3>2. /\ stream[1].op = "clear" /\ \A i \in 1 + 1 .. m + 1 : stream[i].op = "add"
          /\ Len(tx) = 0 + (m + 1) - 1
          /\ \A i \in 1 + 1 .. m + 1 : tx[0 + i - 1] = stream[i].block
      BY <1>2, <1>6, <3>1
    <3>3. 1 + 1 = 2 /\ 0 + (m + 1) - 1 = m /\ \A i \in 2 .. m + 1 : 0 + i - 1 = i - 1
      BY <1>4
    <3> QED
      BY <3>1, <3>2, <3>3
  <2>2. screen' = <<>>
    BY <1>1, <1>2, <2>1, ShownIs
  <2>3. ASSUME NEW i \in 1 .. m PROVE stream'[i].op = "add" /\ tx'[0 + i - 0] = stream'[i].block
    <3>1. i + 1 \in 2 .. m + 1 /\ 0 + i - 0 = (i + 1) - 1
      BY <1>4
    <3>2. tx[(i + 1) - 1] = stream[i + 1].block /\ stream[i + 1].op = "add"
      BY <2>1, <3>1
    <3> QED
      BY <1>1, <1>7, <3>1, <3>2
  <2>4. AgreesFrom(0)'
    <3>1. Base(0)' = <<>>
      BY <2>2 DEF Base
    <3>2. Len(tx') = 0 + m - 0
      BY <1>1, <1>4, <2>1
    <3> QED
      BY <1>2, <1>3, <2>3, <3>1, <3>2 DEF AgreesFrom
  <2> QED
    BY <1>3, <1>4, <2>4 DEF Agrees
<1>10. CASE k > 1
  <2>1. /\ stream[k].op = "clear" /\ Base(k) = <<>>
        /\ \A i \in k + 1 .. m + 1 : stream[i].op = "add" /\ tx[i - k] = stream[i].block
        /\ Len(tx) = m + 1 - k
    BY <1>2, <1>4, <1>6, <1>10 DEF Base
  <2>2. k - 1 \in 1 .. m
    BY <1>4, <1>10
  <2>3. stream'[k - 1] = stream[k]
    <3>1. (k - 1) + 1 = k
      BY <1>4
    <3> QED
      BY <1>7, <2>2, <3>1
  <2>4. ASSUME NEW i \in (k - 1) + 1 .. m
        PROVE  stream'[i].op = "add" /\ tx'[0 + i - (k - 1)] = stream'[i].block
    <3>1. i \in 1 .. m /\ i + 1 \in k + 1 .. m + 1 /\ 0 + i - (k - 1) = (i + 1) - k
      BY <1>4, <2>2
    <3>2. tx[(i + 1) - k] = stream[i + 1].block /\ stream[i + 1].op = "add"
      BY <2>1, <3>1
    <3> QED
      BY <1>1, <1>7, <3>1, <3>2
  <2>5. AgreesFrom(k - 1)'
    <3>1. Base(k - 1)' = <<>>
      BY <2>2 DEF Base
    <3>2. Len(tx') = 0 + m - (k - 1)
      BY <1>1, <1>4, <2>1
    <3> QED
      BY <1>2, <1>3, <2>1, <2>3, <2>4, <3>1, <3>2 DEF AgreesFrom
  <2>6. k - 1 \in 0 .. Len(stream')
    BY <1>3, <1>4, <2>2
  <2> QED
    BY <2>5, <2>6 DEF Agrees
<1> QED
  BY <1>4, <1>8, <1>9, <1>10

LEMMA DeliverKeeps == ASSUME CanvasInv, Deliver PROVE CanvasInv'
<1>1. CanvasTyped /\ CanvasTyped' /\ WritesInTurn /\ Chronicle /\ Noted /\ Follows
  BY TypesKept DEF CanvasInv, CanvasNext
<1>2. PICK e : e = Delivered
  OBVIOUS
<1>3. /\ Len(stream) \in Nat \ {0} /\ Len(stream') = Len(stream) - 1
      /\ \A i \in 1 .. Len(stream') : stream'[i] = stream[i + 1]
      /\ DOMAIN stream = 1 .. Len(stream) /\ DOMAIN stream' = 1 .. Len(stream')
      /\ e \in Asked /\ e.op = stream[1].op
      /\ e.op = "add" => /\ e.block \in Listed /\ e.block.body = stream[1].block.body
                         /\ e.block.kind = stream[1].block.kind
      /\ persist => e = stream[1]
      /\ screen' = Shown(screen, e)
      /\ UNCHANGED <<persist, row, tx, sent, saving, ledger, call, turn, busy, log, touched, severed>>
  BY <1>1, <1>2, DeliverIs
<1>4. /\ 1 \in DOMAIN stream
      /\ \A i \in DOMAIN stream' : i + 1 \in DOMAIN stream /\ stream'[i] = stream[i + 1] /\ i \in Nat
      /\ \A j \in DOMAIN stream : j = 1 \/ (j - 1 \in DOMAIN stream' /\ stream'[j - 1] = stream[j])
  BY <1>3
<1>5. WritesInTurn'
  BY <1>1, <1>3 DEF WritesInTurn
<1>6. Chronicle'
  <2>1. \A i \in DOMAIN stream' : AddsText(stream'[i]) => stream'[i].block.body \in ledger'.texts
    BY <1>1, <1>3, <1>4 DEF Chronicle
  <2>2. ASSUME NEW i \in DOMAIN stream', NEW j \in DOMAIN stream', i < j, AddsText(stream'[i])
        PROVE  ~Repeats(stream'[i], stream'[j])
    <3>1. i + 1 < j + 1
      BY <1>4, <2>2
    <3> QED
      BY <1>1, <1>4, <2>2, <3>1 DEF Chronicle
  <2> QED
    BY <1>1, <1>3, <2>1, <2>2 DEF Chronicle, Ledgered, AddsText, Repeats
<1>7. \A a : Unrepeated(a) => Unrepeated(a)'
  BY <1>3, <1>4 DEF Unrepeated
<1>8. Noted'
  <2>1. \A d \in Slots : call[d].at \in {"read", "write"} =>
           Ledgered(call[d].act)' /\ Unrepeated(call[d].act)'
    BY <1>1, <1>3, <1>4 DEF Noted, Ledgered, Unrepeated
  <2> QED
    BY <1>1, <1>3, <2>1 DEF Noted, Untold
<1>9. Follows'
  <2>1. ASSUME busy, persist, ~touched, ~severed, OnlyGrows PROVE Agrees' /\ tx # NoBlocks
    <3>1. stream # <<>>
      BY DEF Deliver
    <3>2. tx # NoBlocks
      BY <1>1, <2>1, <3>1 DEF Follows
    <3> QED
      BY <1>1, <2>1, <3>2, DeliverAgrees DEF Follows
  <2>2. OnlyGrows' <=> OnlyGrows
    BY <1>3 DEF OnlyGrows
  <2> QED
    BY <1>3, <2>1, <2>2 DEF Follows
<1>10. ASSUME ~severed' PROVE OnceEach' /\ Covers' /\ AddsNew'
  <2>1. OnceEach /\ Covers /\ AddsNew
    BY <1>3, <1>10 DEF CanvasInv
  <2>2. e.op = "add" /\ e.block.body \in Texts => AddsText(e) /\ AddsText(stream[1])
    <3>1. e.op = "add" => TextRight(e.block)
      BY <1>3, Kinds
    <3> QED
      BY <1>3, <3>1 DEF AddsText, TextRight
  <2>3. e.op = "add" /\ e.block.body \in Texts => ~Has(screen, e.block.body)
    <3>1. ASSUME AddsText(stream[1]), Has(screen, stream[1].block.body) PROVE FALSE
      <4>1. PICK j \in DOMAIN stream : j < 1
        BY <1>4, <2>1, <3>1 DEF OnceEach, Renews
      <4> QED
        BY <1>3, <4>1
    <3> QED
      BY <1>3, <2>2, <3>1
  <2>4. /\ Once(screen')
        /\ \A t \in Texts : Has(screen', t) =>
              /\ e.op # "clear"
              /\ Has(screen, t) \/ (e.op = "add" /\ e.block.body = t)
    BY <1>1, <1>3, <2>1, <2>3, ShownIs DEF OnceEach, CanvasTyped
  <2>5. \A i \in DOMAIN stream : AddsText(stream[i]) => stream[i].block.body \in Texts
    <3>1. \A i \in DOMAIN stream : stream[i] \in Asked
      BY <1>1, Lengths DEF CanvasTyped
    <3> QED
      BY <3>1, Kinds DEF AddsText, TextRight
  <2>6. Renews'
    <3>1. ASSUME NEW i \in DOMAIN stream', AddsText(stream'[i]), Has(screen', stream'[i].block.body)
          PROVE  \E j \in DOMAIN stream' : j < i /\ stream'[j].op = "clear"
      <4> DEFINE t == stream'[i].block.body
      <4>1. i + 1 \in DOMAIN stream /\ stream'[i] = stream[i + 1] /\ t \in Texts /\ 1 < i + 1 /\ i \in Nat
        BY <1>3, <1>4, <2>5, <3>1
      <4>2. e.op # "clear" /\ (Has(screen, t) \/ (e.op = "add" /\ e.block.body = t))
        BY <2>4, <3>1, <4>1
      <4>3. ~(e.op = "add" /\ e.block.body = t)
        <5>1. ASSUME e.op = "add", e.block.body = t PROVE FALSE
          <6>1. AddsText(stream[1]) /\ stream[1].block.body = stream[i + 1].block.body
            BY <1>3, <2>2, <4>1, <5>1
          <6>2. ~Repeats(stream[1], stream[i + 1])
            BY <1>1, <1>4, <4>1, <6>1 DEF Chronicle
          <6> QED
            BY <3>1, <4>1, <6>1, <6>2 DEF Repeats
        <5> QED
          BY <5>1
      <4>4. PICK j \in DOMAIN stream : j < i + 1 /\ stream[j].op = "clear"
        BY <2>1, <3>1, <4>1, <4>2, <4>3 DEF OnceEach, Renews
      <4>5. j - 1 \in DOMAIN stream' /\ stream'[j - 1] = stream[j] /\ j - 1 < i
        BY <1>3, <1>4, <4>1, <4>2, <4>4
      <4> QED
        BY <4>4, <4>5
    <3> QED
      BY <3>1 DEF Renews, AddsText, Has
  <2>7. OnceEach'
    BY <1>3, <2>1, <2>4, <2>6 DEF OnceEach, Once
  <2>8. (Clears(stream') => Clears(stream)) /\ (Clears(stream) /\ e.op # "clear" => Clears(stream'))
    BY <1>3, <1>4 DEF Clears
  <2>9. Covers'
    <3>1. ASSUME busy, NEW t \in Texts \ ledger.texts, Has(screen', t), ~Clears(stream')
          PROVE  Has(screen, t) /\ ~Clears(stream)
      <4>1. e.op # "clear" /\ (Has(screen, t) \/ (e.op = "add" /\ e.block.body = t))
        BY <2>4, <3>1
      <4>2. ~(e.op = "add" /\ e.block.body = t)
        BY <1>1, <1>3, <1>4, <2>2, <3>1 DEF Chronicle
      <4> QED
        BY <2>8, <3>1, <4>1, <4>2
    <3>2. View' = View /\ (Lands' <=> Lands)
      BY <1>3 DEF View, Lands
    <3>3. \A t \in Texts \ ledger.texts : Has(screen, t)' /\ ~Clears(stream)' /\ busy =>
             Has(screen, t) /\ ~Clears(stream)
      BY <3>1 DEF Has, Clears
    <3>4. Clears(stream)' => Clears(stream)
      BY <2>8 DEF Clears
    <3>5. \A t : Has(View, t)' <=> Has(View, t)
      BY <3>2 DEF Has
    <3>6. \A t : (Has(saving, t)' <=> Has(saving, t)) /\ (Has(row, t)' <=> Has(row, t))
      BY <1>3 DEF Has
    <3>7. \A d \in Slots : \A t : Has(call[d].base, t)' <=> Has(call[d].base, t)
      BY <1>3 DEF Has
    <3> QED
      BY <1>3, <2>1, <3>2, <3>3, <3>4, <3>5, <3>6, <3>7 DEF Covers
  <2>10. AddsNew'
    <3>1. ASSUME NEW d \in Slots, call[d].at \in {"read", "write"}, AddsText(call[d].act),
                 NEW t, t = call[d].act.block.body, Has(screen', t)
          PROVE  Clears(stream')
      <4>1. call[d].act \in Asked
        BY <1>1, <3>1, Calls
      <4>2. t \in Texts
        BY <3>1, <4>1, Kinds DEF AddsText, TextRight
      <4>3. e.op # "clear" /\ (Has(screen, t) \/ (e.op = "add" /\ e.block.body = t))
        BY <2>4, <3>1, <4>2
      <4>4. ~(e.op = "add" /\ e.block.body = t)
        <5>1. Unrepeated(call[d].act)
          BY <1>1, <3>1 DEF Noted
        <5> QED
          BY <1>3, <1>4, <2>2, <3>1, <4>2, <5>1 DEF Unrepeated, Repeats
      <4>5. Clears(stream)
        BY <2>1, <3>1, <4>3, <4>4 DEF AddsNew, New
      <4> QED
        BY <2>8, <4>3, <4>5
    <3>2. View' = View /\ (Lands' <=> Lands)
      BY <1>3 DEF View, Lands
    <3>3. ASSUME NEW d \in Slots, call[d].at \in {"read", "write"}, AddsText(call[d].act),
                 NEW t, t = call[d].act.block.body
          PROVE  New(d, t)'
      <4>1. Has(screen', t) => Clears(stream')
        BY <3>1, <3>3
      <4>2. New(d, t)
        BY <2>1, <3>3 DEF AddsNew
      <4> QED
        BY <1>3, <3>2, <4>1, <4>2 DEF New, Has, Clears
    <3> QED
      BY <1>3, <3>3 DEF AddsNew, New, AddsText, Has, Clears
  <2> QED
    BY <2>7, <2>9, <2>10
<1> QED
  BY <1>1, <1>5, <1>6, <1>8, <1>9, <1>10 DEF CanvasInv

-----------------------------------------------------------------------------
(***************************************************************************)
(* The user deletes, the page saves and is loaded anew.                    *)
(***************************************************************************)
LEMMA DeleteKeeps == ASSUME CanvasInv, Delete PROVE CanvasInv'
<1>1. CanvasTyped /\ CanvasTyped' /\ WritesInTurn /\ Chronicle /\ Noted
  BY TypesKept DEF CanvasInv, CanvasNext
<1>2. /\ touched' = TRUE
      /\ UNCHANGED <<persist, row, tx, sent, stream, saving, ledger, call, turn, busy, log, fresh,
                     severed>>
  BY DEF Delete
<1>3. PICK i \in DOMAIN screen : screen' = RemoveAt(screen, i)
  BY DEF Delete
<1>4. (\A t : Has(screen', t) => Has(screen, t)) /\ (Once(screen) => Once(screen'))
  BY <1>1, <1>3, OnceRemoved DEF CanvasTyped
<1>5. WritesInTurn' /\ Chronicle' /\ Noted' /\ Follows'
  <2>1. Noted'
    BY <1>1, <1>2 DEF Noted, Ledgered, Unrepeated, Untold
  <2> QED
    BY <1>1, <1>2, <2>1, Unspoken DEF WritesInTurn, Follows
<1>6. ASSUME ~severed' PROVE OnceEach' /\ Covers' /\ AddsNew'
  <2>1. OnceEach /\ Covers /\ AddsNew
    BY <1>2, <1>6 DEF CanvasInv
  <2>2. Renews'
    BY <1>2, <1>4, <2>1 DEF OnceEach, Renews, Has
  <2>3. OnceEach'
    BY <1>2, <1>4, <2>1, <2>2 DEF OnceEach, Once
  <2>4. /\ View' = View /\ (Lands' <=> Lands) /\ \A t : Has(screen, t)' => Has(screen, t)
        /\ Clears(stream)' <=> Clears(stream)
    BY <1>2, <1>4 DEF View, Lands, Has, Clears
  <2>5. \A t : /\ Has(View, t)' <=> Has(View, t)
               /\ Has(saving, t)' <=> Has(saving, t)
               /\ Has(row, t)' <=> Has(row, t)
               /\ \A d \in Slots : Has(call[d].base, t)' <=> Has(call[d].base, t)
    BY <1>2, <2>4 DEF Has
  <2>6. Covers'
    BY <1>2, <2>1, <2>4, <2>5 DEF Covers
  <2>7. \A d \in Slots : \A t : New(d, t) => New(d, t)'
    BY <1>2, <2>4, <2>5 DEF New
  <2>8. AddsNew'
    <3>1. \A d \in Slots : call[d].at \in {"read", "write"} /\ AddsText(call[d].act)
             => New(d, call[d].act.block.body)'
      BY <1>2, <2>1, <2>4, <2>5 DEF AddsNew, New
    <3> QED
      BY <1>2, <3>1 DEF AddsNew
  <2> QED
    BY <2>3, <2>6, <2>8
<1> QED
  BY <1>1, <1>5, <1>6 DEF CanvasInv

LEMMA SaveKeeps == ASSUME CanvasInv, Save PROVE CanvasInv'
<1>1. CanvasTyped /\ CanvasTyped' /\ WritesInTurn /\ Chronicle /\ Noted /\ Follows
  BY TypesKept DEF CanvasInv, CanvasNext
<1>2. /\ saving' = screen /\ saving = NoBlocks
      /\ UNCHANGED <<persist, row, tx, screen, sent, stream, ledger, call, turn, busy, log, fresh,
                     touched, severed>>
  BY DEF Save
<1>3. WritesInTurn' /\ Chronicle' /\ Noted'
  <2>1. Noted'
    BY <1>1, <1>2 DEF Noted, Ledgered, Unrepeated, Untold
  <2> QED
    BY <1>1, <1>2, <2>1, Unspoken DEF WritesInTurn
<1>4. Follows'
  <2>1. (OnlyGrows' <=> OnlyGrows) /\ (Agrees' <=> Agrees)
    BY <1>2 DEF OnlyGrows, Agrees, AgreesFrom, Base
  <2> QED
    BY <1>1, <1>2, <2>1 DEF Follows
<1>5. ASSUME ~severed' PROVE OnceEach' /\ Covers' /\ AddsNew'
  <2>1. OnceEach /\ Covers /\ AddsNew
    BY <1>2, <1>5 DEF CanvasInv
  <2>2. Renews'
    BY <1>2, <2>1 DEF OnceEach, Renews, Has
  <2>3. OnceEach'
    BY <1>2, <2>1, <2>2 DEF OnceEach, Once
  <2>4. View' = View /\ (Clears(stream)' <=> Clears(stream))
    BY <1>2 DEF View, Clears
  <2>5. \A t : /\ Has(View, t)' <=> Has(View, t)
               /\ Has(screen, t)' <=> Has(screen, t)
               /\ Has(saving, t)' <=> Has(screen, t)
               /\ Has(row, t)' <=> Has(row, t)
               /\ \A d \in Slots : Has(call[d].base, t)' <=> Has(call[d].base, t)
    BY <1>2, <2>4 DEF Has
  <2>6. Covers'
    <3>1. tx = NoBlocks => View = row
      BY DEF View
    <3> QED
      BY <1>2, <2>1, <2>4, <2>5, <3>1 DEF Covers, Lands
  <2>7. AddsNew'
    <3>1. ASSUME NEW d \in Slots, call[d].at \in {"read", "write"}, AddsText(call[d].act),
                 NEW t, t = call[d].act.block.body
          PROVE  New(d, t)'
      <4>1. New(d, t) /\ busy /\ persist
        BY <1>1, <2>1, <3>1 DEF AddsNew, WritesInTurn
      <4>2. tx = NoBlocks => ~Clears(stream)
        BY <2>1, <4>1 DEF Covers
      <4> QED
        BY <1>2, <2>4, <2>5, <4>1, <4>2 DEF New, Lands
    <3> QED
      BY <1>2, <3>1 DEF AddsNew, New, Has, Clears
  <2> QED
    BY <2>3, <2>6, <2>7
<1> QED
  BY <1>1, <1>3, <1>4, <1>5 DEF CanvasInv

LEMMA LandKeeps == ASSUME CanvasInv, Land PROVE CanvasInv'
<1>1. CanvasTyped /\ CanvasTyped' /\ WritesInTurn /\ Chronicle /\ Noted /\ Follows
  BY TypesKept DEF CanvasInv, CanvasNext
<1>2. /\ saving # NoBlocks /\ tx = NoBlocks /\ row' = saving /\ saving' = NoBlocks
      /\ UNCHANGED <<persist, tx, screen, sent, stream, ledger, call, turn, busy, log, fresh, touched,
                     severed>>
  BY DEF Land
<1>3. WritesInTurn' /\ Chronicle' /\ Noted'
  <2>1. Noted'
    BY <1>1, <1>2 DEF Noted, Ledgered, Unrepeated, Untold
  <2> QED
    BY <1>1, <1>2, <2>1, Unspoken DEF WritesInTurn
<1>4. Follows'
  <2>1. OnlyGrows' <=> OnlyGrows
    BY <1>2 DEF OnlyGrows
  <2> QED
    BY <1>1, <1>2, <2>1 DEF Follows
<1>5. ASSUME ~severed' PROVE OnceEach' /\ Covers' /\ AddsNew'
  <2>1. OnceEach /\ Covers /\ AddsNew
    BY <1>2, <1>5 DEF CanvasInv
  <2>2. Renews'
    BY <1>2, <2>1 DEF OnceEach, Renews, Has
  <2>3. OnceEach'
    BY <1>2, <2>1, <2>2 DEF OnceEach, Once
  <2>4. View' = saving /\ Lands /\ ~Lands' /\ (Clears(stream)' <=> Clears(stream))
    BY <1>2 DEF View, Lands, Clears
  <2>5. \A t : /\ Has(View, t)' <=> Has(saving, t)
               /\ Has(screen, t)' <=> Has(screen, t)
               /\ \A d \in Slots : Has(call[d].base, t)' <=> Has(call[d].base, t)
    BY <1>2, <2>4 DEF Has
  <2>6. Covers'
    BY <1>2, <2>1, <2>4, <2>5 DEF Covers
  <2>7. AddsNew'
    <3>1. ASSUME NEW d \in Slots, call[d].at \in {"read", "write"}, AddsText(call[d].act),
                 NEW t, t = call[d].act.block.body
          PROVE  New(d, t)'
      BY <1>2, <2>1, <2>4, <2>5, <3>1 DEF New, AddsNew
    <3> QED
      BY <1>2, <3>1 DEF AddsNew, New, Has, Clears
  <2> QED
    BY <2>3, <2>6, <2>7
<1> QED
  BY <1>1, <1>3, <1>4, <1>5 DEF CanvasInv

LEMMA ReloadKeeps == ASSUME CanvasInv, Reload PROVE CanvasInv'
<1>1. CanvasTyped /\ CanvasTyped' /\ WritesInTurn /\ Chronicle /\ Noted /\ Follows
  BY TypesKept DEF CanvasInv, CanvasNext
<1>2. /\ screen' = row /\ stream' = <<>>
      /\ severed' = (severed \/ busy \/ stream # <<>> \/ saving # NoBlocks)
      /\ UNCHANGED <<persist, row, tx, saving, ledger, call, turn, busy, log, fresh, touched>>
  BY DEF Reload
<1>3. DOMAIN <<>> = {}
  BY EmptySeq
<1>4. WritesInTurn' /\ Chronicle' /\ Noted' /\ Follows'
  <2>1. Noted'
    BY <1>1, <1>2, <1>3 DEF Noted, Ledgered, Unrepeated, Untold
  <2>2. Chronicle'
    BY <1>1, <1>2, <1>3 DEF Chronicle, Ledgered
  <2>3. Follows'
    BY <1>2 DEF Follows
  <2> QED
    BY <1>1, <1>2, <2>1, <2>2, <2>3 DEF WritesInTurn
<1>5. ASSUME ~severed' PROVE OnceEach' /\ Covers' /\ AddsNew'
  <2>1. ~severed /\ ~busy /\ OnceEach
    BY <1>2, <1>5 DEF CanvasInv
  <2>2. \A d \in Slots : call'[d].at = "free"
    BY <1>1, <1>2, <2>1, Calls DEF WritesInTurn
  <2>3. Covers' /\ AddsNew'
    BY <1>2, <2>1, <2>2 DEF Covers, AddsNew
  <2>4. OnceEach'
    <3>1. Renews'
      BY <1>2, <1>3 DEF Renews
    <3> QED
      BY <1>2, <2>1, <2>2, <3>1 DEF OnceEach, Once
  <2> QED
    BY <2>3, <2>4
<1> QED
  BY <1>1, <1>4, <1>5 DEF CanvasInv

LEMMA BlocksStutter == ASSUME CanvasInv, UNCHANGED canvasVars PROVE CanvasInv'
<1>1. CanvasTyped /\ CanvasTyped' /\ WritesInTurn /\ Chronicle /\ Noted /\ Follows
  BY TypesKept DEF CanvasInv
<1>2. UNCHANGED <<persist, row, tx, screen, sent, stream, saving, ledger, call, turn, busy, log, fresh,
                  touched, severed>>
  BY DEF canvasVars
<1>3. WritesInTurn' /\ Chronicle' /\ Noted'
  <2>1. Noted'
    BY <1>1, <1>2 DEF Noted, Ledgered, Unrepeated, Untold
  <2> QED
    BY <1>1, <1>2, <2>1, Unspoken DEF WritesInTurn
<1>4. Follows'
  BY <1>1, <1>2, FollowsStays
<1>5. ASSUME ~severed' PROVE OnceEach' /\ Covers' /\ AddsNew'
  <2>1. OnceEach /\ Covers /\ AddsNew
    BY <1>2, <1>5 DEF CanvasInv
  <2>2. OnceEach'
    BY <1>2, <2>1, OnceStays DEF OnceEach
  <2>3. Covers'
    BY <1>2, <2>1, CoversGrow
  <2>4. AddsNew'
    BY <1>2, <2>1 DEF AddsNew, New, Has, Clears, View, Lands
  <2> QED
    BY <2>2, <2>3, <2>4
<1> QED
  BY <1>1, <1>3, <1>4, <1>5 DEF CanvasInv

LEMMA BlocksKept == ASSUME OneCall, CanvasInv, [CanvasNext]_canvasVars PROVE CanvasInv'
BY CallBegins, LoadKeeps, ReadKeeps, WriteKeeps, CommitKeeps, CrashKeeps, SendTurnKeeps, DeliverKeeps,
   DeleteKeeps, SaveKeeps, LandKeeps, ReloadKeeps, BlocksStutter DEF CanvasNext

LEMMA BlocksInitially == CanvasInit => CanvasInv
<1> SUFFICES ASSUME CanvasInit PROVE CanvasInv
  OBVIOUS
<1>1. /\ tx = NoBlocks /\ busy = FALSE /\ stream = <<>> /\ log = <<>> /\ screen = <<>> /\ row = <<>>
      /\ saving = NoBlocks /\ \A c \in Slots : call[c].at = "free"
  BY DEF CanvasInit, Free
<1>2. DOMAIN <<>> = {}
  BY EmptySeq
<1>3. WritesInTurn /\ Noted /\ AddsNew /\ Covers /\ Follows
  BY <1>1 DEF WritesInTurn, Noted, AddsNew, Covers, Follows
<1>4. Chronicle /\ OnceEach
  BY <1>1, <1>2 DEF Chronicle, OnceEach, Renews, Once
<1> QED
  BY <1>3, <1>4, TypedInitially DEF CanvasInv

-----------------------------------------------------------------------------
(***************************************************************************)
(* What is promised.                                                       *)
(***************************************************************************)
\* The events, applied one by one: the definition defines the lists.
LEMMA ToldSteps ==
    ASSUME NEW s, NEW es \in Seq(Asked)
    PROVE  \E T : /\ Told(s, es) = T[Len(es)] /\ T[0] = s
                  /\ \A n \in 1 .. Len(es) : T[n] = Shown(T[n - 1], es[n])
<1> DEFINE After(f, m) == f = [n \in 0 .. m |-> IF n = 0 THEN s ELSE Shown(f[n - 1], es[n])]
           Bad == {m \in Nat : ~ \E f : After(f, m)}
<1>1. ASSUME Bad # {} PROVE FALSE
  <2>1. PICK m \in Bad : \A k \in Bad : m <= k
    BY <1>1, Least
  <2>2. CASE m = 0
    <3> DEFINE f == [n \in 0 .. 0 |-> s]
    <3>1. After(f, 0)
      OBVIOUS
    <3> QED
      BY <2>1, <2>2, <3>1
  <2>3. CASE m # 0
    <3>1. m - 1 \in Nat /\ m - 1 \notin Bad
      <4>1. m \in Nat
        BY <2>1
      <4> HIDE DEF Bad
      <4> QED
        BY <2>1, <2>3, <4>1
    <3>2. PICK f : After(f, m - 1)
      BY <3>1
    <3> DEFINE next == Shown(f[m - 1], es[m])
               g == [n \in 0 .. m |-> IF n = m THEN next ELSE f[n]]
    <3>3. After(g, m)
      <4>1. \A n \in 0 .. m - 1 : f[n] = IF n = 0 THEN s ELSE Shown(f[n - 1], es[n])
        BY <3>2
      <4>2. \A n \in 0 .. m : g[n] = IF n = 0 THEN s ELSE Shown(g[n - 1], es[n])
        BY <2>1, <2>3, <4>1
      <4> QED
        BY <4>2
    <3> QED
      BY <2>1, <3>3
  <2> QED
    BY <2>2, <2>3
<1>2. Len(es) \in Nat
  BY Lengths
<1>3. \E f : After(f, Len(es))
  BY <1>1, <1>2
<1> DEFINE T == CHOOSE f : After(f, Len(es))
<1>4. After(T, Len(es))
  BY <1>3, Zenon
<1>5. Told(s, es) = T[Len(es)]
  BY Zenon DEF Told
<1> HIDE DEF T
<1>6. \A n \in 0 .. Len(es) : T[n] = IF n = 0 THEN s ELSE Shown(T[n - 1], es[n])
  BY <1>4
<1>7. T[0] = s
  BY <1>2, <1>6
<1>8. \A n \in 1 .. Len(es) : T[n] = Shown(T[n - 1], es[n])
  BY <1>2, <1>6
<1> QED
  BY <1>5, <1>7, <1>8

\* What the events make of the page's list is the list of the turn.
LEMMA ToldAgrees ==
    ASSUME CanvasTyped, persist, tx # NoBlocks, Agrees
    PROVE  Told(screen, stream) = tx
<1> DEFINE n == Len(stream)
<1>1. stream \in Seq(Asked) /\ screen \in Seq(Listed) /\ tx \in Seq(Listed) /\ Named(stream)
  BY DEF CanvasTyped
<1>2. n \in Nat /\ Len(screen) \in Nat /\ Len(<<>>) = 0 /\ <<>> \in Seq(Listed)
      /\ DOMAIN stream = 1 .. n /\ \A i \in 1 .. n : stream[i] \in Asked
  BY <1>1, Lengths, EmptySeq
<1>3. PICK T : /\ Told(screen, stream) = T[n] /\ T[0] = screen
               /\ \A i \in 1 .. n : T[i] = Shown(T[i - 1], stream[i])
  BY <1>1, ToldSteps
<1>4. PICK k \in 0 .. n : AgreesFrom(k)
  BY DEF Agrees
<1> DEFINE b == Base(k)
<1>5. b \in Seq(Listed) /\ Len(b) \in Nat
  BY <1>1, <1>2 DEF Base
<1>6. /\ k > 0 => stream[k].op = "clear"
      /\ \A i \in k + 1 .. n : stream[i].op = "add"
      /\ Len(tx) = Len(b) + n - k
      /\ \A i \in 1 .. Len(b) : tx[i] = b[i]
      /\ \A i \in k + 1 .. n : tx[Len(b) + i - k] = stream[i].block
  BY <1>4 DEF AgreesFrom
<1>7. T[k] = b
  <2>1. CASE k = 0
    BY <1>3, <2>1 DEF Base
  <2>2. CASE k > 0
    <3>1. k \in 1 .. n
      BY <1>2, <2>2
    <3>2. Shown(T[k - 1], stream[k]) = <<>>
      BY <1>6, <2>2 DEF Shown
    <3> QED
      BY <1>3, <2>2, <3>1, <3>2 DEF Base
  <2> QED
    BY <1>2, <2>1, <2>2
<1> HIDE DEF b, n
<1> DEFINE Good(m) == /\ T[m] \in Seq(Listed) /\ Len(T[m]) = Len(b) + m - k
                      /\ \A i \in 1 .. Len(b) + m - k : T[m][i] = tx[i]
           Bad == {m \in k .. n : ~Good(m)}
<1>8. k \in Nat /\ k <= n
  BY <1>2
<1>9. Good(k)
  BY <1>5, <1>6, <1>7, <1>8
<1>10. ASSUME NEW m \in k + 1 .. n, Good(m - 1) PROVE Good(m)
  <2>1. m \in 1 .. n /\ m - 1 \in Nat /\ m \in Nat
    BY <1>2, <1>8
  <2>2. stream[m] \in Asked /\ stream[m].op = "add" /\ stream[m].block \in Listed
    <3>1. stream[m] \in Asked /\ stream[m].op = "add"
      BY <1>2, <1>6, <2>1
    <3>2. stream[m].block.id # 0
      BY <1>1, <1>2, <2>1, <3>1 DEF Named
    <3> QED
      BY <3>1, <3>2, Kinds DEF Listed
  <2>3. T[m] = Append(T[m - 1], stream[m].block)
    BY <1>3, <2>1, <2>2 DEF Shown
  <2> DEFINE l == Len(T[m - 1])
  <2>4. /\ T[m] \in Seq(Listed) /\ Len(T[m]) = l + 1
        /\ \A i \in 1 .. l : T[m][i] = T[m - 1][i]
        /\ T[m][l + 1] = stream[m].block
    BY <1>10, <2>2, <2>3, Appended
  <2>5. l = Len(b) + (m - 1) - k /\ l \in Nat
    BY <1>5, <1>8, <1>10, <2>1
  <2> HIDE DEF l
  <2>6. Len(b) + m - k = l + 1
    BY <1>5, <1>8, <2>1, <2>5
  <2>7. ASSUME NEW i \in 1 .. l + 1 PROVE T[m][i] = tx[i]
    <3>1. CASE i \in 1 .. l
      BY <1>10, <2>4, <2>5, <3>1
    <3>2. CASE i = l + 1
      BY <1>6, <2>4, <2>6, <3>2
    <3> QED
      BY <2>5, <3>1, <3>2
  <2> QED
    BY <2>4, <2>6, <2>7
<1>11. Good(n)
  <2>1. ASSUME Bad # {} PROVE FALSE
    <3>1. Bad \in SUBSET Nat
      BY <1>2, <1>8
    <3>2. PICK m \in Bad : \A j \in Bad : m <= j
      BY <2>1, <3>1, Least
    <3> HIDE DEF Good
    <3>3. m # k /\ m \in k + 1 .. n
      BY <1>2, <1>8, <1>9, <3>2
    <3>4. Good(m - 1)
      BY <1>2, <1>8, <3>2, <3>3
    <3> QED
      BY <1>10, <3>2, <3>3, <3>4
  <2> HIDE DEF Good
  <2> QED
    BY <1>2, <1>8, <2>1
<1>12. T[n] = tx
  BY <1>1, <1>6, <1>11, SeqEqual
<1> QED
  BY <1>3, <1>12

LEMMA TextsOnce ==
    ASSUME NEW s \in Seq(Listed), NEW t \in Texts, Once(s)
    PROVE  TextCount(s, t) <= 1
<1> DEFINE at == {i \in DOMAIN s : s[i].body = t}
<1>1. \A i, j \in at : i = j
  BY DEF Once
<1>2. CASE at = {}
  <2>1. Cardinality(at) = 0
    BY <1>2, FS_EmptySet
  <2> QED
    BY <2>1 DEF TextCount
<1>3. CASE at # {}
  <2>1. PICK i : i \in at
    BY <1>3
  <2>2. at = {i}
    BY <1>1, <2>1
  <2>3. Cardinality({i}) = 1
    BY FS_Singleton
  <2> HIDE DEF at
  <2>4. Cardinality(at) = 1
    BY <2>2, <2>3
  <2> QED
    BY <2>4 DEF TextCount, at
<1> QED
  BY <1>2, <1>3

LEMMA BlocksAreSound == CanvasInv => BlocksSound
<1> SUFFICES ASSUME CanvasInv PROVE BlocksSound
  OBVIOUS
<1>1. CanvasTyped /\ Chronicle /\ Follows
  BY DEF CanvasInv
<1>2. NoRepeat
  <2> SUFFICES ASSUME NEW i \in DOMAIN log, NEW j \in DOMAIN log, i < j, log[i].op = log[j].op
               PROVE  /\ log[i].op = "remove" => log[i].id # log[j].id
                      /\ log[i].op = "add" /\ log[i].block.kind = "text"
                            => log[i].block.body # log[j].block.body
    BY DEF NoRepeat
  <2>1. ~Repeats(log[i], log[j])
    BY <1>1 DEF Chronicle
  <2>2. log[i] \in Asked /\ log[j] \in Asked
    BY <1>1, Lengths DEF CanvasTyped
  <2>3. log[i].op = "add" /\ log[i].block.kind = "text" /\ log[i].block.body = log[j].block.body
          => log[j].block.kind = "text"
    BY <2>2, Kinds DEF TextRight
  <2> QED
    BY <2>1, <2>3 DEF Repeats, AddsText
<1>3. NoDuplicateText
  <2> SUFFICES ASSUME ~severed, NEW t \in Texts PROVE TextCount(screen, t) <= 1
    BY DEF NoDuplicateText
  <2>1. Once(screen)
    BY DEF CanvasInv, OnceEach
  <2> QED
    BY <1>1, <2>1, TextsOnce DEF CanvasTyped
<1>4. AgreeOnAdds
  <2> SUFFICES ASSUME Calm, OnlyGrows PROVE Told(screen, stream) = tx
    BY DEF AgreeOnAdds
  <2>1. busy /\ persist /\ tx # NoBlocks /\ ~touched /\ ~severed
    BY DEF Calm, CanvasInv, WritesInTurn
  <2>2. Agrees
    BY <1>1, <2>1 DEF Follows
  <2> QED
    BY <1>1, <2>1, <2>2, ToldAgrees
<1> QED
  BY <1>2, <1>3, <1>4 DEF BlocksSound

\* Where a worker makes one call at a time, nothing comes twice to a canvas:
\* over any number of turns, saves, deletions, crashes and reloads, no text is
\* added that the page already shows, no turn returns an action twice, and the
\* list of a turn that only adds and clears is what its events make of the page.
THEOREM BlocksStaySound ==
    ASSUME OneCall
    PROVE  CanvasSpec => []BlocksSound
<1>1. CanvasInv /\ [CanvasNext]_canvasVars => CanvasInv'
  BY BlocksKept
<1> QED
  BY <1>1, BlocksInitially, BlocksAreSound, PTL DEF CanvasSpec

-----------------------------------------------------------------------------
\* Each part of the suite runs as its module says while the others rest, so what the
\* blocks, the saves and the assistant keep to holds of the suite that is checked.
THEOREM TypeCorrect == Spec => []TypeOK
<1>1. Init => CanvasTyped /\ AutosaveInv /\ StoreInv
  BY TypedInitially, Initially, StoreInitially DEF Init
<1>2. CanvasTyped /\ [Next]_vars => CanvasTyped'
  <2>1. [Next]_vars => [CanvasNext]_canvasVars
    BY DEF Next, vars
  <2> QED
    BY <2>1, TypesKept
<1>3. AutosaveInv /\ [Next]_vars => AutosaveInv'
  <2>1. [Next]_vars => [AutosaveNext]_autosaveVars
    BY DEF Next, vars
  <2> QED
    BY <2>1, SavesKept
<1>4. StoreInv /\ [Next]_vars => StoreInv'
  <2>1. [Next]_vars => [StoreNext]_storeVars
    BY DEF Next, vars
  <2> QED
    BY <2>1, StoreKept
<1>5. CanvasTyped /\ AutosaveInv /\ StoreInv => TypeOK
  BY TypedIsTyped DEF AutosaveInv, StoreInv, TypeOK
<1> QED
  BY <1>1, <1>2, <1>3, <1>4, <1>5, PTL DEF Spec
=============================================================================
