----------------------------- MODULE RoundService -----------------------------
(***************************************************************************)
(* What one session promises its clients, with no lock, marker, registry   *)
(* or process in sight: "only one round of the agent runs in a session at  *)
(* any time", and a request is refused, lost, or run once to its end.      *)
(***************************************************************************)
CONSTANT Round

VARIABLE phase

Waiting == "waiting"
Running == "running"
Ends == {"answered", "interrupted"}

TypeOK == phase \in [Round -> {Waiting, Running, "refused", "lost"} \cup Ends]

Init == phase = [r \in Round |-> Waiting]

Begin(r) ==
    /\ phase[r] = Waiting
    /\ \A q \in Round : phase[q] # Running
    /\ phase' = [phase EXCEPT ![r] = Running]

End(r) ==
    /\ phase[r] = Running
    /\ \E end \in Ends : phase' = [phase EXCEPT ![r] = end]

Refuse(r) ==
    /\ phase[r] = Waiting
    /\ phase' = [phase EXCEPT ![r] = "refused"]

\* A crash or a disconnect takes some rounds away.
Lose(gone) ==
    /\ \A r \in gone : phase[r] \in {Waiting, Running}
    /\ phase' = [r \in Round |-> IF r \in gone THEN "lost" ELSE phase[r]]

Next ==
    \/ \E r \in Round : Begin(r) \/ End(r) \/ Refuse(r)
    \/ \E gone \in SUBSET Round : Lose(gone)

Spec == Init /\ [][Next]_phase

\* The promise in one formula.
OneRunning ==
    \A r, q \in Round : phase[r] = Running /\ phase[q] = Running => r = q

=============================================================================
