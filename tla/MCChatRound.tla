---------------------------- MODULE MCChatRound ----------------------------
(* Instances of ChatRound for TLC: where the requests go, and symmetry. *)
EXTENDS ChatRound, TLC

CONSTANTS a1, a2, r1

\* Every request reaches the same API process.
OneHome == [r \in Round |-> a1]

\* One request reaches another API process than the rest.
TwoHomes == [r \in Round |-> IF r = r1 THEN a1 ELSE a2]

RoundSymmetry == Permutations(Round)

\* The requests that reach the same process are interchangeable.
HomeSymmetry == Permutations(Round \ {r1})

=============================================================================
