--------------------------- MODULE MCCanvasRound ---------------------------
(* Instances of CanvasRound for TLC. *)
EXTENDS CanvasRound, TLC

CONSTANT a1

OneHome == [r \in Round |-> a1]

RoundSymmetry == Permutations(Round)

=============================================================================
