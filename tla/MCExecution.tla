---------------------------- MODULE MCExecution ----------------------------
(***************************************************************************)
(* Instances of Execution for TLC.  Attempt n belongs to the proposal that *)
(* OwnerOf gives it; all proposals of an instance are on one listing.      *)
(***************************************************************************)
EXTENDS Execution, TLC

CONSTANTS p1, p2

OneProposal == {p1}
TwoProposals == {p1, p2}

OneAttempt == {1}
TwoAttempts == {1, 2}

OwnerOne == [a \in {1} |-> p1]
OwnerRetry == [a \in {1, 2} |-> p1]
OwnerEach == [a \in {1, 2} |-> IF a = 1 THEN p1 ELSE p2]

SameListing == [p \in {p1, p2} |-> "AAPL_US_EQ"]

WorkerSymmetry == Permutations(Workers)

=============================================================================
