------------------------------ MODULE MCEvents ------------------------------
(* Instances of Events for TLC. *)
EXTENDS Events, TLC

OneHeadline == [d \in Docs |-> "headline"]

WorkerSymmetry == Permutations(Workers)

=============================================================================
