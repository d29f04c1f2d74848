---------------------------- MODULE MCApprovals ----------------------------
(* Instances of Approvals for TLC. *)
EXTENDS Approvals, TLC

\* Every holder is a person of their own.
OwnUser == [h \in Holders |-> h]

\* One person in several chats.
SameUser == [h \in Holders |-> "owner"]

HolderSymmetry == Permutations(Holders)

=============================================================================
