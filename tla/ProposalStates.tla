--------------------------- MODULE ProposalStates ---------------------------
(***************************************************************************)
(* The trade-proposal state machine (proposals/state_machine.py): the      *)
(* statuses a proposal can have, the table of legal transitions, and the   *)
(* named sets of statuses the services branch on.  Every module that moves *)
(* a proposal takes its guards from here, as every service does.           *)
(***************************************************************************)

ProposalStatus ==
    {"DRAFT", "READY", "NOTIFIED", "APPROVAL_PENDING", "APPROVED", "EXECUTING",
     "EXECUTION_AMBIGUOUS", "EXECUTED", "REJECTED", "EXPIRED", "FAILED",
     "CANCELLED", "INVALIDATED"}

AllowedTransitions ==
    ({"DRAFT"} \X {"READY", "CANCELLED", "FAILED", "INVALIDATED"})
    \cup ({"READY"} \X {"NOTIFIED", "APPROVAL_PENDING", "APPROVED", "REJECTED",
                        "EXPIRED", "CANCELLED", "INVALIDATED"})
    \cup ({"NOTIFIED"} \X {"APPROVAL_PENDING", "APPROVED", "REJECTED", "EXPIRED",
                           "CANCELLED", "INVALIDATED"})
    \cup ({"APPROVAL_PENDING"} \X {"APPROVED", "NOTIFIED", "REJECTED", "EXPIRED",
                                   "CANCELLED", "FAILED", "INVALIDATED"})
    \cup ({"APPROVED"} \X {"EXECUTING", "EXPIRED", "CANCELLED", "FAILED",
                           "INVALIDATED"})
    \cup ({"EXECUTING"} \X {"EXECUTED", "FAILED", "EXECUTION_AMBIGUOUS",
                            "APPROVED"})
    \cup ({"EXECUTION_AMBIGUOUS"} \X {"EXECUTED", "FAILED", "CANCELLED"})

CanTransition(current, target) == <<current, target>> \in AllowedTransitions

\* The one status a transmission may start from.
ExecutableStatuses == {"APPROVED"}

\* An order may exist at the broker.
InFlightStatuses == {"EXECUTING", "EXECUTION_AMBIGUOUS"}

\* No broker mutation has been attempted.
PreExecutionStatuses ==
    {"DRAFT", "READY", "NOTIFIED", "APPROVAL_PENDING", "APPROVED"}

AuthorizableStatuses == {"READY", "NOTIFIED", "APPROVAL_PENDING"}

\* The proposal occupies its instrument and reserves its exposure.
ActiveStatuses == PreExecutionStatuses \cup InFlightStatuses

\* The statuses the expiry sweep may retire (proposals/service.py).
SweepableStatuses == PreExecutionStatuses \ {"APPROVED"}

=============================================================================
