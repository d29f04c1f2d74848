-------------------------- MODULE MCProposalsLive --------------------------
(***************************************************************************)
(* What must become of a proposal: it closes, and once its order is        *)
(* started it is never forgotten.  An initial state chooses the part that  *)
(* runs, deciding (Approvals) or executing (Execution); the other part     *)
(* stays where it started, and fairness is the running part's.             *)
(***************************************************************************)
EXTENDS MCExecution

CONSTANTS Parts, u1, b1, j1, Web, System

VARIABLES part,
    decided, policy, expires, announced, stopped, switches, now, minted, stage, about,
    holder, parent, until, open, taps, tapper, authBy, authVia, step, on, source, action,
    view, moment, stale

deciding ==
    <<decided, policy, expires, announced, stopped, switches, now, minted, stage, about,
      holder, parent, until, open, taps, tapper, authBy, authVia, step, on, source, action,
      view, moment, stale>>

A == INSTANCE Approvals WITH
    Holders <- {u1}, User <- [h \in {u1} |-> h], Bots <- {b1}, Requests <- {}, Runners <- {j1},
    MaxActions <- 3, MaxTime <- 2, MaxSwitches <- 1, ActionTTL <- 1, ConfirmTTL <- 1,
    status <- decided, halted <- stopped, pc <- step, prop <- on

Start == part \in Parts /\ Init /\ A!Init

Step ==
    /\ UNCHANGED part
    /\ \/ part = "executing" /\ Next /\ UNCHANGED deciding
       \/ part = "deciding" /\ A!Next /\ UNCHANGED vars

Explored ==
    /\ Start /\ [][Step]_<<part, vars, deciding>>
    /\ \/ part = "executing" /\ Fairness
       \/ part = "deciding" /\ A!Fairness

-----------------------------------------------------------------------------
(* NeverForgotten comes with Execution.                                    *)

ProposalsClose == A!ProposalsClose
=============================================================================
