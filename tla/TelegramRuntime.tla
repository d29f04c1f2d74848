--------------------------- MODULE TelegramRuntime ---------------------------
(***************************************************************************)
(* The bot's lifecycle: the supervisor, the watchdog and the health facts  *)
(* of telegram/runtime.py.                                                 *)
(*                                                                         *)
(* The application is python-telegram-bot's: its poller goes on by itself, *)
(* and tells of the errors it will retry.  Commands are what operators     *)
(* send; those that no application received in time are dropped by the     *)
(* next one.                                                               *)
(***************************************************************************)
EXTENDS Integers, FiniteSetsExt

CONSTANTS
    DownAfter,      \* _DOWN_AFTER_FAILURES
    MaxBackoff,     \* telegram_max_backoff_seconds over _INITIAL_BACKOFF_SECONDS
    MaxOutages, MaxFailures     \* bounds: turns of the network; the count of failures

VARIABLES
    network,        \* whether Telegram answers
    token,          \* whether Telegram accepts the token
    outages,
    task,           \* the supervisor: where it stands, "none" and "done" without one
    backoff,        \* what the next failed start waits for
    wait,           \* how much of a backoff is left
    application,    \* whether one is built and polls
    bound,          \* whether the notifier has a sender
    failures, fatal, stopping,
    commands        \* what operators sent and nobody has received: "before" or "since"
                    \* the poller of today began

vars == <<network, token, outages, task, backoff, wait, application, bound, failures, fatal,
          stopping, commands>>
world == <<network, token, outages>>
facts == <<failures, fatal>>

Init ==
    /\ network \in BOOLEAN /\ token \in BOOLEAN /\ outages = 0
    /\ task = "none" /\ backoff = 1 /\ wait = 0
    /\ application = FALSE /\ bound = FALSE
    /\ failures = 0 /\ fatal = FALSE /\ stopping = FALSE /\ commands = {}

\* The network fails; a token is revoked for good.
Turn ==
    /\ outages < MaxOutages /\ outages' = outages + 1
    /\ \/ network /\ network' = FALSE /\ UNCHANGED token
       \/ token /\ token' = FALSE /\ UNCHANGED network
    /\ UNCHANGED <<task, backoff, wait, application, bound, facts, stopping, commands>>

Reconnect ==
    /\ ~network /\ network' = TRUE
    /\ UNCHANGED <<token, outages, task, backoff, wait, application, bound, facts, stopping, commands>>

Command ==
    /\ commands' = commands \cup {IF application THEN "since" ELSE "before"}
    /\ UNCHANGED <<world, task, backoff, wait, application, bound, facts, stopping>>

-----------------------------------------------------------------------------

\* status(): failures before the absence of an application.
Status ==
    CASE fatal -> "DOWN"
      [] ~fatal /\ failures >= DownAfter -> "DOWN"
      [] ~fatal /\ failures \in 1..(DownAfter - 1) -> "DEGRADED"
      [] ~fatal /\ failures = 0 /\ ~application -> "UNKNOWN"
      [] OTHER -> "HEALTHY"

Failed == Min({failures + 1, MaxFailures})

Teardown ==
    /\ application' = FALSE /\ bound' = FALSE
    /\ commands' = IF commands = {} THEN {} ELSE {"before"}

Start ==
    /\ task = "none" /\ ~stopping /\ task' = "launching"
    /\ UNCHANGED <<world, backoff, wait, application, bound, facts, stopping, commands>>

\* A rejected credential will not fix itself: the supervisor ends.
Rejected ==
    /\ fatal' = TRUE /\ task' = "done" /\ UNCHANGED failures

\* The backlog is handed to the new poller.
DroppedNone == commands

\* drop_pending_updates.
Dropped == {}

\* getMe and the start of polling, as one: nothing is kept of an application that
\* did not get that far.
Launch ==
    /\ task = "launching"
    /\ \/ /\ network /\ ~token /\ Rejected
          /\ UNCHANGED <<backoff, wait, application, bound, commands>>
       \/ /\ network /\ token
          /\ task' = "watching" /\ application' = TRUE /\ bound' = TRUE /\ commands' = Dropped
          /\ failures' = 0 /\ fatal' = FALSE /\ backoff' = 1 /\ UNCHANGED wait
       \/ /\ ~network
          /\ failures' = Failed /\ Teardown
          /\ task' = "backing off" /\ wait' = backoff /\ backoff' = Min({2 * backoff, MaxBackoff})
          /\ UNCHANGED fatal
    /\ UNCHANGED <<world, stopping>>

\* The backoff is over, or cut short by the stop.
BackOff ==
    /\ task = "backing off"
    /\ IF stopping THEN task' = "done" /\ UNCHANGED wait
       ELSE wait' = wait - 1 /\ task' = IF wait = 1 THEN "launching" ELSE task
    /\ UNCHANGED <<world, backoff, application, bound, facts, stopping, commands>>

\* A watchdog that has lost its patience ends the supervision.
GiveUp == Teardown /\ task' = "done"

Rebuild == Teardown /\ task' = "launching"

\* getMe at each interval; a run of failures ends the application.
Watch ==
    /\ task = "watching" /\ ~stopping
    /\ \/ /\ network /\ token
          /\ failures' = 0 /\ UNCHANGED <<task, application, bound, fatal, stopping, commands>>
       \/ /\ network /\ ~token
          /\ Rejected /\ stopping' = TRUE /\ UNCHANGED <<application, bound, commands>>
       \/ /\ ~network
          /\ failures' = Failed /\ UNCHANGED <<fatal, stopping>>
          /\ IF failures' >= DownAfter THEN Rebuild
             ELSE UNCHANGED <<task, application, bound, commands>>
    /\ UNCHANGED <<world, backoff, wait>>

\* _on_poll_error counts as the watchdog counts, and does no more.
PollError ==
    /\ application /\ ~network /\ failures' = Failed
    /\ UNCHANGED <<world, task, backoff, wait, application, bound, fatal, stopping, commands>>

Receive ==
    /\ application /\ network /\ token /\ commands # {}
    /\ \E c \in commands : commands' = commands \ {c}
    /\ UNCHANGED <<world, task, backoff, wait, application, bound, facts, stopping>>

\* stop() cancels the supervisor wherever it is.
Stop ==
    /\ task # "none" /\ stopping' = TRUE /\ task' = "none" /\ Teardown
    /\ UNCHANGED <<world, backoff, wait, facts>>

Next ==
    \/ Turn \/ Reconnect \/ Command \/ Start \/ Launch \/ BackOff \/ Watch \/ PollError \/ Receive \/ Stop

\* The event loop runs every task that is not waiting, and an outage ends; what
\* operators send and when the process stops are nobody's duty.
Fairness ==
    WF_vars(Start) /\ WF_vars(Launch) /\ WF_vars(BackOff) /\ WF_vars(Watch) /\ WF_vars(Reconnect)

Spec == Init /\ [][Next]_vars /\ Fairness

-----------------------------------------------------------------------------
(* Properties.                                                             *)

\* _supervise: the bot comes back by itself.  Whenever the notifier has no sender,
\* or the health facts are not HEALTHY, both recover, unless the process is stopped
\* or the token is rejected.
Serving == bound /\ Status = "HEALTHY"
BotReturns == ~Serving ~> (Serving \/ stopping \/ fatal)

\* drop_pending_updates: a command of an unknown age is never carried out by the
\* application that was started after it.
NoStaleCommand ==
    [][Receive /\ commands' # commands => "before" \notin commands \ commands']_vars

=============================================================================
