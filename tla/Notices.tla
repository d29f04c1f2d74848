------------------------------- MODULE Notices -------------------------------
(***************************************************************************)
(* What StockBrain tells its operator: observability/alerts.py (scan), the *)
(* tick of services.py that enqueues what a scan wrote,                    *)
(* handle_send_notification and _deliver_alert in jobs/handlers.py, and    *)
(* telegram/notifier.py (deliver, deliver_pipeline).                       *)
(*                                                                         *)
(* A notice of a proposal or pipeline stage claims its row before it is    *)
(* sent; an alert's row exists before its job does, and is read before the *)
(* send and marked after it.  A proposal is announced by its opening, and  *)
(* its end by a follow-up.  Every job has one attempt.  sent, lost and     *)
(* told only record what reached the chat.                                 *)
(***************************************************************************)
EXTENDS Integers, FiniteSetsExt

CONSTANTS
    Conditions, Proposals, Workers,
    Window,         \* _WINDOWS, in ticks
    MaxTime, MaxLosses,     \* bounds
    None

Alerts == Conditions \X {"fired", "resolved"} \X (0 .. MaxTime)
Notices == Proposals \X {"opening", "followup"}
Items == Alerts \cup Notices

VARIABLES
    now,
    firing,     \* conditions that hold
    active,     \* AppSetting alerts.active
    scan,       \* what the running scan has found and written, None without one
    row,        \* notifications by dedupe_key: the status
    offered,    \* items with an active job
    worker,     \* the delivery a worker is in
    sent, lost, told

vars == <<now, firing, active, scan, row, offered, worker, sent, lost, told>>

Init ==
    /\ now = 0 /\ firing = {} /\ active = {} /\ scan = None
    /\ row = [i \in Items |-> "ABSENT"]
    /\ offered = {}
    /\ worker = [w \in Workers |-> None]
    /\ sent = [i \in Items |-> 0] /\ lost = [i \in Items |-> 0]
    /\ told = [c \in Conditions |-> "resolved"]

-----------------------------------------------------------------------------
(* OperationalAlerts.scan, in one task, and the tick around it.            *)

\* One row for a condition in a window of time, one for a resolution a minute.
FiredKey(c) == <<c, "fired", now \div Window>>
ResolvedKey(c) == <<c, "resolved", now>>

ScanRecord ==
    /\ scan = None
    /\ LET keys == {FiredKey(c) : c \in firing} \cup {ResolvedKey(c) : c \in active \ firing}
           new == {k \in keys : row[k] = "ABSENT"}
       IN  /\ row' = [i \in Items |-> IF i \in new THEN "PENDING" ELSE row[i]]
           /\ scan' = [phase |-> "store", found |-> firing,
                       news |-> new # {} \/ active \ firing # {}]
    /\ UNCHANGED <<now, firing, active, offered, worker, sent, lost, told>>

ScanStore ==
    /\ scan # None /\ scan.phase = "store"
    /\ active' = scan.found
    /\ scan' = [scan EXCEPT !.phase = "enqueue"]
    /\ UNCHANGED <<now, firing, row, offered, worker, sent, lost, told>>

\* _scan_alerts: whatever is still pending, if this scan had something new.
ScanEnqueue ==
    /\ scan # None /\ scan.phase = "enqueue"
    /\ offered' = IF scan.news THEN offered \cup {k \in Alerts : row[k] = "PENDING"} ELSE offered
    /\ scan' = None
    /\ UNCHANGED <<now, firing, active, row, worker, sent, lost, told>>

\* A transition of the proposal enqueues its notice, in its own transaction.
Enqueue(n) ==
    /\ offered' = offered \cup {n}
    /\ UNCHANGED <<now, firing, active, scan, row, worker, sent, lost, told>>

-----------------------------------------------------------------------------
(* Delivery.                                                               *)

Taken(i) == \E w \in Workers : worker[w] # None /\ worker[w].item = i
Started(w, i) == worker' = [worker EXCEPT ![w] = [item |-> i, phase |-> "send", outcome |-> None]]
Finish(w) == worker' = [worker EXCEPT ![w] = None]

MayAnnounce(k) == row[k] = "PENDING"

\* _deliver_alert reads the row; without a bot it marks it and is done.
TakeAlert(w, k) ==
    /\ worker[w] = None /\ k \in offered \cap Alerts /\ ~Taken(k)
    /\ \/ /\ MayAnnounce(k) /\ Started(w, k)
          /\ UNCHANGED <<row, offered>>
       \/ /\ row' = IF row[k] = "PENDING" THEN [row EXCEPT ![k] = "SUPPRESSED"] ELSE row
          /\ offered' = offered \ {k}
          /\ UNCHANGED worker
    /\ UNCHANGED <<now, firing, active, scan, sent, lost, told>>

\* Mutant: the row is looked for, not claimed.
ClaimsUnlessSent(n) == row[n] # "SENT"
Claims(n) == row[n] = "ABSENT"

\* deliver: the unique dedupe_key settles who sends.
TakeNotice(w, n) ==
    /\ worker[w] = None /\ n \in offered \cap Notices /\ ~Taken(n)
    /\ IF Claims(n)
       THEN /\ row' = [row EXCEPT ![n] = "PENDING"]
            /\ worker' = [worker EXCEPT ![w] = [item |-> n, phase |-> "check", outcome |-> None]]
            /\ UNCHANGED offered
       ELSE offered' = offered \ {n} /\ UNCHANGED <<row, worker>>
    /\ UNCHANGED <<now, firing, active, scan, sent, lost, told>>

In(w, phase) == worker[w] # None /\ worker[w].phase = phase
Marks(w, status) == worker' = [worker EXCEPT ![w].phase = "mark", ![w].outcome = status]

\* Mutant: an opening that was claimed counts as announced.
ClaimedBefore(n) == row[<<n[1], "opening">>] # "ABSENT"
WasAnnounced(n) == row[<<n[1], "opening">>] = "SENT"

\* The bot, a destination and the operator's preference must all be there; and a
\* follow-up needs its opening.
Check(w) ==
    /\ In(w, "check")
    /\ LET n == worker[w].item IN
          \/ Marks(w, "SUPPRESSED")
          \/ /\ n[2] = "followup" => WasAnnounced(n)
             /\ worker' = [worker EXCEPT ![w].phase = "send"]
    /\ UNCHANGED <<now, firing, active, scan, row, offered, sent, lost, told>>

\* Telegram may have delivered what it reports as an error.
Send(w) ==
    /\ In(w, "send")
    /\ LET i == worker[w].item IN
          \E arrived \in BOOLEAN, status \in {"SENT", "FAILED"} :
             /\ status = "SENT" => arrived
             /\ sent' = IF arrived THEN [sent EXCEPT ![i] = @ + 1] ELSE sent
             /\ told' = IF arrived /\ i \in Alerts THEN [told EXCEPT ![i[1]] = i[2]] ELSE told
             /\ Marks(w, status)
    /\ UNCHANGED <<now, firing, active, scan, row, offered, lost>>

Mark(w) ==
    /\ In(w, "mark")
    /\ row' = [row EXCEPT ![worker[w].item] = worker[w].outcome]
    /\ offered' = offered \ {worker[w].item}
    /\ Finish(w)
    /\ UNCHANGED <<now, firing, active, scan, sent, lost, told>>

-----------------------------------------------------------------------------

Losses == MapThenSumSet(LAMBDA i : lost[i], Items)

Die(w) ==
    /\ worker[w] # None /\ Losses < MaxLosses
    /\ lost' = [lost EXCEPT ![worker[w].item] = @ + 1]
    /\ offered' = offered \ {worker[w].item}
    /\ Finish(w)
    /\ UNCHANGED <<now, firing, active, scan, row, sent, told>>

\* What a condition reads changes.
Flip(c) ==
    /\ firing' = IF c \in firing THEN firing \ {c} ELSE firing \cup {c}
    /\ UNCHANGED <<now, active, scan, row, offered, worker, sent, lost, told>>

\* A scan is over before the next minute's.
Tick ==
    /\ now < MaxTime /\ scan = None
    /\ now' = now + 1
    /\ UNCHANGED <<firing, active, scan, row, offered, worker, sent, lost, told>>

Deliver(w) == Check(w) \/ Send(w) \/ Mark(w)

Next ==
    \/ ScanRecord \/ ScanStore \/ ScanEnqueue \/ Tick
    \/ \E c \in Conditions : Flip(c)
    \/ \E n \in Notices : Enqueue(n)
    \/ \E w \in Workers :
          \/ Deliver(w) \/ Die(w)
          \/ \E k \in Alerts : TakeAlert(w, k)
          \/ \E n \in Notices : TakeNotice(w, n)

Spec == Init /\ [][Next]_vars

-----------------------------------------------------------------------------

Tasks == [item : Items, phase : {"check", "send", "mark"},
          outcome : {None, "SENT", "FAILED", "SUPPRESSED"}]

TypeOK ==
    /\ now \in 0 .. MaxTime
    /\ firing \in SUBSET Conditions /\ active \in SUBSET Conditions
    /\ scan = None \/ scan \in [phase : {"store", "enqueue"}, found : SUBSET Conditions, news : BOOLEAN]
    /\ row \in [Items -> {"ABSENT", "PENDING", "SENT", "FAILED", "SUPPRESSED"}]
    /\ offered \in SUBSET Items
    /\ worker \in [Workers -> {None} \cup Tasks]

\* Whatever is enqueued twice, and whichever worker dies between a send and its
\* record: a notice is sent at most once, an alert once more for every death
\* (only its row is read, not claimed), and nobody hears of the end of a proposal
\* he was not told of.
ToldOnce ==
    /\ \A n \in Notices : sent[n] <= 1
    /\ \A k \in Alerts : sent[k] <= 1 + lost[k]
    /\ \A p \in Proposals : sent[<<p, "followup">>] > 0 => sent[<<p, "opening">>] > 0

\* "The last thing in the channel is the current state rather than the worst
\* state" (module docstring of alerts.py), once a scan is over and all of its
\* messages have arrived.
ChannelIsCurrent ==
    scan = None /\ offered = {} /\ (\A k \in Alerts : row[k] \in {"ABSENT", "SENT"}) =>
        \A c \in Conditions : told[c] = IF c \in active THEN "fired" ELSE "resolved"
=============================================================================
