----------------------------- MODULE Completions -----------------------------
(***************************************************************************)
(* One model call after the other: llm/openai_compat.py, responses_api.py  *)
(* and fallback.py under the classifier, intelligence/research_transport.py*)
(* under a research role, and the llm_calls rows they leave (telemetry.py, *)
(* intelligence/service.py, record_call of research_service.py).           *)
(*                                                                         *)
(* A call goes to the primary endpoint and, when that one is down or       *)
(* saturated, to the fallback.  Every attempt that leaves may be billed;   *)
(* the budget is the sum of the rows.  Tokens are prompt tokens: output    *)
(* and prices are left out.                                                *)
(***************************************************************************)
EXTENDS Integers, Sequences, FiniteSetsExt

CONSTANTS
    Profile,        \* tier :> [cache, style, structured, keyword, capacity], see profiles.py
    Requests,       \* [kind, schema, keyword]: what callers ask for
    Usages,         \* [prompt, hit, miss]: what endpoints report; None is absent
    Attempts,       \* max_attempts of the classifier's client
    Cap, MaxCalls, MaxFaults,   \* the budget; bounds: calls, failed writes
    None

Tiers == {"primary", "fallback"}

VARIABLES
    call,       \* the running call, None between two
    sent,       \* every attempt: [kind, billed]
    rows,       \* llm_calls: [of, tokens], tokens None without a usage
    lost,       \* attempts whose row could not be written
    calls, faults

vars == <<call, sent, rows, lost, calls, faults>>

\* What a call and its row may be.
Calls == [request : Requests, tier : Tiers, attempt : Nat,
          phase : {"check", "send", "answered", "unrecorded"},
          answer : {"good", "invalid", "unusable", "capacity", "garbled", "limited", "down",
                    "refused", "transport", None},
          usage : Usages \cup {None}]
Records == [of : Nat, tokens : Nat \cup {None}]

Init ==
    /\ call = None /\ sent = <<>> /\ rows = {} /\ lost = {} /\ calls = 0 /\ faults = 0

-----------------------------------------------------------------------------
(* Usage, in the dialect of an endpoint.                                   *)

OrZero(n) == IF n = None THEN 0 ELSE n
Least(a, b) == IF a <= b THEN a ELSE b

\* parse_usage and parse_responses_usage: cached and uncached prompt tokens.
Split(p, u) ==
    LET hit == Least(u.prompt, OrZero(u.hit))
        rest == u.prompt - hit
    IN  CASE p.cache = "deepseek_split" -> [hit |-> hit, miss |-> IF u.miss = None THEN rest ELSE u.miss]
          [] p.cache = "openai_details" /\ p.style = "responses" -> [hit |-> hit, miss |-> rest]
          [] p.cache = "openai_details" /\ p.style = "chat" ->
                [hit |-> hit, miss |-> IF hit > 0 THEN rest ELSE 0]
          [] p.cache = "none" -> [hit |-> 0, miss |-> 0]

\* billable_cache_miss, and what estimate charges for.
Uncached(u, s) == IF s.hit + s.miss > 0 THEN s.miss ELSE u.prompt
Charged(p, u) == Split(p, u).hit + Uncached(u, Split(p, u))

\* validate_usage: the split the endpoint reports must add up.
AddsUp(p, u) == LET s == Split(p, u) IN s.hit + s.miss > 0 => s.hit + s.miss = u.prompt

-----------------------------------------------------------------------------
(* What an endpoint answers.                                               *)

Read == {"good", "invalid", "unusable", "capacity"}     \* a completion with its usage
Billed == Read \cup {"garbled"}
Unbilled == {"limited", "down", "refused"}
Answers == Billed \cup Unbilled \cup {"transport"}      \* after a transport failure either

\* FALLBACK_ERRORS: the endpoint cannot serve now.
Unserved == {"limited", "down", "transport", "capacity"}

\* JSON an endpoint cannot be asked for: raised before anything is sent.
Refused(p, r) ==
    IF r.kind = "research" THEN r.schema /\ p.style = "responses" /\ p.structured # "json_schema"
    ELSE \/ p.structured = "json_schema" /\ ~r.schema
         \/ p.structured = "json_object" /\ p.keyword /\ ~r.keyword

Spent == FoldSet(LAMBDA r, s : s + OrZero(r.tokens), 0, {r \in rows : r.tokens # None})
Row(tokens) == [of |-> Len(sent), tokens |-> tokens]
Write(row) == rows' = rows \cup {row}
P == Profile[call.tier]
-----------------------------------------------------------------------------

Begin(r) ==
    /\ call = None /\ calls < MaxCalls /\ calls' = calls + 1
    /\ call' = [request |-> r, tier |-> "primary", attempt |-> 1, phase |-> "check",
                answer |-> None, usage |-> None]
    /\ UNCHANGED <<sent, rows, lost, faults>>

Done == call' = None

\* The guard before a classification; check_budget before every attempt of a role.
Check ==
    /\ call # None /\ call.phase = "check"
    /\ call' = IF Spent < Cap /\ ~Refused(P, call.request)
               THEN [call EXCEPT !.phase = "send"] ELSE None
    /\ UNCHANGED <<sent, rows, lost, calls, faults>>

Send ==
    /\ call # None /\ call.phase = "send"
    /\ \E a \in Answers, u \in Usages, paid \in BOOLEAN :
        /\ a = "capacity" => P.capacity
        /\ call.request.kind = "classify" => AddsUp(P, u)  \* taken as it is reported there
        /\ a \in Billed => paid
        /\ a \in Unbilled => ~paid
        /\ call' = [call EXCEPT !.phase = "answered", !.answer = a, !.usage = u]
        /\ sent' = Append(sent, [kind |-> call.request.kind,
                                billed |-> IF paid THEN u.prompt ELSE 0])
    /\ UNCHANGED <<rows, lost, calls, faults>>

Answered(kind) == call # None /\ call.phase = "answered" /\ call.request.kind = kind

\* Mutant: the budget is asked once for a call.
AgainUnchecked(limit, phase) ==
    IF call.attempt < limit THEN [call EXCEPT !.phase = "send", !.attempt = @ + 1]
    ELSE IF call.tier = "primary" THEN [call EXCEPT !.phase = "send", !.tier = "fallback", !.attempt = 1]
    ELSE None

\* Past the last attempt: the fallback, which starts its own, or the error.
Again(limit, phase) ==
    IF call.attempt < limit THEN [call EXCEPT !.phase = phase, !.attempt = @ + 1]
    ELSE IF call.tier = "primary" THEN [call EXCEPT !.phase = phase, !.tier = "fallback", !.attempt = 1]
    ELSE None

-----------------------------------------------------------------------------
(* A classification: one row for the call.                                 *)

ClassifyUnserved ==
    /\ Answered("classify") /\ call.answer \in Unserved
    /\ call' = Again(Attempts, "send")
    /\ IF call' = None THEN Write(Row(None)) ELSE UNCHANGED rows
    /\ UNCHANGED <<sent, lost, calls, faults>>

\* An answer that is refused, cut, empty or against the schema: from_failure has no usage.
ClassifyFailed ==
    /\ Answered("classify") /\ call.answer \notin Unserved \cup {"good"}
    /\ Done /\ Write(Row(None))
    /\ UNCHANGED <<sent, lost, calls, faults>>

ClassifyGood ==
    /\ Answered("classify") /\ call.answer = "good"
    /\ Done /\ Write(Row(Charged(P, call.usage)))
    /\ UNCHANGED <<sent, lost, calls, faults>>

\* The job times out or the process stops.
ClassifyCancelled ==
    /\ Answered("classify") /\ Done
    /\ UNCHANGED <<sent, rows, lost, calls, faults>>

-----------------------------------------------------------------------------
(* A research role: one row for every attempt.                             *)

\* What the transport makes of the answer; unreadable usage is a malformed response.
Understood == call.answer \in Read /\ AddsUp(P, call.usage)
Cost == IF Understood THEN Charged(P, call.usage) ELSE None
Good == call.answer = "good" /\ Understood

RoleAnswered ==
    /\ Answered("research") /\ Good
    /\ Done /\ Write(Row(Cost))
    /\ UNCHANGED <<sent, lost, calls, faults>>

\* record_call raises: the answer is given up and its row tried once more.
RoleUnrecorded ==
    /\ Answered("research") /\ Good /\ faults < MaxFaults
    /\ call' = [call EXCEPT !.phase = "unrecorded"] /\ faults' = faults + 1
    /\ UNCHANGED <<sent, rows, lost, calls>>

Failing == (Answered("research") /\ ~Good) \/ (call # None /\ call.phase = "unrecorded")

\* Retried once at an endpoint that had no capacity or broke the connection.
Retryable == call.phase = "answered"
    /\ (call.answer = "transport" \/ (call.answer = "capacity" /\ Understood))
\* safe_research_error keeps the kind of the error, which is what the fallback looks at.
FallsBack == call.phase = "answered" /\ call.answer \in Unserved
    /\ (call.answer = "capacity" => Understood)

RoleFailed ==
    /\ Failing
    /\ Write(Row(Cost))
    /\ call' = IF Retryable \/ FallsBack
               THEN Again(IF Retryable THEN 2 ELSE call.attempt, "check") ELSE None
    /\ UNCHANGED <<sent, lost, calls, faults>>

\* Its row cannot be written, or the timeout fires while it is.
RoleLost ==
    /\ Failing /\ faults < MaxFaults /\ faults' = faults + 1
    /\ Done /\ lost' = lost \cup {Len(sent)}
    /\ UNCHANGED <<sent, rows, calls>>

\* Mutant: only an answer or an error leaves a row.
RoleCancelledSilently ==
    /\ Answered("research") /\ Done
    /\ UNCHANGED <<sent, rows, lost, calls, faults>>

\* Cancelled before the answer was read: what it cost is not known.
RoleCancelled ==
    /\ Answered("research") /\ Done
    /\ Write(Row(None))
    /\ UNCHANGED <<sent, lost, calls, faults>>

Next ==
    \/ \E r \in Requests : Begin(r)
    \/ Check \/ Send
    \/ ClassifyUnserved \/ ClassifyFailed \/ ClassifyGood \/ ClassifyCancelled
    \/ RoleAnswered \/ RoleUnrecorded \/ RoleFailed \/ RoleLost \/ RoleCancelled

Spec == Init /\ [][Next]_vars

-----------------------------------------------------------------------------

HasRow(i) == \E r \in rows : r.of = i
Over(i) == call = None \/ i < Len(sent)

\* Once a role has its answer or goes on, every attempt it made is a row, however it ended:
\* answered, failed, cancelled, or answered when the row could not be written at first
\* (research_transport.py complete: "every attempt is accounted for separately").
AttemptsRecorded == \A i \in DOMAIN sent :
    sent[i].kind = "research" /\ Over(i) => HasRow(i) \/ i \in lost

\* What the rows know of has cost at most one attempt beyond the cap: every attempt of a
\* role asks the budget first, at the fallback too, and a row has what was billed.
SpendStopsAtCap ==
    LET known == {i \in DOMAIN sent : \E r \in rows : r.of = i /\ r.tokens # None}
    IN  FoldSet(LAMBDA i, s : s + sent[i].billed, 0, known) < Cap + Max({u.prompt : u \in Usages})

\* openai_compat.py complete: "every attempt is recorded separately in llm_calls".
EveryAttemptRecorded == \A i \in DOMAIN sent : Over(i) => HasRow(i) \/ i \in lost
=============================================================================
