--------------------------- MODULE MCServicesLive ---------------------------
(***************************************************************************)
(* The queue, and what must come to an end by it or beside it: events,     *)
(* research runs, and the bot that must come back.  As in MCServices, an   *)
(* initial state chooses the part that runs, and fairness is that part's.  *)
(***************************************************************************)
EXTENDS MCJobQueue

CONSTANTS Parts, d1, d2, f1, i1, w1

VARIABLES part,
    event, linked, impacts, classifying, resolving, feed, reader, awake, naps, deaths,
    run, config, job, analyst, announced, interrupted, allowed, pauses, losses,
    network, token, outages, supervisor, backoff, wait, application, bound, failures, fatal,
    stopping, commands

events == <<event, linked, impacts, classifying, resolving, feed, reader, awake, naps, deaths>>
research == <<run, config, job, analyst, announced, interrupted, allowed, pauses, losses>>
bot == <<network, token, outages, supervisor, backoff, wait, application, bound, failures,
    fatal, stopping, commands>>

E == INSTANCE Events WITH
    Docs <- {d1, d2}, Feeds <- {f1}, Headline <- [d \in {d1, d2} |-> 1],
    Stale <- 1, CallLimit <- 0, MaxLosses <- 1, MaxPauses <- 1,
    job <- classifying, worker <- reader, allowed <- awake, pauses <- naps, losses <- deaths

R == INSTANCE Research WITH
    Workers <- {w1}, Impacts <- {i1}, MaxDeploys <- 1, MaxReruns <- 0, MaxLosses <- 1,
    MaxPauses <- 1, Lease <- 1, worker <- analyst

T == INSTANCE TelegramRuntime WITH
    DownAfter <- 3, MaxBackoff <- 4, MaxOutages <- 4, MaxFailures <- 4, task <- supervisor

\* The bot of another part is over: its supervisor has ended.
Over ==
    /\ network = TRUE /\ token = TRUE /\ outages = 0 /\ supervisor = "done" /\ backoff = 1 /\ wait = 0
    /\ application = FALSE /\ bound = FALSE /\ failures = 0 /\ fatal = TRUE /\ stopping = FALSE
    /\ commands = {}

Start ==
    /\ part \in Parts /\ Init /\ E!Init /\ R!Init
    /\ IF part = "bot" THEN T!Init ELSE Over

Step ==
    /\ UNCHANGED part
    /\ \/ part = "jobs" /\ Next /\ UNCHANGED <<events, research, bot>>
       \/ part = "events" /\ E!Next /\ UNCHANGED <<vars, research, bot>>
       \/ part = "research" /\ R!Next /\ UNCHANGED <<vars, events, bot>>
       \/ part = "bot" /\ T!Next /\ UNCHANGED <<vars, events, research>>

Explored ==
    /\ Start /\ [][Step]_<<part, vars, events, research, bot>>
    /\ \/ part = "jobs" /\ Fairness
       \/ part = "events" /\ E!Fairness
       \/ part = "research" /\ R!Fairness
       \/ part = "bot" /\ T!Fairness

-----------------------------------------------------------------------------
(* The properties of the queue come with JobQueue.                         *)

EveryEventSettles == E!EveryEventSettles
EveryRunEnds == R!EveryRunEnds
BotReturns == T!BotReturns
=============================================================================
