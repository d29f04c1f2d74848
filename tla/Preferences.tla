----------------------------- MODULE Preferences -----------------------------
(***************************************************************************)
(* Which notices are delivered: the switches of telegram/preferences.py    *)
(* with their cache, the pages that save them, and the two that ask: the   *)
(* enqueuing before it writes a job, and the delivery of the notice.       *)
(*                                                                         *)
(* A coroutine runs until it awaits: what is between two awaits is one     *)
(* action.  Where it awaits it may also end, by an error of the database   *)
(* or because it is cancelled.                                             *)
(***************************************************************************)
EXTENDS Integers, Sequences, FiniteSetsExt, Functions

CONSTANTS
    Categories, Locked,     \* the switches; LOCKED_CATEGORIES
    Default,                \* DEFAULT_PREFERENCES
    Savers, Readers,        \* requests that save; tasks that ask
    Changes,                \* the partial updates a page sends
    TTL, LastTick,          \* _CACHE_TTL_SECONDS; bound of the clock
    MaxSaves,               \* bound
    None

VARIABLES
    now,
    row,        \* the row's switches, None before the first save
    cache,      \* [of, at]: the snapshot that is served and when it was read, or None
    queue,      \* who holds the lock, then who awaits it
    reading,    \* the snapshot its holder has read, None before it has
    saver,      \* each saver: [step, changes, merged], None when idle
    asker,      \* each reader: "ask", "lock", or "refresh"; None when idle
    saves,      \* how many saves were begun
    versions,       \* history: the switches as the row has shown them, one after the other
    wrote,      \* history: which of them each saver has written
    saved       \* history: the latest of them whose update was answered

history == <<versions, wrote, saved>>
vars == <<now, row, cache, queue, reading, saver, asker, saves, history>>

\* _from_row: what is not stored is the default, and a locked category is on.
FromRow(stored) ==
    [c \in Categories |-> c \in Locked \/ IF stored = None THEN Default[c] ELSE stored[c]]

Init ==
    /\ now = 0 /\ row = None /\ cache = None /\ queue = <<>> /\ reading = None
    /\ saver = [s \in Savers |-> None] /\ asker = [r \in Readers |-> None]
    /\ saves = 0 /\ versions = <<FromRow(None)>> /\ wrote = [s \in Savers |-> 1] /\ saved = 1

Tick ==
    /\ now < LastTick /\ now' = now + 1
    /\ UNCHANGED <<row, cache, queue, reading, saver, asker, saves, history>>

-----------------------------------------------------------------------------
(* snapshot().                                                             *)

Cached == cache # None /\ now - cache.at < TTL

Await(who) == queue' = Append(queue, who)
Holds(who) == queue # <<>> /\ Head(queue) = who
Release == queue' = Tail(queue) /\ reading' = None

\* Under the lock: the row is read, unless a refresh nobody asked for is needless.
ReadRow(who) ==
    /\ Holds(who) /\ reading = None /\ (who \in Readers /\ asker[who] = "lock" => ~Cached)
    /\ reading' = FromRow(row)
    /\ UNCHANGED <<now, row, cache, queue, saver, asker, saves, history>>

\* The read raises, or whoever awaits the lock or the row is cancelled: the lock goes to
\* the next, and the cache stays what it was.
Leaves(who) ==
    \E k \in 1 .. Len(queue) :
        /\ queue[k] = who
        /\ queue' = SubSeq(queue, 1, k - 1) \o SubSeq(queue, k + 1, Len(queue))
        /\ reading' = IF k = 1 THEN None ELSE reading

\* What was read is served from now on.
Cache(who) ==
    /\ Holds(who) /\ reading # None
    /\ cache' = [of |-> reading, at |-> now] /\ Release

-----------------------------------------------------------------------------
(* A category is asked for, before a job is written and before a notice    *)
(* goes out; a page that has saved shows the switches read anew.           *)

Tell(r) == asker' = [asker EXCEPT ![r] = None]

Ask(r) ==
    /\ asker[r] = None /\ asker' = [asker EXCEPT ![r] = "ask"]
    /\ UNCHANGED <<now, row, cache, queue, reading, saver, saves, history>>

Render(r) ==
    /\ asker[r] = None /\ asker' = [asker EXCEPT ![r] = "refresh"] /\ Await(r)
    /\ UNCHANGED <<now, row, cache, reading, saver, saves, history>>

Enabled(r) ==
    /\ asker[r] = "ask"
    /\ IF Cached THEN Tell(r) /\ UNCHANGED queue
       ELSE Await(r) /\ asker' = [asker EXCEPT ![r] = "lock"]
    /\ UNCHANGED <<now, row, cache, reading, saver, saves, history>>

\* Another has read while this one waited.
Spared(r) ==
    /\ Holds(r) /\ reading = None /\ asker[r] = "lock" /\ Cached
    /\ Tell(r) /\ Release
    /\ UNCHANGED <<now, row, cache, saver, saves, history>>

Told(r) ==
    /\ r \in Readers /\ Cache(r) /\ Tell(r)
    /\ UNCHANGED <<now, row, saver, saves, history>>

\* Whoever asked is raised upon.
Untold(r) ==
    /\ r \in Readers /\ Leaves(r) /\ Tell(r)
    /\ UNCHANGED <<now, row, cache, saver, saves, history>>

-----------------------------------------------------------------------------
(* A page saves.                                                           *)

Step(s, step) == saver' = [saver EXCEPT ![s].step = step]

Quit(s) == saver' = [saver EXCEPT ![s] = None]

Save(s) ==
    /\ saver[s] = None /\ saves < MaxSaves /\ saves' = saves + 1
    /\ \E c \in Changes :
           saver' = [saver EXCEPT ![s] = [step |-> "current", changes |-> c, merged |-> None]]
    /\ Await(s)
    /\ UNCHANGED <<now, row, cache, reading, asker, history>>

\* The switches as they are, with the changes and the locked ones on.
Merged(current, changes) ==
    [c \in Categories |-> c \in Locked \/ IF c \in DOMAIN changes THEN changes[c] ELSE current[c]]

Current(s) ==
    /\ s \in Savers /\ saver[s] # None /\ saver[s].step = "current" /\ Cache(s)
    /\ saver' = [saver EXCEPT ![s].step = "write",
                              ![s].merged = Merged(reading, saver[s].changes)]
    /\ UNCHANGED <<now, row, asker, saves, history>>

\* The row is replaced as a whole.
Write(s) ==
    /\ saver[s] # None /\ saver[s].step = "write"
    /\ row' = saver[s].merged /\ Step(s, "forget")
    /\ versions' = Append(versions, FromRow(row'))
    /\ wrote' = [wrote EXCEPT ![s] = Len(versions) + 1]
    /\ UNCHANGED <<now, cache, queue, reading, asker, saves, saved>>

\* The transaction fails, before its commit or in the answer to it, and so does the
\* request.
Refuse(s) ==
    /\ saver[s] # None /\ saver[s].step \in {"write", "forget"} /\ Quit(s)
    /\ UNCHANGED <<now, row, cache, queue, reading, asker, saves, history>>

\* The commit has returned: the cache is forgotten and the row is read again.
Forget(s) ==
    /\ saver[s] # None /\ saver[s].step = "forget"
    /\ cache' = None /\ Step(s, "refresh") /\ Await(s)
    /\ UNCHANGED <<now, row, reading, asker, saves, history>>

\* The update returns to whoever asked for it.
Answered(s) ==
    /\ Quit(s) /\ saved' = IF saved < wrote[s] THEN wrote[s] ELSE saved
    /\ UNCHANGED <<now, row, asker, saves, versions, wrote>>

\* Without the second read under the lock.
UnreadAgain(s) ==
    /\ s \in Savers /\ saver[s] # None /\ saver[s].step = "refresh"
    /\ queue' = SelectSeq(queue, LAMBDA q : q # s)
    /\ reading' = IF Holds(s) THEN None ELSE reading
    /\ Answered(s) /\ UNCHANGED cache

Refreshed(s) ==
    /\ s \in Savers /\ saver[s] # None /\ saver[s].step = "refresh" /\ Cache(s)
    /\ Answered(s)

\* One of the two reads fails, and so does the request, after the second one with the
\* row written and the cache left to those who have filled it since.
Fails(s) ==
    /\ s \in Savers /\ Leaves(s) /\ Quit(s)
    /\ UNCHANGED <<now, row, cache, asker, saves, history>>

Next ==
    \/ Tick
    \/ \E w \in Savers \cup Readers : ReadRow(w)
    \/ \E r \in Readers : Ask(r) \/ Render(r) \/ Enabled(r) \/ Spared(r) \/ Told(r) \/ Untold(r)
    \/ \E s \in Savers :
           \/ Save(s) \/ Current(s) \/ Write(s) \/ Forget(s) \/ Refreshed(s)
           \/ Refuse(s) \/ Fails(s)

Spec == Init /\ [][Next]_vars

-----------------------------------------------------------------------------
(* Properties.                                                             *)

\* update() returns once it has forgotten the cache and read again under the lock: a
\* reader that read the row before the save cannot put it back.  What is served is
\* never older than a save that was answered, whatever other requests fail.
SavedIsServed ==
    cache # None => \E n \in saved .. Len(versions) : cache.of = versions[n]

\* When no save is on its way, what is served is what is stored.  A save that fails
\* once its row is written leaves the cache to those who read the row before it, until
\* it is _CACHE_TTL_SECONDS old.
StoredIsServed ==
    cache # None /\ (\A s \in Savers : saver[s] = None \/ saver[s].step \in {"current", "write"})
        => cache.of = FromRow(row)

\* "Apply a partial update": a save touches the switches it names.  What it leaves
\* in the row of another switch is what the row said.
OthersUntouched ==
    [][\A s \in Savers :
           saver[s] # None /\ saver[s].step = "write" /\ saver'[s] # None
               /\ saver'[s].step = "forget"
           => \A c \in Categories \ DOMAIN saver[s].changes : row'[c] = FromRow(row)[c]]_vars

=============================================================================
