--------------------------------- MODULE Health ---------------------------------
(***************************************************************************)
(* health.py: the listener of GET /health.  Every connection has a handler *)
(* that is cancelled after a timeout; the handlers share a snapshot, which *)
(* is good for a while and taken by one of them at a time with two queries.*)
(* run_proxy closes the listener at its end and waits for the handlers.    *)
(*                                                                         *)
(* The rows of the table events stand for the whole snapshot.  They are    *)
(* counted on the one connection that all of the proxy writes on: inside   *)
(* its transaction, with rows that may still be rolled back, and with what *)
(* others had committed when the transaction first read.                   *)
(***************************************************************************)
EXTENDS Integers, Sequences, FiniteSetsExt

CONSTANTS
    Connections,
    Timeout,        \* _REQUEST_TIMEOUT_S
    Ttl,            \* _SNAPSHOT_TTL_S
    MaxTime,        \* bound: the time at which the model ends
    MaxRows         \* bound: rows that are written meanwhile

ASSUME TimesAssumption == Timeout \in Nat \ {0} /\ Ttl \in Nat
ASSUME ConnectionsAssumption == "free" \notin Connections
ASSUME BoundsAssumption == MaxTime \in Nat /\ MaxRows \in Nat

VARIABLES
    now,
    table, made,        \* rows of events in the file, and how many there ever were
    within, tx,         \* the transaction of the proxy, and its rows
    pinned, view,       \* whether it has read, and the file as it reads it
    server,             \* the listener
    lock,               \* HealthState._lock: "free" or a connection
    cache, cachedAt,    \* HealthState._cache and ._cache_ts, None without a cache
    pc, deadline,       \* by connection: where its handler stands, and its timer
    startedAt, counted, \* locals of snapshot()
    own, gone,          \* history: rows the proxy committed; rows undone or deleted
    past, shown         \* history: own rows at each time, and the last answer with
                        \* status 200: the rows it counts, and to whom

db      == <<table, made, within, tx, pinned, view, own, gone>>
state   == <<lock, cache, cachedAt>>
handler == <<pc, deadline, startedAt, counted>>
history == <<past, shown>>
vars == <<now, db, server, state, handler, history>>

None == -1

\* What a query on the proxy's connection counts.
Visible == (IF pinned THEN view ELSE table) \cup tx

Init ==
    /\ now = 0 /\ server = "listening"
    /\ table = {} /\ made = 0 /\ within = "none" /\ tx = {}
    /\ pinned = FALSE /\ view = {} /\ own = {} /\ gone = {}
    /\ lock = "free" /\ cache = {} /\ cachedAt = None
    /\ pc = [c \in Connections |-> "none"]
    /\ deadline = [c \in Connections |-> 0]
    /\ startedAt = [c \in Connections |-> 0] /\ counted = [c \in Connections |-> {}]
    /\ past = <<{}>> /\ shown = [to |-> "nobody", rows |-> {}]

-------------------------------------------------------------------------------
(* The database, which the proxy writes while it answers.                  *)

DbOnly == UNCHANGED <<now, server, state, handler, history>>

\* A query in an open transaction fixes what the transaction sees of the file.
Reads ==
    /\ pinned' = (within # "none")
    /\ view' = IF within # "none" /\ ~pinned THEN table ELSE view
    /\ UNCHANGED <<table, made, within, tx, own, gone>>

\* The cache lookups of the pumps, and queries whose handler was cancelled.
Lookup == Reads /\ DbOnly

\* A row, or only something else, is written: not by a transaction that sees less
\* than was committed meanwhile.
Insert ==
    /\ ~pinned \/ view = table
    /\ within' = "writing"
    /\ \/ /\ made < MaxRows
          /\ made' = made + 1 /\ tx' = tx \cup {made'}
       \/ UNCHANGED <<made, tx>>
    /\ UNCHANGED <<table, pinned, view, own, gone>> /\ DbOnly

\* A write that fails leaves the transaction that sqlite3 began for it.
InsertFails ==
    /\ within = "none" /\ within' = "begun"
    /\ UNCHANGED <<table, made, tx, pinned, view, own, gone>> /\ DbOnly

\* The transaction ends, and with it its view of the file.
EndsTx == within' = "none" /\ tx' = {} /\ pinned' = FALSE /\ view' = {}

Commit ==
    /\ within # "none" /\ EndsTx
    /\ table' = table \cup tx /\ own' = own \cup tx
    /\ UNCHANGED <<made, gone>> /\ DbOnly

\* SQLite gives up the transaction: disk full, or an I/O error.
RollsBack ==
    /\ within # "none" /\ EndsTx
    /\ gone' = gone \cup tx
    /\ UNCHANGED <<table, made, own>> /\ DbOnly

\* Another proxy commits a row, or the user deletes some, as the runbook says.
OthersCommit ==
    /\ within # "writing" /\ made < MaxRows
    /\ made' = made + 1 /\ table' = table \cup {made'}
    /\ UNCHANGED <<within, tx, pinned, view, own, gone>> /\ DbOnly

Delete(r) ==
    /\ within # "writing" /\ r \in table
    /\ table' = table \ {r} /\ gone' = gone \cup {r}
    /\ UNCHANGED <<made, within, tx, pinned, view, own>> /\ DbOnly

Database ==
    \/ Lookup \/ Insert \/ InsertFails \/ Commit \/ RollsBack \/ OthersCommit
    \/ \E r \in table : Delete(r)

-------------------------------------------------------------------------------
(* One connection.                                                         *)

Connect(c) ==
    /\ server = "listening" /\ pc[c] = "none" /\ now + Timeout <= MaxTime
    /\ pc' = [pc EXCEPT ![c] = "request"]
    /\ deadline' = [deadline EXCEPT ![c] = now + Timeout]
    /\ UNCHANGED <<now, db, server, state, startedAt, counted, history>>

\* The handler closes the connection; the lock is released.
End(c) ==
    /\ pc' = [pc EXCEPT ![c] = "closed"]
    /\ lock' = IF lock = c THEN "free" ELSE lock
    /\ deadline' = [deadline EXCEPT ![c] = 0]
    /\ startedAt' = [startedAt EXCEPT ![c] = 0]
    /\ counted' = [counted EXCEPT ![c] = {}]
    /\ UNCHANGED <<now, server, past>>

Respond(c, rows) == End(c) /\ shown' = [to |-> c, rows |-> rows]

\* An answer with any other status.
Refuse(c) == End(c) /\ UNCHANGED <<db, cache, cachedAt, shown>>

\* Slip: the snapshot is taken without the lock.
RequestUnlocked(c) ==
    /\ pc[c] = "request"
    /\ pc' = [pc EXCEPT ![c] = "count"]
    /\ startedAt' = [startedAt EXCEPT ![c] = now]
    /\ UNCHANGED <<now, db, server, state, deadline, counted, history>>

\* The peer sends its request.
Request(c) ==
    /\ pc[c] = "request"
    /\ pc' = [pc EXCEPT ![c] = "lock"]
    /\ UNCHANGED <<now, db, server, state, deadline, startedAt, counted,
                   history>>

\* Another path or method, too much, or nothing.
Reject(c) ==
    /\ pc[c] = "request"
    /\ Refuse(c)

Fresh == cachedAt # None /\ now - cachedAt < Ttl

FromCache(c) ==
    /\ pc[c] = "lock" /\ lock = "free" /\ Fresh
    /\ Respond(c, cache)
    /\ UNCHANGED <<db, cache, cachedAt>>

Acquire(c) ==
    /\ pc[c] = "lock" /\ lock = "free" /\ ~Fresh
    /\ lock' = c
    /\ pc' = [pc EXCEPT ![c] = "count"]
    /\ startedAt' = [startedAt EXCEPT ![c] = now]
    /\ UNCHANGED <<now, db, server, cache, cachedAt, deadline, counted,
                   history>>

\* SELECT COUNT(*); then the last event is looked up.
Count(c) ==
    /\ pc[c] = "count"
    /\ Reads
    /\ counted' = [counted EXCEPT ![c] = Visible]
    /\ pc' = [pc EXCEPT ![c] = "last"]
    /\ UNCHANGED <<now, server, state, deadline, startedAt, history>>

\* Slip: the snapshot counts as new when it is complete.
SnapshotStampedLate(c) ==
    /\ pc[c] = "last" /\ Reads
    /\ cache' = counted[c] /\ cachedAt' = now
    /\ Respond(c, counted[c])

\* The snapshot is as old as its first query.
Snapshot(c) ==
    /\ pc[c] = "last" /\ Reads
    /\ cache' = counted[c] /\ cachedAt' = startedAt[c]
    /\ Respond(c, counted[c])

QueryFails(c) ==
    /\ pc[c] \in {"count", "last"}
    /\ Refuse(c)

\* Slip: the timer covers the reading of the request only.
TimesOutEarly(c) ==
    /\ pc[c] = "request" /\ now = deadline[c]
    /\ Refuse(c)

\* The timer cancels the handler wherever it waits.
TimesOut(c) ==
    /\ pc[c] \in {"request", "lock", "count", "last"} /\ now = deadline[c]
    /\ Refuse(c)

-------------------------------------------------------------------------------
\* The end of run_proxy().
CloseServer ==
    /\ server = "listening" /\ server' = "closing"
    /\ UNCHANGED <<now, db, state, handler, history>>

WaitClosed ==
    /\ server = "closing" /\ \A c \in Connections : pc[c] \in {"none", "closed"}
    /\ server' = "closed"
    /\ UNCHANGED <<now, db, state, handler, history>>

\* Time does not pass a timer that is due.
Tick ==
    /\ now < MaxTime /\ server # "closed"
    /\ \A c \in Connections : pc[c] \in {"none", "closed"} \/ now < deadline[c]
    /\ now' = now + 1
    /\ past' = Append(past, own)
    /\ UNCHANGED <<db, server, state, handler, shown>>

Handle(c) ==
    \/ Connect(c) \/ Request(c) \/ Reject(c) \/ FromCache(c) \/ Acquire(c) \/ Count(c)
    \/ Snapshot(c) \/ QueryFails(c) \/ TimesOut(c)

Next ==
    \/ \E c \in Connections : Handle(c)
    \/ Database \/ CloseServer \/ WaitClosed \/ Tick
    \/ (now = MaxTime \/ server = "closed") /\ UNCHANGED vars

\* Time passes, timers fire, and run_proxy runs; peers and queries may hang.
Spec ==
    /\ Init /\ [][Next]_vars
    /\ WF_vars(Tick) /\ WF_vars(WaitClosed) /\ \A c \in Connections : WF_vars(TimesOut(c))
-------------------------------------------------------------------------------
\* An answer counts every row that this proxy had committed when the peer
\* connected, or a time to live ago, and that nobody has deleted, however long
\* queries take and handlers wait for each other, and whatever state the shared
\* transaction is in.  Rows of other proxies may be hidden by that transaction.
Since(c) == Min({deadline[c] - Timeout, Max({0, now - Ttl})})

AnswersAreFresh ==
    [][ shown' # shown => past[Since(shown'.to) + 1] \ gone \subseteq shown'.rows ]_vars

\* A monitor that polls over several connections sees a row that was counted once
\* in each later answer, unless it was rolled back or deleted: views that the
\* transaction pins and drops, and handlers cut short, never take one away.
NeverGoesBack == [][ shown.rows \ gone' \subseteq shown'.rows ]_vars

\* However many peers ask, the table is not scanned again within the time to
\* live of a snapshot, except for a scan that failed or was cancelled.
ScansAreRare ==
    [][ \A c \in Connections :
            pc[c] = "count" /\ pc'[c] = "last" /\ cachedAt # None =>
                startedAt[c] - cachedAt >= Ttl ]_vars

\* The proxy's end waits for the handlers, but not for their peers.
CloseEnds == server = "closing" ~> server = "closed"

(* What the documents say, and the code does not do.                       *)

\* "Counters come from the live Storage but are cached for 1 s"
CountersAreLive ==
    [][ \A c \in Connections :
            pc[c] = "count" /\ pc'[c] = "last" => table \subseteq counted'[c] ]_vars
===============================================================================
