------------------------------- MODULE SharedFile -------------------------------
(***************************************************************************)
(* Several proxies on one database file, each with its own connection      *)
(* (storage.py).  The default path makes them share one, although ADR-0002 *)
(* does not support it.                                                    *)
(*                                                                         *)
(* SQLite lets one connection at a time write; another waits 5 s for the   *)
(* lock and fails.  In WAL mode a transaction also keeps the snapshot of   *)
(* its first read, and can never write once somebody else has committed    *)
(* after it.  Within a proxy three tasks share the connection, each with   *)
(* one write and its commit at a time: run_proxy (the session's rows), the *)
(* pump (the classifier's cache) and the writer of EventBuffer.  (Health   *)
(* and Telemetry read from it too, as the pump's lookup does.)             *)
(***************************************************************************)
EXTENDS Integers, Sequences, FiniteSets

CONSTANTS
    Proxies,
    MaxFrames,      \* bound: frames of each proxy
    MaxFaults       \* bound: its failures that are not SQLITE_BUSY

\* Nobody has the write lock.
Free == "free"

ASSUME FramesAssumption == MaxFrames \in [Proxies -> Nat]
ASSUME FaultsAssumption == MaxFaults \in [Proxies -> Nat]
ASSUME FreeAssumption == Free \notin Proxies

VARIABLES
    phase,              \* where run_proxy stands
    stage,              \* where each of the tasks stands
    queue, batch,       \* rows in EventBuffer, and those its writer took
    frames,             \* number of frames recorded
    lost, dropped,      \* rows reported as dropped, by a flush and by record()
    ops, reply,         \* the connection's pending requests
    inTx, tx, snapshot, \* the connection's transaction
    lock, table,        \* the file
    alone,              \* history: nobody else had the file open meanwhile
    faults              \* history: statements that failed otherwise than by
                        \* SQLITE_BUSY, and shutdowns that ran out of time

process == <<phase, stage, queue, batch, frames, lost, dropped>>
file    == <<inTx, tx, snapshot, lock, table>>
vars    == <<process, ops, reply, file, alone, faults>>

Tasks == {"main", "pump", "writer"}

\* The rows of events: one of each frame, and another of each that the writer
\* writes again when it is cancelled.  Those of other tables are not followed.
Row(p, n)  == <<p, n>>
Again(p, r) == <<p, MaxFrames[p] + r[2]>>
Rows       == UNION {{p} \X (1..(2 * MaxFrames[p])) : p \in Proxies}

Init ==
    /\ phase = [p \in Proxies |-> "new"]
    /\ stage = [p \in Proxies |-> [t \in Tasks |-> "rest"]]
    /\ queue = [p \in Proxies |-> {}] /\ batch = [p \in Proxies |-> {}]
    /\ frames = [p \in Proxies |-> 0] /\ lost = [p \in Proxies |-> {}]
    /\ dropped = [p \in Proxies |-> {}]
    /\ ops = [p \in Proxies |-> <<>>]
    /\ reply = [p \in Proxies |-> [t \in Tasks |-> "none"]]
    /\ inTx = [p \in Proxies |-> FALSE] /\ tx = [p \in Proxies |-> {}]
    /\ snapshot = [p \in Proxies |-> "none"]
    /\ lock = Free /\ table = {}
    /\ alone = [p \in Proxies |-> TRUE]
    /\ faults = [p \in Proxies |-> 0]

-------------------------------------------------------------------------------
(* The connection of p: its thread executes the requests in order.         *)

Request(kind, rows, by) == [kind |-> kind, rows |-> rows, by |-> by]

\* Task t of p goes on to a stage in which it awaits a request.
Await(p, t, to, kind, rows) ==
    /\ stage' = [stage EXCEPT ![p][t] = to]
    /\ ops' = [ops EXCEPT ![p] = Append(@, Request(kind, rows, t))]
    /\ reply' = [reply EXCEPT ![p][t] = "none"]

\* Task t of p goes on without awaiting anything.
Moves(p, t, to) ==
    /\ stage' = [stage EXCEPT ![p][t] = to]
    /\ reply' = [reply EXCEPT ![p][t] = "none"]

\* The requests of a cancelled task stay in the queue.
Orphaned(p, t) ==
    [i \in DOMAIN ops[p] |->
        IF ops[p][i].by = t THEN [ops[p][i] EXCEPT !.by = "nobody"] ELSE ops[p][i]]

Pending(p, kind) == ops[p] # <<>> /\ Head(ops[p]).kind = kind

Answers(p, result) ==
    /\ ops' = [ops EXCEPT ![p] = Tail(@)]
    /\ reply' = [reply EXCEPT ![p] =
        [t \in Tasks |-> IF t = Head(ops[p]).by THEN result ELSE @[t]]]
    /\ UNCHANGED <<process, alone>>

Answer(p, result) == Answers(p, result) /\ UNCHANGED faults

Fault(p) ==
    /\ faults[p] < MaxFaults[p]
    /\ faults' = [faults EXCEPT ![p] = @ + 1]

\* The request fails, for another reason than the lock.
Fails(p) == Answers(p, "err") /\ Fault(p)

\* In an open transaction a read keeps its snapshot; outside it does not.
ExecRead(p) ==
    /\ Pending(p, "read")
    /\ snapshot' = [snapshot EXCEPT ![p] =
        IF inTx[p] /\ @ = "none" THEN "fresh" ELSE @]
    /\ Answer(p, "ok")
    /\ UNCHANGED <<inTx, tx, lock, table>>

\* Slip: the connection is in autocommit mode, and rows show one by one.
ExecWriteAutocommit(p) ==
    /\ Pending(p, "write")
    /\ lock \in {Free, p} /\ snapshot[p] # "stale"
    /\ table' = table \cup Head(ops[p]).rows
    /\ Answer(p, "ok")
    /\ UNCHANGED <<inTx, tx, snapshot, lock>>

\* Python's sqlite3 begins the transaction; the first write takes the lock.
ExecWrite(p) ==
    /\ Pending(p, "write")
    /\ lock \in {Free, p} /\ snapshot[p] # "stale"
    /\ lock' = p
    /\ inTx' = [inTx EXCEPT ![p] = TRUE]
    /\ tx' = [tx EXCEPT ![p] = @ \cup Head(ops[p]).rows]
    /\ Answer(p, "ok")
    /\ UNCHANGED <<snapshot, table>>

\* SQLITE_BUSY after 5 s, or SQLITE_BUSY_SNAPSHOT at once: the statement does
\* nothing, but the transaction that sqlite3 began for it stays open.
ExecBusy(p) ==
    /\ Pending(p, "write")
    /\ lock \notin {Free, p} \/ snapshot[p] = "stale"
    /\ inTx' = [inTx EXCEPT ![p] = TRUE]
    /\ Answer(p, "err")
    /\ UNCHANGED <<tx, snapshot, lock, table>>

\* A commit makes the snapshots of the others stale.
ExecCommit(p) ==
    /\ Pending(p, "commit")
    /\ table' = table \cup tx[p]
    /\ tx' = [tx EXCEPT ![p] = {}]
    /\ inTx' = [inTx EXCEPT ![p] = FALSE]
    /\ snapshot' = [q \in Proxies |->
        IF q = p THEN "none"
        ELSE IF lock = p /\ snapshot[q] = "fresh" THEN "stale" ELSE snapshot[q]]
    /\ lock' = IF lock = p THEN Free ELSE lock
    /\ Answer(p, "ok")

\* The transaction is gone, or the connection and what it did not commit.
RollBack(p) ==
    /\ tx' = [tx EXCEPT ![p] = {}]
    /\ inTx' = [inTx EXCEPT ![p] = FALSE]
    /\ snapshot' = [snapshot EXCEPT ![p] = "none"]
    /\ lock' = IF lock = p THEN Free ELSE lock

ExecReadFails(p) ==
    /\ Pending(p, "read")
    /\ Fails(p)
    /\ UNCHANGED file

\* A row of executemany() fails: those before it stay in the transaction, which
\* stays open.  A statement that fails before it has begun takes no lock.
ExecRowFails(p) ==
    /\ Pending(p, "write")
    /\ lock \in {Free, p} /\ snapshot[p] # "stale"
    /\ \E n \in 1..(2 * MaxFrames[p] + 1) :
        LET rows == Head(ops[p]).rows
            part == {r \in rows : r[2] < n}
        IN  /\ part = {} \/ part # rows
            /\ tx' = [tx EXCEPT ![p] = @ \cup part]
            /\ lock' \in {p} \cup (IF part = {} THEN {lock} ELSE {})
    /\ inTx' = [inTx EXCEPT ![p] = TRUE]
    /\ Fails(p)
    /\ UNCHANGED <<snapshot, table>>

\* Some errors (a full disk, say) make SQLite roll the transaction back.
ExecRollsBack(p) ==
    /\ Pending(p, "write") \/ Pending(p, "commit")
    /\ RollBack(p)
    /\ Fails(p)
    /\ UNCHANGED table

\* A commit that fails leaves the transaction as it is.
ExecCommitFails(p) ==
    /\ Pending(p, "commit")
    /\ Fails(p)
    /\ UNCHANGED file

Thread(p) ==
    \/ ExecRead(p) \/ ExecWrite(p) \/ ExecBusy(p) \/ ExecCommit(p)
    \/ ExecReadFails(p) \/ ExecRowFails(p) \/ ExecRollsBack(p) \/ ExecCommitFails(p)

-------------------------------------------------------------------------------
(* run_proxy: the rows of the session, and the end.                        *)

Gone == {"new", "closed", "dead"}

IsAlone(p) == \A q \in Proxies \ {p} : phase[q] \in Gone

\* start_session() of a storage that was opened; who else has the file open?
StartSession(p) ==
    /\ phase[p] = "new"
    /\ phase' = [phase EXCEPT ![p] = "starting"]
    /\ alone' = [q \in Proxies |->
        IF q = p THEN IsAlone(p) ELSE alone[q] /\ phase[q] \in Gone]
    /\ Await(p, "main", "write", "write", {})
    /\ UNCHANGED <<queue, batch, frames, lost, dropped, file, faults>>

\* The session's row is committed by itself, whenever it has been written.
MainWritten(p) ==
    /\ stage[p]["main"] = "write" /\ reply[p]["main"] = "ok"
    /\ Await(p, "main", "commit", "commit", {})
    /\ UNCHANGED <<phase, queue, batch, frames, lost, dropped, file, alone, faults>>

\* start_session() is followed by the server's start, set_server_pid() by the
\* pumps, and end_session() by the end.
MainCommitted(p) ==
    /\ stage[p]["main"] = "commit" /\ reply[p]["main"] = "ok"
    /\ Moves(p, "main", "rest")
    /\ phase' = [phase EXCEPT ![p] =
        CASE @ = "starting" -> "spawning" [] @ = "patching" -> "running" [] OTHER -> "closing"]
    /\ UNCHANGED <<queue, batch, frames, lost, dropped, ops, file, alone, faults>>

\* A failure of any of them ends run_proxy by way of storage.close().
MainFailed(p) ==
    /\ stage[p]["main"] \in {"write", "commit"} /\ reply[p]["main"] = "err"
    /\ Moves(p, "main", "rest")
    /\ phase' = [phase EXCEPT ![p] = "closing"]
    /\ UNCHANGED <<queue, batch, frames, lost, dropped, ops, file, alone, faults>>

\* The server is there, and its pid is written; or it is not.
Spawn(p) ==
    /\ phase[p] = "spawning"
    /\ phase' = [phase EXCEPT ![p] = "patching"]
    /\ Await(p, "main", "write", "write", {})
    /\ UNCHANGED <<queue, batch, frames, lost, dropped, file, alone, faults>>

SpawnFails(p) ==
    /\ phase[p] = "spawning"
    /\ phase' = [phase EXCEPT ![p] = "closing"]
    /\ UNCHANGED <<stage, queue, batch, frames, lost, dropped, ops, reply, file, alone, faults>>

\* The pumps are stopped, wherever they are, before the writer drains.
Stop(p) ==
    /\ phase[p] = "running"
    /\ phase' = [phase EXCEPT ![p] = "draining"]
    /\ Moves(p, "pump", "rest")
    /\ ops' = [ops EXCEPT ![p] = Orphaned(p, "pump")]
    /\ UNCHANGED <<queue, batch, frames, lost, dropped, file, alone, faults>>

\* The writer is cancelled after 5 s: nobody takes what is still queued, and
\* the connection goes on with what the writer asked it for.
ShutdownTimeout(p) ==
    /\ phase[p] = "draining" /\ Fault(p)
    /\ phase' = [phase EXCEPT ![p] = "cancelling"]
    /\ queue' = [queue EXCEPT ![p] = {}]
    /\ Moves(p, "writer", IF stage[p]["writer"] = "rest" THEN "rest" ELSE "cancelled")
    /\ ops' = [ops EXCEPT ![p] = Orphaned(p, "writer")]
    /\ UNCHANGED <<batch, frames, lost, dropped, file, alone>>

\* shutdown() returns when the writer does.
WriterIsDone(p) ==
    /\ phase[p] \in {"draining", "cancelling"}
    /\ queue[p] = {} /\ stage[p]["writer"] = "rest"

EndSession(p) ==
    /\ WriterIsDone(p)
    /\ phase' = [phase EXCEPT ![p] = "ending"]
    /\ Await(p, "main", "write", "write", {})
    /\ UNCHANGED <<queue, batch, frames, lost, dropped, file, alone, faults>>

\* An exception that ended the pumps goes on after the shutdown.
Raise(p) ==
    /\ WriterIsDone(p)
    /\ phase' = [phase EXCEPT ![p] = "closing"]
    /\ UNCHANGED <<stage, queue, batch, frames, lost, dropped, ops, reply, file, alone, faults>>

Close(p) ==
    /\ phase[p] = "closing" /\ ops[p] = <<>>
    /\ phase' = [phase EXCEPT ![p] = "closed"]
    /\ RollBack(p)
    /\ UNCHANGED <<stage, queue, batch, frames, lost, dropped, ops, reply, table, alone, faults>>

\* The process is killed.
Die(p) ==
    /\ phase[p] \notin Gone
    /\ phase' = [phase EXCEPT ![p] = "dead"]
    /\ stage' = [stage EXCEPT ![p] = [t \in Tasks |-> "rest"]]
    /\ queue' = [queue EXCEPT ![p] = {}] /\ batch' = [batch EXCEPT ![p] = {}]
    /\ ops' = [ops EXCEPT ![p] = <<>>]
    /\ reply' = [reply EXCEPT ![p] = [t \in Tasks |-> "none"]]
    /\ RollBack(p)
    /\ UNCHANGED <<frames, lost, dropped, table, alone, faults>>

Main(p) ==
    \/ MainWritten(p) \/ MainCommitted(p) \/ MainFailed(p) \/ Spawn(p)
    \/ EndSession(p) \/ Close(p)

-------------------------------------------------------------------------------
(* The pump of p: a frame may need the cache, and is recorded in the end.  *)

PumpAt(p, s) == phase[p] = "running" /\ stage[p]["pump"] = s

PumpGoes(p, to) ==
    /\ Moves(p, "pump", to)
    /\ UNCHANGED <<phase, queue, batch, frames, lost, dropped, ops, file, alone, faults>>

\* lookup_classifier_cache(); a frame that asks no classifier skips it all.
Lookup(p) ==
    /\ PumpAt(p, "rest") /\ frames[p] < MaxFrames[p]
    /\ Await(p, "pump", "read", "read", {})
    /\ UNCHANGED <<phase, queue, batch, frames, lost, dropped, file, alone, faults>>

Forward(p) == PumpAt(p, "rest") /\ frames[p] < MaxFrames[p] /\ PumpGoes(p, "forward")

\* A hit goes on to the frame's forwarding, a miss calls the classifier, and a
\* failure makes inspect() go by the rules.
LookedUp(p) ==
    /\ PumpAt(p, "read") /\ reply[p]["pump"] # "none"
    /\ \/ reply[p]["pump"] = "ok" /\ PumpGoes(p, "call")
       \/ PumpGoes(p, "forward")

\* A call that yields no label has nothing to store.
NoLabel(p) == PumpAt(p, "call") /\ PumpGoes(p, "forward")

\* upsert_classifier_cache(): a row of another table, which is not followed.
Upsert(p) ==
    /\ PumpAt(p, "call")
    /\ Await(p, "pump", "write", "write", {})
    /\ UNCHANGED <<phase, queue, batch, frames, lost, dropped, file, alone, faults>>

Upserted(p) ==
    /\ PumpAt(p, "write") /\ reply[p]["pump"] = "ok"
    /\ Await(p, "pump", "commit", "commit", {})
    /\ UNCHANGED <<phase, queue, batch, frames, lost, dropped, file, alone, faults>>

\* The commit is done, or one of them failed and inspect() goes by the rules.
UpsertEnds(p) ==
    /\ \/ PumpAt(p, "commit") /\ reply[p]["pump"] # "none"
       \/ PumpAt(p, "write") /\ reply[p]["pump"] = "err"
    /\ PumpGoes(p, "forward")

\* The latency budget cancels classify() wherever it is.
BudgetEnds(p) ==
    /\ \E s \in {"read", "call", "write", "commit"} : PumpAt(p, s)
    /\ Moves(p, "pump", "forward")
    /\ ops' = [ops EXCEPT ![p] = Orphaned(p, "pump")]
    /\ UNCHANGED <<phase, queue, batch, frames, lost, dropped, file, alone, faults>>

\* Slip: the row of a line is not recorded.
RecordNothing(p) == PumpAt(p, "forward") /\ PumpGoes(p, "rest")

\* The line is written, which may have to wait for the reader, and recorded.
Record(p) ==
    /\ PumpAt(p, "forward")
    /\ Moves(p, "pump", "rest")
    /\ frames' = [frames EXCEPT ![p] = @ + 1]
    /\ queue' = [queue EXCEPT ![p] = @ \cup {Row(p, frames'[p])}]
    /\ UNCHANGED <<phase, batch, lost, dropped, ops, file, alone, faults>>

\* The queue may be full, which an empty one is not.
Overflows(p) ==
    /\ PumpAt(p, "forward") /\ queue[p] # {}
    /\ Moves(p, "pump", "rest")
    /\ frames' = [frames EXCEPT ![p] = @ + 1]
    /\ dropped' = [dropped EXCEPT ![p] = @ \cup {Row(p, frames'[p])}]
    /\ UNCHANGED <<phase, queue, batch, lost, ops, file, alone, faults>>

Pump(p) ==
    \/ LookedUp(p) \/ NoLabel(p) \/ Upsert(p) \/ Upserted(p) \/ UpsertEnds(p)
    \/ Record(p) \/ Overflows(p)

-------------------------------------------------------------------------------
(* EventBuffer._run() of p; the sizes of its queue and batches are left to *)
(* EventBuffer.                                                            *)

WriterAt(p, s) ==
    phase[p] \in {"running", "draining", "cancelling"} /\ stage[p]["writer"] = s

Take(p) ==
    /\ WriterAt(p, "rest") /\ queue[p] # {}
    /\ batch' = [batch EXCEPT ![p] = queue[p]]
    /\ queue' = [queue EXCEPT ![p] = {}]
    /\ Await(p, "writer", "write", "write", queue[p])
    /\ UNCHANGED <<phase, frames, lost, dropped, file, alone, faults>>

BatchEnds(p) ==
    /\ Moves(p, "writer", "rest")
    /\ batch' = [batch EXCEPT ![p] = {}]

\* Slip: insert_events() does not commit.
InsertedNoCommit(p) ==
    /\ WriterAt(p, "write") /\ reply[p]["writer"] = "ok"
    /\ BatchEnds(p)
    /\ UNCHANGED <<phase, queue, frames, lost, dropped, ops, file, alone, faults>>

Inserted(p) ==
    /\ WriterAt(p, "write") /\ reply[p]["writer"] = "ok"
    /\ Await(p, "writer", "commit", "commit", {})
    /\ UNCHANGED <<phase, queue, batch, frames, lost, dropped, file, alone, faults>>

Flushed(p) ==
    /\ WriterAt(p, "commit") /\ reply[p]["writer"] = "ok"
    /\ BatchEnds(p)
    /\ UNCHANGED <<phase, queue, frames, lost, dropped, ops, file, alone, faults>>

\* Slip: the answer of the insert is not awaited before it is judged.
DroppedEarly(p) ==
    /\ WriterAt(p, "write") /\ reply[p]["writer"] # "ok"
    /\ lost' = [lost EXCEPT ![p] = @ \cup batch[p]]
    /\ BatchEnds(p)
    /\ UNCHANGED <<phase, queue, frames, dropped, ops, file, alone, faults>>

\* "failed to flush %d events; dropping", which may be those of a commit; after
\* the cancellation it is "failed to flush on cancel", and nothing is dropped.
Dropped(p) ==
    /\ WriterAt(p, "write") \/ WriterAt(p, "commit")
    /\ reply[p]["writer"] = "err"
    /\ lost' = [lost EXCEPT ![p] =
        IF phase[p] = "cancelling" THEN @ ELSE @ \cup batch[p]]
    /\ BatchEnds(p)
    /\ UNCHANGED <<phase, queue, frames, dropped, ops, file, alone, faults>>

\* A writer that is cancelled in a flush flushes once more.
FlushAgain(p) ==
    /\ WriterAt(p, "cancelled")
    /\ Await(p, "writer", "write", "write", {Again(p, r) : r \in batch[p]})
    /\ UNCHANGED <<phase, queue, batch, frames, lost, dropped, file, alone, faults>>

Writer(p) == Take(p) \/ Inserted(p) \/ Flushed(p) \/ Dropped(p) \/ FlushAgain(p)

-------------------------------------------------------------------------------
\* Every proxy has gone for good.
AllGone == (\A p \in Proxies : phase[p] \in {"closed", "dead"}) /\ UNCHANGED vars

Next ==
    \/ \E p \in Proxies :
        \/ StartSession(p) \/ Main(p) \/ SpawnFails(p) \/ Raise(p)
        \/ Stop(p) \/ ShutdownTimeout(p) \/ Die(p)
        \/ Thread(p)
        \/ Lookup(p) \/ Forward(p) \/ Pump(p) \/ BudgetEnds(p)
        \/ Writer(p)
    \/ AllGone

\* The threads execute their requests (one that waits for the lock fails after
\* 5 s), the tasks go on when their answers are there, and the readers of the
\* lines take them in the end.
Fairness ==
    \A p \in Proxies :
        WF_vars(Thread(p)) /\ WF_vars(Pump(p)) /\ WF_vars(Writer(p)) /\ WF_vars(Main(p))

Spec == Init /\ [][Next]_vars /\ Fairness

-------------------------------------------------------------------------------
(* Properties.                                                             *)

\* Task t of p has written, or asked to, and will ask for the commit.
InWrite(p, t) == stage[p][t] \in {"write", "commit"}

\* A cache write that is cancelled before its commit leaves the file locked,
\* with nobody to commit it.  The lock is on its way back nevertheless: the
\* frame whose inspection it was is still to be recorded, and with its row the
\* writer commits; or the end of the session does, or storage.close().  (What a
\* statement that failed in the middle leaves behind, nobody looks after.)
LockIsOnItsWayBack ==
    \A p \in Proxies :
        lock = p /\ faults[p] = 0 =>
            \/ phase[p] \in {"starting", "patching", "draining", "ending", "closing"}
            \/ ops[p] # <<>> \/ \E t \in Tasks : InWrite(p, t)
            \/ stage[p]["pump"] = "forward" \/ queue[p] # {}

\* What the others do to a proxy of which no statement fails by itself and whose
\* shutdown ends in time: they can make its flushes fail, whatever fails or dies
\* there, but a flush that fails because of them leaves nothing behind.  The
\* rows it reports as dropped are in no transaction and never get into the
\* table, and every other row is in the table when its storage has been closed,
\* but for those that found the queue full.  If it was alone with the file all
\* the time its flushes drop nothing, although others may have died in a
\* transaction before it started.
ReportIsExact ==
    \A p \in Proxies : faults[p] = 0 =>
        /\ (lost[p] \cup dropped[p]) \cap (table \cup tx[p]) = {}
        /\ phase[p] = "closed" =>
            ({p} \X (1..frames[p])) \subseteq lost[p] \cup dropped[p] \cup table
        /\ alone[p] => lost[p] = {} /\ snapshot[p] # "stale"

\* Nobody keeps the file locked for ever, but a proxy of which a statement failed
\* in the middle: that one gives the lock back at its end.
LockIsGivenBack ==
    \A p \in Proxies :
        lock = p ~> lock # p \/ (phase[p] = "running" /\ faults[p] > 0)

\* What the viewer of Follow may see of the file: rows of events that become
\* visible by the commit of the one writer.
Log == INSTANCE Follow WITH
    Writers <- Proxies, MaxRows <- Cardinality(Rows),
    InitialTail <- 0, Chunk <- 1,
    table   <- Cardinality(table \cap Rows),
    tx      <- Cardinality(UNION {tx[p] \cap Rows : p \in Proxies}),
    pc <- "seed", cursor <- 0, rows <- <<>>, shown <- <<>>, before <- 0

ImplementsWriters == Log!WritersSpec

(* What the documentation says, and the code does not do.                  *)

\* "failed to flush %d events; dropping": a flush that fails is over and done
\* with, and leaves the file to the others.
FailedFlushLeavesTheFile == \A p \in Proxies : lock = p ~> lock # p

\* "every JSON-RPC frame in both directions, persisted to SQLite": the flushes
\* of a proxy that has the file to itself succeed.
StoresWhenAlone ==
    [][ \A p \in Proxies :
            IsAlone(p) /\ reply'[p]["writer"] = "err" => reply[p]["writer"] = "err" ]_vars
===============================================================================
