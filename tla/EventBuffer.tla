------------------------------ MODULE EventBuffer ------------------------------
(***************************************************************************)
(* The audit path of storage.py: EventBuffer's bounded queue and writer    *)
(* task, the one aiosqlite connection it shares with the rest of the       *)
(* proxy, and the end of run_proxy that shuts both down.                   *)
(*                                                                         *)
(* Three threads of control interleave at their awaits: the pumps and      *)
(* run_proxy (`proxy'), the writer task (`writer'), and the thread of      *)
(* aiosqlite, which executes the submitted operations in order whether or  *)
(* not anybody still waits for the answer.  All of them share one SQLite   *)
(* transaction: Python's sqlite3 opens it before the first write, only a   *)
(* commit closes it, and no caller rolls it back after a failed write.     *)
(*                                                                         *)
(* An event is the number of its record() call.                            *)
(***************************************************************************)
EXTENDS Integers, Sequences, FiniteSets, Functions

CONSTANTS
    QueueMax,       \* maxsize of the asyncio queue
    BatchSize,      \* most events in one executemany
    MaxEvents,      \* bound: record() calls in a behaviour
    MaxUpserts,     \* bound: classifier-cache writes in a behaviour
    Faults,         \* which statements may fail: see the thread's actions
    MayTimeOut,     \* whether the 5 s shutdown timer may fire
    Stop            \* the None that shutdown() puts into the queue

ASSUME SizesAssumption == QueueMax \in Nat \ {0} /\ BatchSize \in Nat \ {0}
ASSUME BoundsAssumption == MaxEvents \in Nat /\ MaxUpserts \in Nat
ASSUME FaultsAssumption == Faults \subseteq {"row", "rollback", "commit"}
ASSUME TimerAssumption == MayTimeOut \in BOOLEAN
ASSUME StopAssumption == Stop \notin Nat

VARIABLES
    queue, dropped,                     \* EventBuffer._queue, ._dropped
    writer, batch, stopping, cancelled, \* where _run() stands, and its locals
    proxy,                              \* where the pumps and run_proxy stand
    ops, reply,                         \* the connection's pending operations
    tx, inTx, table, session,           \* the database
    offered, accepted, flushed, failed, \* what record() and _run() reported
    upserts                             \* cache writes started

buffer  == <<queue, dropped, offered, accepted>>
task    == <<writer, batch, stopping, cancelled, flushed, failed>>
channel == <<ops, reply>>
db      == <<tx, inTx, table, session>>
vars    == <<buffer, task, proxy, channel, db, upserts>>

Users == {"writer", "proxy"}

Init ==
    /\ queue = <<>> /\ dropped = 0
    /\ writer = "get" /\ batch = <<>> /\ stopping = FALSE /\ cancelled = FALSE
    /\ proxy = "running"
    /\ ops = <<>> /\ reply = [u \in Users |-> "none"]
    /\ tx = <<>> /\ inTx = FALSE /\ table = <<>> /\ session = "open"
    /\ offered = 0 /\ accepted = {} /\ flushed = {} /\ failed = {}
    /\ upserts = 0

-------------------------------------------------------------------------------
(* The connection: aiosqlite's request queue and SQLite's transaction.     *)

Op(kind, rows, by) == [kind |-> kind, rows |-> rows, by |-> by]

\* `by' awaits an operation: its request goes to the end of the queue.
Submit(kind, rows, by) ==
    /\ ops' = Append(ops, Op(kind, rows, by))
    /\ reply' = [reply EXCEPT ![by] = "none"]

\* Requests stay in the queue when the task that awaits them is cancelled.
Orphaned(by) ==
    [i \in DOMAIN ops |->
        IF ops[i].by = by THEN [ops[i] EXCEPT !.by = "nobody"] ELSE ops[i]]

\* The thread is done with the first request and wakes up whoever waits.
Answer(result) ==
    /\ ops' = Tail(ops)
    /\ reply' = [u \in Users |-> IF u = Head(ops).by THEN result ELSE reply[u]]

\* An uncommitted end_session() is undone with the transaction.
UndoneSession == IF session = "written" THEN "open" ELSE session

ExecWrite ==
    /\ ops # <<>> /\ Head(ops).kind # "commit"
    /\ tx' = tx \o Head(ops).rows
    /\ inTx' = TRUE
    /\ session' = IF Head(ops).kind = "end" THEN "written" ELSE session
    /\ Answer("ok")
    /\ UNCHANGED <<table, buffer, task, proxy, upserts>>

\* Fault "row": a row cannot be bound or a lock cannot be had.  The rows
\* that executemany() inserted before it stay in the open transaction.
ExecRowFails ==
    /\ "row" \in Faults
    /\ ops # <<>> /\ Head(ops).kind # "commit"
    /\ \E k \in 0..Len(Head(ops).rows) :
        /\ k < Len(Head(ops).rows) \/ Head(ops).kind # "insert"
        /\ tx' = tx \o SubSeq(Head(ops).rows, 1, k)
    /\ inTx' = TRUE
    /\ Answer("err")
    /\ UNCHANGED <<table, session, buffer, task, proxy, upserts>>

\* Fault "rollback": disk full or an I/O error; SQLite ends the transaction.
ExecRollsBack ==
    /\ "rollback" \in Faults
    /\ ops # <<>>
    /\ tx' = <<>> /\ inTx' = FALSE /\ session' = UndoneSession
    /\ Answer("err")
    /\ UNCHANGED <<table, buffer, task, proxy, upserts>>

ExecCommit ==
    /\ ops # <<>> /\ Head(ops).kind = "commit"
    /\ table' = table \o tx
    /\ tx' = <<>> /\ inTx' = FALSE
    /\ session' = IF session = "written" THEN "ended" ELSE session
    /\ Answer("ok")
    /\ UNCHANGED <<buffer, task, proxy, upserts>>

\* Fault "commit": the commit is refused and the transaction stays open.
ExecCommitFails ==
    /\ "commit" \in Faults
    /\ ops # <<>> /\ Head(ops).kind = "commit"
    /\ Answer("err")
    /\ UNCHANGED <<db, buffer, task, proxy, upserts>>

Thread ==
    ExecWrite \/ ExecRowFails \/ ExecRollsBack \/ ExecCommit \/ ExecCommitFails

-------------------------------------------------------------------------------
(* EventBuffer.record(), called by the pumps while they run.               *)

Running == {"running", "upsert", "upsertcommit"}

Enqueue ==
    /\ Len(queue) < QueueMax
    /\ queue' = Append(queue, offered')
    /\ accepted' = accepted \cup {offered'}
    /\ UNCHANGED dropped

CountDrop ==
    /\ Len(queue) >= QueueMax
    /\ dropped' = dropped + 1
    /\ UNCHANGED <<queue, accepted>>

Record ==
    /\ proxy \in Running
    /\ offered < MaxEvents
    /\ offered' = offered + 1
    /\ Enqueue \/ CountDrop
    /\ UNCHANGED <<task, proxy, channel, db, upserts>>

-------------------------------------------------------------------------------
(* EventBuffer._run(), the writer task.                                    *)

StopQueued == queue # <<>> /\ queue[Len(queue)] = Stop

\* Events at hand; Stop is the last thing ever put into the queue.
Available == IF StopQueued THEN Len(queue) - 1 ELSE Len(queue)

\* How many events the wake-up takes, and whether it also takes Stop: the
\* inner loop looks at the queue again only while the batch is not full.
TakeCount == IF Available < BatchSize THEN Available ELSE BatchSize

\* Slip: a queued Stop ends the loop although events are still before it.
SeesStopEarly == StopQueued

SeesStop == StopQueued /\ Available < BatchSize

Take ==
    /\ writer = "get" /\ queue # <<>>
    /\ stopping' = SeesStop
    /\ batch' = batch \o SubSeq(queue, 1, TakeCount)
    /\ queue' = IF SeesStop THEN <<>>
                ELSE SubSeq(queue, TakeCount + 1, Len(queue))
    /\ IF TakeCount = 0
         THEN writer' = "done" /\ UNCHANGED channel
         ELSE writer' = "insert" /\ Submit("insert", batch', "writer")
    /\ UNCHANGED <<cancelled, flushed, failed>>
    /\ UNCHANGED <<dropped, offered, accepted, proxy, db, upserts>>

\* Slip: insert_events() does not commit.
InsertedNoCommit ==
    /\ writer = "insert" /\ reply["writer"] = "ok"
    /\ flushed' = flushed \cup Range(batch)
    /\ batch' = <<>> /\ writer' = IF stopping \/ cancelled THEN "done" ELSE "get"
    /\ UNCHANGED <<stopping, cancelled, failed, buffer, proxy, channel, db, upserts>>

Inserted ==
    /\ writer = "insert" /\ reply["writer"] = "ok"
    /\ writer' = "commit"
    /\ Submit("commit", <<>>, "writer")
    /\ UNCHANGED <<batch, stopping, cancelled, flushed, failed>>
    /\ UNCHANGED <<buffer, proxy, db, upserts>>

\* Slip: `batch = []' is missing.
EndFlushKeepsBatch ==
    /\ writer' = IF stopping \/ cancelled THEN "done" ELSE "get"
    /\ UNCHANGED <<batch, stopping, cancelled>>

\* The end of a loop iteration, or of the cancellation handler.
EndFlush ==
    /\ batch' = <<>>
    /\ writer' = IF stopping \/ cancelled THEN "done" ELSE "get"
    /\ UNCHANGED <<stopping, cancelled>>

Committed ==
    /\ writer = "commit" /\ reply["writer"] = "ok"
    /\ flushed' = flushed \cup Range(batch)
    /\ EndFlush
    /\ UNCHANGED <<failed, buffer, proxy, channel, db, upserts>>

\* Slip: the exception is swallowed without a report.
FlushFailedSilently ==
    /\ writer \in {"insert", "commit"} /\ reply["writer"] = "err"
    /\ EndFlush
    /\ UNCHANGED <<flushed, failed, buffer, proxy, channel, db, upserts>>

\* Slip: no try block around the flush, so the exception ends the task.
FlushFailureKillsWriter ==
    /\ writer \in {"insert", "commit"} /\ reply["writer"] = "err"
    /\ failed' = failed \cup Range(batch)
    /\ batch' = <<>> /\ writer' = "done"
    /\ UNCHANGED <<stopping, cancelled, flushed, buffer, proxy, channel, db, upserts>>

\* "failed to flush %d events; dropping": the rows are reported as lost, and
\* the open transaction is left as it is.
FlushFailed ==
    /\ writer \in {"insert", "commit"} /\ reply["writer"] = "err"
    /\ failed' = failed \cup Range(batch)
    /\ EndFlush
    /\ UNCHANGED <<flushed, buffer, proxy, channel, db, upserts>>

Writer == Take \/ Inserted \/ Committed \/ FlushFailed

-------------------------------------------------------------------------------
(* A classifier-cache write of the pumps, on the same connection.          *)

Upsert ==
    /\ proxy = "running" /\ upserts < MaxUpserts
    /\ upserts' = upserts + 1
    /\ proxy' = "upsert"
    /\ Submit("upsert", <<>>, "proxy")
    /\ UNCHANGED <<buffer, task, db>>

Upserted ==
    /\ proxy = "upsert" /\ reply["proxy"] # "none"
    /\ IF reply["proxy"] = "ok"
         THEN proxy' = "upsertcommit" /\ Submit("commit", <<>>, "proxy")
         ELSE proxy' = "running" /\ UNCHANGED channel
    /\ UNCHANGED <<buffer, task, db, upserts>>

UpsertCommitted ==
    /\ proxy = "upsertcommit" /\ reply["proxy"] # "none"
    /\ proxy' = "running"
    /\ UNCHANGED <<buffer, task, channel, db, upserts>>

\* The inspector's latency budget, or the shutdown of the pump, cancels the
\* classifier while it awaits the database.
UpsertCancelled ==
    /\ proxy \in {"upsert", "upsertcommit"}
    /\ proxy' = "running"
    /\ ops' = Orphaned("proxy")
    /\ UNCHANGED <<buffer, task, reply, db, upserts>>

-------------------------------------------------------------------------------
(* EventBuffer.shutdown() and the end of run_proxy().                      *)

BeginShutdown ==
    /\ proxy = "running"
    /\ proxy' = "stopping"
    /\ UNCHANGED <<buffer, task, channel, db, upserts>>

\* await self._queue.put(None): waits, without a timeout, for a free slot.
PutStop ==
    /\ proxy = "stopping" /\ Len(queue) < QueueMax
    /\ proxy' = "waiting"
    /\ queue' = Append(queue, Stop)
    /\ UNCHANGED <<dropped, offered, accepted, task, channel, db, upserts>>

\* The timer cancels the writer, whose handler flushes its batch once more,
\* although the thread may have inserted it already or is about to.
CancelWriter ==
    /\ cancelled' = TRUE
    /\ IF batch = <<>>
         THEN writer' = "done" /\ UNCHANGED channel
         ELSE /\ writer' = "insert"
              /\ ops' = Append(Orphaned("writer"), Op("insert", batch, "writer"))
              /\ reply' = [reply EXCEPT !["writer"] = "none"]
    /\ UNCHANGED <<batch, stopping, flushed, failed>>

\* Slip: the writer is cancelled again while it flushes on cancellation.
ShutdownTimeoutRepeats ==
    /\ MayTimeOut
    /\ proxy = "waiting" /\ writer # "done"
    /\ CancelWriter
    /\ UNCHANGED <<buffer, proxy, db, upserts>>

ShutdownTimeout ==
    /\ MayTimeOut
    /\ proxy = "waiting" /\ writer # "done" /\ ~cancelled
    /\ CancelWriter
    /\ UNCHANGED <<buffer, proxy, db, upserts>>

WriterJoined ==
    /\ proxy = "waiting" /\ writer = "done"
    /\ proxy' = "ending"
    /\ Submit("end", <<>>, "proxy")
    /\ UNCHANGED <<buffer, task, db, upserts>>

\* Slip: end_session() does not commit.
SessionWrittenNoCommit ==
    /\ proxy = "ending" /\ reply["proxy"] # "none"
    /\ proxy' = "closing"
    /\ UNCHANGED <<buffer, task, channel, db, upserts>>

SessionWritten ==
    /\ proxy = "ending" /\ reply["proxy"] # "none"
    /\ IF reply["proxy"] = "ok"
         THEN proxy' = "endcommit" /\ Submit("commit", <<>>, "proxy")
         ELSE proxy' = "closing" /\ UNCHANGED channel
    /\ UNCHANGED <<buffer, task, db, upserts>>

SessionCommitted ==
    /\ proxy = "endcommit" /\ reply["proxy"] # "none"
    /\ proxy' = "closing"
    /\ UNCHANGED <<buffer, task, channel, db, upserts>>

\* storage.close(): after every submitted operation; what is not committed
\* is undone.
CloseStorage ==
    /\ proxy = "closing" /\ ops = <<>>
    /\ proxy' = "closed"
    /\ tx' = <<>> /\ inTx' = FALSE /\ session' = UndoneSession
    /\ UNCHANGED <<table, buffer, task, channel, upserts>>

Shutdown ==
    PutStop \/ WriterJoined \/ SessionWritten \/ SessionCommitted \/ CloseStorage

\* The process is gone; nothing is left to do.
Closed == proxy = "closed" /\ UNCHANGED vars

CacheWrite == Upserted \/ UpsertCommitted

Next ==
    \/ Record
    \/ Writer
    \/ Thread
    \/ Upsert \/ CacheWrite \/ UpsertCancelled
    \/ BeginShutdown \/ Shutdown \/ ShutdownTimeout
    \/ Closed

\* The event loop runs every task that is ready, and the thread runs every
\* request (a locked database fails after SQLite's busy timeout).  Nobody
\* promises that a frame arrives, that the proxy stops, or that a timer fires
\* before the work it guards is done.
Fairness ==
    WF_vars(Writer) /\ WF_vars(Thread) /\ WF_vars(CacheWrite) /\ WF_vars(Shutdown)

Spec == Init /\ [][Next]_vars /\ Fairness

-------------------------------------------------------------------------------
(* Properties.                                                             *)

Row(x) == x \in 1..offered

Rows(s) == \A i \in DOMAIN s : Row(s[i])

QueueOK ==
    /\ queue \in Seq(Nat \cup {Stop}) /\ Len(queue) <= QueueMax
    /\ \A i \in DOMAIN queue :
        /\ queue[i] # Stop => Row(queue[i])
        /\ queue[i] = Stop => i = Len(queue)
    /\ offered \in Nat
    /\ dropped \in 0..offered
    /\ accepted \subseteq 1..offered

TaskOK ==
    /\ writer \in {"get", "insert", "commit", "done"}
    /\ batch \in Seq(Nat) /\ Rows(batch) /\ Len(batch) <= BatchSize
    /\ stopping \in BOOLEAN /\ cancelled \in BOOLEAN
    /\ flushed \subseteq 1..offered /\ failed \subseteq 1..offered

ProxyOK ==
    /\ proxy \in Running \cup {"stopping", "waiting", "ending", "endcommit",
                               "closing", "closed"}
    /\ upserts \in Nat

Request ==
    [kind : {"insert", "upsert", "end", "commit"},
     rows : Seq(Nat), by : Users \cup {"nobody"}]

ChannelOK ==
    /\ ops \in Seq(Request)
    /\ \A i \in DOMAIN ops : Rows(ops[i].rows)
    /\ reply \in [Users -> {"none", "ok", "err"}]

DbOK ==
    /\ tx \in Seq(Nat) /\ Rows(tx) /\ inTx \in BOOLEAN
    /\ table \in Seq(Nat) /\ Rows(table)
    /\ session \in {"open", "written", "ended"}

\* Every variable has its type: the queue respects its maxsize and Stop is
\* only ever its last element, and every row anywhere was recorded once.
TypeOK == QueueOK /\ TaskOK /\ ProxyOK /\ ChannelOK /\ DbOK

\* The events that a sequence of the queue, or the rows of an operation, hold.
Held == Range(queue) \cup Range(batch) \cup Range(tx)
        \cup UNION {Range(ops[i].rows) : i \in DOMAIN ops}

\* Rows reach the log in the order of the record() calls and never twice,
\* whichever flushes fail half-way and leave rows in the shared transaction,
\* as long as the writer is not cancelled (storage.py, _run and insert_events).
InOrderOnce ==
    ~cancelled =>
        \A i, j \in DOMAIN (table \o tx) :
            i < j => (table \o tx)[i] < (table \o tx)[j]

\* Even a cancelled writer writes a row at most twice: the abandoned
\* executemany and the flush of the cancellation handler (storage.py, _run).
AtMostTwice ==
    \A e \in accepted :
        Cardinality({i \in DOMAIN table : table[i] = e}) <= 2

\* insert_events() returns only when its batch is durable, although a cache
\* write of the pumps may be made, fail, be cancelled and commit the shared
\* transaction between the batch's statement and its commit, and the shutdown
\* timer may cancel the writer in either (storage.py, insert_events and _run).
FlushedIsDurable == flushed \subseteq Range(table)

\* When storage is closed every accepted event is in the log or was reported
\* as lost; only a cancelled writer leaves events behind in the queue, which
\* nobody reports (storage.py, shutdown).
AllAccountedFor ==
    proxy = "closed" =>
        /\ accepted \subseteq Range(table) \cup failed \cup Range(queue)
        /\ Cardinality(accepted) + dropped = offered
        /\ ~cancelled => queue = <<>>

\* When run_proxy() goes on to close the database, the end of the session is
\* durable, unless a statement of end_session() failed: it is committed on a
\* connection that failed flushes and cancelled writes may have left in the
\* middle of a transaction (proxy.py, run_proxy).
SessionEnded ==
    [][ proxy' = "closing" /\ proxy # "closing" /\ reply["proxy"] = "ok" =>
            session = "ended" ]_vars

\* shutdown() and run_proxy() come to an end: put(None) finds a free slot, the
\* writer drains or is cancelled, and the cancelled writer terminates too.
ShutdownCompletes == proxy = "stopping" ~> proxy = "closed"

\* The audit trail that this module implements.
Log == INSTANCE AuditLog WITH
    Capacity <- QueueMax,
    open     <- proxy \in Running,
    refused  <- dropped,
    pending  <- (accepted \cap Held) \ Range(table),
    stored   <- table

\* Queue, writer and shared transaction together implement the audit trail.
ImplementsAuditLog == Log!Spec

(* What the documentation says and the code does not do.                   *)

\* ADR-0001: "On normal shutdown we drain."
DrainedAtClose == proxy = "closed" => accepted \subseteq Range(table)

\* One row for each recorded event, as test_drains_in_background counts them.
RowsMatchRecords == Len(table) <= Cardinality(accepted)

\* "failed to flush %d events; dropping": what is reported dropped stays out.
ReportedStayOut == failed \cap Range(table) = {}
===============================================================================
