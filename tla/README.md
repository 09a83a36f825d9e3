# A verification of mcp-firewall

mcp-firewall sits between an MCP client (an editor, an agent) and an MCP server
process. It copies JSON-RPC lines between the two, shows every frame to an
inspector that may block it, writes an audit row for each into SQLite, and ends
the server process when either side is done. This directory holds TLA+ models of
that program, the TLC configurations that check them and TLAPS proofs about eleven
of them. Below, `*.py` is a file of `src/bulwark_mcp/`; `docs/`, `tests/` and
`README.md` are those of the repository.

Contents: [system](#the-system) · [modules](#the-modules) ·
[runs](#what-the-runs-check) · [bounds](#bounds) · [fairness](#fairness) ·
[proofs](#what-is-proved) · [disagreements](#where-the-code-differs-from-what-is-said-of-it) ·
[not modelled](#what-is-not-modelled) · [plan](#plan)

## The system

One process per client and server. Inside it a single asyncio event loop runs
the tasks below; aiosqlite adds one thread, to which all statements of the
connection are queued, and where the client's streams are no pipes, each read and
write of them runs on a worker thread. Several such processes share one database
file, one identity file and one telemetry log; other commands (`doctor`, `detect`,
`rules lint`, `tail`, `stats`) read the same files.

| component | state | operations | talks to | what is hard, and what makes it correct |
|---|---|---|---|---|
| pumps, `proxy.py` | readers, writers, the client write lock, inspection results | read a line, inspect it, write or replace or answer it, record it | client, server, inspector, event buffer | two tasks write to the client; back-pressure; a cancellation at any await. Order per direction, each blocked request answered once, no part of it forwarded, the audit log tells what was written |
| `run_proxy`, `proxy.py` | session row, server process, stop event | start, wait for the first of {client EOF, server EOF, signal}, half-close, drain 10 s, terminate, kill, tear down | everything | every order of endings leads to an ended server and a closed session |
| blocking fallbacks, `proxy.py` | worker threads, a lock and a flag per stream | `_BlockingReader.readline`, `_BlockingWriter.write` | pumps, the interpreter at exit | a cancelled pump leaves its thread behind. No line is torn, at most one is swallowed, the process ends |
| event buffer, `storage.py` | bounded queue, writer task, counter of drops | `record`, `_run`, `shutdown` | pumps (producers), connection | a full queue, failing statements, a `None` behind a full batch, a cancelled writer whose statement still runs. Each accepted event is stored once and in order, or reported |
| connection, `storage.py` | the one open SQLite transaction, its snapshot | `insert_events`, `upsert_classifier_cache`, `start_session`, `set_server_pid`, `end_session` | event buffer, classifier, `run_proxy`, other processes | statement and commit are two awaits; the transaction is shared by three tasks, the file and its write lock by several proxies. A lock comes back, and what is not stored is reported |
| schema, `storage.py` | version rows, tables, SQLite's write lock | `open`: base DDL, migration 1→2 | other processes | crash in the middle, two openers at once. A file that claims a version has all of it |
| log viewer, `storage.py`, `cli.py` | cursor | `stream_events` | other processes | rows committed between polls. Each shown once, in order |
| inspector, `inspector.py` | none between frames | `inspect`: rules, classifier within a budget, policy | pumps, classifier | every early return and timer. What the rules block stays blocked |
| classifier, `detectors/llm.py` | circuit breaker, cache table | `classify` | Ollama, connection | the budget cancels it anywhere; long sequences of failures |
| policy and rules, `policy.py`, `detectors/rules.py` | the loaded rules | load, evaluate | inspector | the first match wins |
| telemetry, `telemetry.py` | identity file, log | a loop that sends once a day | other processes, an HTTP endpoint | check-then-write on a shared file; cancellation in a request |
| health endpoint, `health.py` | a cached snapshot and its lock | serve one request per connection | monitors, connection | handlers share the snapshot, their timers cancel them anywhere; the rows are counted inside whatever transaction the proxy has open. What the proxy committed is counted, and no row that was counted goes missing |
| statistics, `stats.py` | none between calls | `compute_stats` | other processes | four queries without a transaction. Each number is one of the log at some moment of the command |
| rule linter, `lint.py` | `SIGALRM`, its timer and handler | `lint_path`, with timed trials under `--strict` | loader (same files) | the signal is handled between any two steps; linter and loader check the same files in different ways |
| settings, CLI, doctor, `config.py`, `cli.py`, `doctor.py` | none that outlives a call | `run` up to its pumps, `detect`, `doctor`, `rules lint` | rules, policy, database, configuration | each reads the same things in its own steps. A start meets nothing unsuitable that a rehearsal has passed |
| benchmarks, `benchmark.py` | none | | | one sequential task whose results are times; not modelled |

The listed hazards (`PROJECT.json`, "hazards") are these, at the lines where they
bite, with the properties that watch them.

## The modules

| module | models | state ↔ code |
|---|---|---|
| `AuditLog` | what the audit trail promises, without queue, task or database: offered events are accepted or refused, stay pending, and end in a log that only grows in order, or are reported as lost | abstract |
| `EventBuffer` | the audit path: the pumps' `record()`, the writer task, aiosqlite's thread with its request queue, the shared transaction, `upsert_classifier_cache`, and the end of `run_proxy` | `queue`, `dropped` = `EventBuffer._queue`, `._dropped`; `writer`, `batch`, `stopping` = where `_run` stands and its locals; `ops`, `reply` = the connection's requests; `tx`, `table`, `session` = the database |
| `EventBuffer_proofs` | theorems about `EventBuffer` | |
| `SharedFile`, `MCSharedFile` | several proxies on one file: the write lock, WAL snapshots, `SQLITE_BUSY` and `SQLITE_BUSY_SNAPSHOT`; in each proxy the three tasks that share its connection, the start with its two session writes and the server between them, cancelled cache writes, statements and commits that fail or are rolled back, a full queue, the 5 s timer of `shutdown()`, and deaths | `phase[p]` = where `run_proxy` stands; `stage[p][t]`, `reply` = where a task stands in its write; `ops` = the connection's requests; `inTx`, `tx`, `snapshot` = its transaction; `lock`, `table` = the file; `lost`, `dropped` = what a flush and `record()` reported |
| `SharedFile_proofs` | theorems about `SharedFile` | |
| `Proxy`, `MCProxy` | both pumps at every await, and `run_proxy` from the session row to the exit; the peers and the operating system around them | `pc[d]` = where the pump of a direction stands; `lock` = `client_write_lock`; `writer`, `pending` = a transport and what its peer has not read; `main` = where `run_proxy` stands |
| `Proxy_proofs` | theorems about `Proxy` | |
| `ClientStreams` | `_BlockingReader` and `_BlockingWriter`, their worker threads, the pumps around them and the exit of the interpreter | `reader`, `writes` = the threads and who awaits them; `lock`, `closed` = the locks and the flag of the writer; `c2s`, `s2c`, `main` = where pumps and `run_proxy` stand |
| `ClientStreams_proofs` | theorems about `ClientStreams` | |
| `Policy` | loading checks, clauses, first match, the built-in policy, direction filter and score of the rules; operators only | |
| `Inspector`, `MCInspector` | `inspect()` with every early return, `classify()` with cache, breaker, Ollama and cache write, the budget, downgrade and overrun | `pc` = where `inspect` stands; `label`, `score`, `note` = its locals; `failures`, `openedAt` = `_CircuitBreaker`; `cache` = `classifier_cache` |
| `Inspector_proofs` | theorems about `Inspector` | |
| `Migration`, `MCMigration` | `Storage.open()` and `close()` in several processes, with crashes, interruptions, failing statements and the busy timeout | `versions`, `objects` = the committed file; `lock`, `created` = who writes, and what its transaction holds |
| `Migration_proofs` | theorems about `Migration` | |
| `Telemetry` | the telemetry loop of several proxies, `_identity()` step by step, `send()` and the log | `file` = `installation_id`; `log` = payloads in `telemetry.log` |
| `Health` | handlers with their timers, `snapshot()` with its lock and time to live, the close; the proxy's transaction in which it counts, other writers and deletions | `lock`, `cache`, `cachedAt` = `HealthState`; `pc`, `deadline` = by connection; `within`, `tx`, `pinned`, `view` = the transaction and what it sees; `table` = the file |
| `Observability_proofs` | theorems about `Health` and `Telemetry` | |
| `Follow` | `stream_events()` and both forms of `latest_events()` against several writers; `WritersSpec` is the file as the viewer assumes it | `cursor`, `rows` = its locals; `shown` = what it yielded |
| `Stats`, `MCStats` | `compute_stats()` query by query, on the table of `Follow` (which it extends) while its writers commit | `at` = the next query; `end` = the window; `total`, `verdicts`, `hits`, `samples` = what the queries gave |
| `RulePacks` | what the rule loader accepts and what the linter says, on the same raw files; operators only | a place (directory, file, nothing), its files and their raw rules |
| `Setup`, `MCSetup` | `doctor`, `detect`, `rules lint` (with and without `--strict`) and the steps of `run` up to its pumps (settings, database, session row, server, its pid, rules, policy), one after the other, with an edit at any moment | `cmd`, `step` = the command and where it stands; `flags` = its options; `timer`, `tripped`, `handler` = `SIGALRM`; `checks` = the doctor's results |
| `Commands_proofs` | theorems about `Follow`, `Setup` and `Stats` | |

How they compose: `EventBuffer` implements `AuditLog`; `SharedFile` implements the
writers of `Follow` (`Follow!WritersSpec`), so that what holds of a viewer of `Follow` holds
beside proxies that fail and die in the middle of transactions; `Stats` runs
beside the writers of `Follow`; `Inspector` uses the operators of `Policy`, and `Setup` those
of `RulePacks`. `ClientStreams` repeats the pumps of `Proxy` with threads in the place of pipe
transports, and keeps of the server's side only what decides when they stop.

One action stands for what the code does between two awaits (or, across
processes, between two system calls). Each operation that the code performs there
is part of the action: recording the rows and testing the stop event, for
instance, belong to the action that completes a write (`Advance` in `Proxy`).
Definitions under a comment that starts with "Slip:" are not part of a
specification. Each is a plausible mistake in the definition that follows it (or
that it is named after), and each property is known to fail when its slip takes
that definition's place; `PROJECT.json`, "mutants", lists which.

How data is abstracted:

- an event is the number of its `record()` call; a line is its number in the
  writing peer's script, with the kinds of its members;
- in `Proxy` the inspector is the choice of blocked members among those that have
  a replacement; `Inspector` says which ones it may choose;
- in `SharedFile` the rows of a proxy are numbered by their frame, and the queue is the set
  of those: their order is that of `EventBuffer`. A row that a cancelled writer writes once more
  is a row of its own. Rows of `sessions` and of the cache are writes without rows. The queue is full
  whenever it likes, unless it is empty. What health and telemetry read on the connection pins
  its snapshot as the lookups of the cache do, which stand for them;
- in `Health` a transaction that cannot write any more stays until some commit or rollback ends it; who
  that is and when is `SharedFile`'s matter;
- in `RulePacks` a raw rule is a record of what the checks tell apart, and a pattern is
  plain, slow or invalid;
- what a pattern matches is not modelled: a frame of `MCInspector` comes with the
  rules that match it. Scores are in hundredths;
- time is a counter in `Inspector`, `Health` and (for the window) `Stats`, and left open elsewhere: a timer
  of `Proxy`, `ClientStreams`, `EventBuffer`, `SharedFile`, `Setup` or `Telemetry` may fire at any point, so nothing is
  concluded from one thing being faster than another;
- in `Follow` and `Stats` ids are dense and ascending: SQLite has one writer, and rolls its counter of
  ids back with the transaction. The program deletes no row of `events`. The user may, by hand
  (`docs/RUNBOOK.md:238`): ids are never given again (`AUTOINCREMENT`), so that a viewer then meets
  gaps, and a report what is left. Both modules leave that out; `Health` has it;
- variables named "history" in a comment are not in the code. They remember what
  a property has to look back at, and no guard reads them.

Points at which a reader may want to compare model and code:

- **Cancellation** follows CPython 3.12. `wait_for()` cancels its argument and waits for
  it; a task that is cancelled while it awaits aiosqlite stops waiting, but the
  request stays in the queue and is executed (`Orphaned` in `EventBuffer`).
- **The shared transaction.** `sqlite3` opens a transaction before the first write,
  nobody rolls back after a failed write, and a commit by any task commits what
  all of them have written (`ExecWrite`, `ExecRowFails`, `ExecCommit`).
- **SQLite's lock.** A connection that waits 5 s for the write lock fails; one whose
  snapshot is older than another's commit fails at once and keeps its transaction and
  snapshot, until a commit or the close ends them (`ExecWrite`, `ExecBusy` in
  `SharedFile`).
- **Worker threads.** `asyncio.to_thread()` cannot be interrupted: the task goes on, the
  thread stays, and `asyncio.run()` and the interpreter wait for it (`Exit` in
  `ClientStreams`).
- **Signals** in the linter are handled between two bytecodes of the main thread: `Alarm`
  sets the flag, `Handle` runs the handler wherever the program then is (`Setup`).
- **The 50 ms batch interval** never delays anything: `_run` flushes as soon as one
  event arrives, with whatever else is in the queue at that moment (`Take`).
- **`drain()`** returns without yielding below the high-water mark, so that writing and
  recording are one step there (`WriteNow`); above it, the pump waits, with the lock
  if it writes to the client (`StartWrite`, `FinishWrite`). The low-water mark
  equals the high-water mark in the model: a pump may wake up earlier than it would.
- **`Health`** waits at its end for the handlers, as `Server.wait_closed()` does since
  Python 3.12; `pyproject.toml` allows 3.11, which does not wait.
- **`Telemetry`**: a sleep may end at any time. The user does not remove
  `installation_id` between a proxy's `open()` and its `write()`.

## What the runs check

Run a configuration with `tlc -config <run>.cfg <module>`. Runs that are expected
to pass:

| run (module) | question | properties |
|---|---|---|
| `EventBufferFaults` (`EventBuffer`) | Does the audit path keep its promise while statements and commits fail and SQLite rolls transactions back by itself? Shutdown is not cut short, and no cache write shares the transaction. | `InOrderOnce`, `ImplementsAuditLog` (refinement) |
| `EventBufferTimeout` (`EventBuffer`) | And when a cache write shares the transaction, and commits it, between an insert and its commit, and the 5 s timer cancels the writer at any await? SQLite does not roll back by itself. | `FlushedIsDurable`, `AtMostTwice`, `AllAccountedFor`, `SessionEnded`, `ShutdownCompletes` (liveness) |
| `SharedFileTwo` (`MCSharedFile`) | Two proxies on one file, with cancelled cache writes, stale snapshots, busy timeouts and deaths; in one of them statements and commits fail or the shutdown runs out of time. Is what the other reports the truth, does a write lock that was left behind come back, and what does a viewer see? | `LockIsOnItsWayBack`, `ReportIsExact`, `LockIsGivenBack` (liveness), `ImplementsWriters` (refinement) |
| `ProxyMixed` (`MCProxy`) | Single lines, batches, arrays of one, blank and oversized lines in both directions, any of their members blocked, back-pressure on both sides, peers that vanish and signals: what is written, answered and recorded, and does the proxy end? | `InOrder`, `BlockedAreAnswered`, `AuditFollowsTraffic`, `ExitIsClean`, `RepliesWritten`, `Terminates` (liveness) |
| `ClientStreamsThreads` (`ClientStreams`) | Worker threads that cancelled pumps left behind: do they tear lines apart, swallow them or keep the process? | `OneWriter`, `SentIsOut`, `LinesArePassedOn`, `ProcessEnds` (liveness) |
| `InspectorCascade` (`MCInspector`) | Inspections follow one another under the built-in policy and one of the runbook, while Ollama and the database answer, fail or stay silent. Do the rules' blocks stand, does the breaker keep its cool-down, is a cached label one of the same content and recent? | `RulesStandAlone`, `OpenHolds`, `CacheIsHonest` |
| `MigrationCrashes` (`MCMigration`) | Three processes open files of every age while they crash, fail, time out and are interrupted. Is the schema ever half a version, and does an opener hold up the others, unless it was interrupted and its process lives on? | `StampedIsComplete`, `OpenIsCurrent`, `MigratesAtOnce`, `OpenEnds` (liveness) |
| `TelemetryDaily` (`Telemetry`) | Two proxies share identity and log, with deaths, removals, a failing disk and a silent endpoint. | `SentIsLogged`, `IdentityIsKept` |
| `HealthProbes` (`Health`) | Two monitors at once, slow, failing and hanging queries, and the handlers' timers, on a connection whose transaction is written, rolled back and left open beside other writers and deletions. | `AnswersAreFresh`, `NeverGoesBack`, `ScansAreRare`, `CloseEnds` (liveness) |
| `StatsTail` (`MCStats`) | A viewer and a statistics command beside two writers that commit and roll back. | `ShownInOrder`, `ReportsAreRight`, `AllShown` (liveness) |
| `SetupCommands` (`MCSetup`) | `doctor`, `detect`, `rules lint` and `run` in a row, on files with every mistake and an edit at any moment. Does a start meet anything unsuitable that a rehearsal passed, do linter and loader agree, do the linter's timers keep apart? | `LintIsRight`, `TrialsAreApart`, `RehearsalIsRight` |

Each passes. What that shows beyond the formulas:

- The order of the log survives every mixture of half-done flushes, because the
  rows that a failed `executemany` leaves in the transaction are older than any
  that follow. The refinement of `AuditLog` needs one concession: a failure report
  may be too pessimistic (`GiveUp`).
- A cancelled writer may write a batch twice, never three times.
- A writer that died of a failed flush would block shutdown before its timer is
  even started, since `put(None)` has no timeout; that it does not die is what
  `ShutdownCompletes` rests on.
- After the half-close every line of a server that answers within 10 s is handed to the
  transport of the client, unless the client leaves or a signal or an oversized line ends the pump.
  `RepliesWritten` says no more than that: the transport is not awaited, and what it still
  holds when the event loop ends is lost (`RepliesReach`, [below](#where-the-code-differs-from-what-is-said-of-it)).
- `ExitIsClean` is about both ways in which `run_proxy` ends. If it ends by an exception, no pump is left
  and the lock is free, but the session, and possibly the server, stay (`SessionIsClosed`, below).
- What a flush returned for is durable although a cache write may commit its
  rows before it does: as long as SQLite does not roll back by itself (`EventBufferSharedTx`, below).
- A cancelled cache write may leave the file locked for every other proxy, but
  only until the frame that was inspected is recorded, which commits: the pump goes on to do so,
  or the end of the session does. That nothing else is needed is the content of
  `LockIsOnItsWayBack`, and why a quiet client is no danger. It is not true of a write that
  fails in the middle: its writer goes back to wait for an event, with the lock (`SharedFileHalfFlush`,
  below), until the end of its session (`LockIsGivenBack`).
- With proxies that fail and die at any point, a viewer still sees what it would see of a single writer
  (`ImplementsWriters`).
- `ReportIsExact` says what others cost a proxy: a flush that fails because of their lock or their commits,
  at the first row, leaves nothing in the transaction, and exactly its rows are reported. It is
  about a proxy of which no statement fails by itself and whose shutdown ends in time
  (`faults[p] = 0`). Otherwise it is not true: rows reported as dropped may be stored
  after all (`EventBufferDropping`), and rows left in the queue are neither stored nor reported
  (`EventBufferCancelled`). Waiting for the locks of others takes 5 s each time, and so may itself
  make the shutdown, which has 5 s, run out of time; `ShutdownTimeout` may fire at any moment, and counts as a fault.
  Rows that met a full queue are counted by `record()`, and are in `dropped`.
- A worker thread that a cancelled write left behind could tear the next line apart, since both
  locks are free again. It does not, because a pump is cancelled only when the other one has
  ended or ends with it: one step of `run_proxy` decides that, and `OneWriter` and its mutant
  show that it has to be one.
- Among the settings, the audit file, the rules and the policy, a start meets nothing that will not do
  after `doctor` or `detect` has passed the same ones, unless they were edited since they were read.
  A start may end for other reasons, of which no rehearsal says anything: a server command that does not
  start (`proxy.py:107`), or a write to a database that another process holds at that moment. The
  doctor's database check opens the file as `run` does, and so finds the others. A directory of
  rules that the linter passes and the loader refuses has an id twice (below), and one that it does not pass is
  refused or empty.
- A handler that waits for the snapshot's lock cannot publish an older count over a
  newer one, however its query was delayed. A row that an answer counted is missing in a later one
  only if it was rolled back (answers count what is not committed yet) or deleted. An answer may miss
  what other proxies committed while a transaction of this one was left open (`HealthShared`, below).

The run that TLC is expected to refute, `ProxyWedged`, is described
[below](#where-the-code-differs-from-what-is-said-of-it). Another configuration,
`InspectorTypes`, checks shallower facts: the types of `Inspector`, that an inspection ends, and that an instruction
is marked.

### Bounds

| bound | value | why it is enough |
|---|---|---|
| `QueueMax`, `BatchSize` | 3 and 2, or 4 and 2 with a cache write | a full queue, a full batch with more events or the `None` behind it, and a batch that empties the queue all occur |
| `MaxEvents`, `MaxUpserts` of `EventBuffer` | 5, and 0 or 1 | enough to drop an event while a batch is written and the queue is full, and for a cache write between two flushes |
| `MaxFrames` of `MCSharedFile` | 2 and 1 | one proxy flushes while the other holds the lock, and again when its snapshot is stale |
| `MaxFaults` of `MCSharedFile` | 1 in the proxy with two frames, none in the other | a row, a commit or the shutdown fails, in a batch of one row or two, and the proxy goes on with what that leaves behind |
| scripts of `MCProxy` | 1–2 lines each way | each kind of line, and one after it; with `PipeMax` 0 and `HighWater` 1 the second line meets back-pressure |
| `MaxLines`, `MaxReplies` | 3 and 3 | a line in a pump's hands, one in a thread that was left behind, and one that nobody reads |
| times of `MCInspector` | budget 1, HTTP timeout 1, threshold 2, cool-down 2, time to live 1, end at 4 | the breaker opens, is tested before its time and closes; labels are used, expire and are replaced. A budget shorter than the HTTP timeout is the configuration `InspectorSlow` |
| frames of `MCInspector` | 14 | one for each early return and each kind of rule hit, and a second content |
| `Openers`, `MaxLaunches` | 3 and 4 | one may crash or be interrupted and another come while one holds the lock |
| `Columns` of `MCMigration` | 3 of the migration's statements | two columns and a table; the remaining statements repeat these kinds |
| `MaxSends` | 2 per process | an identity read, removed and minted again |
| `MaxTime`, `MaxRows`, `Connections` of `Health` | 3, 2, 2 | one handler scans while the other waits for it, or comes later; with `Timeout` 2 and `Ttl` 1 both expire; one row is the proxy's and one another's, or both are of one transaction |
| `MaxRows`, `InitialTail`, `Chunk` of `Follow` | 4, 1, 2 | more rows than one poll takes, before and after the start |
| `Logs`, `Span`, `Now` of `MCStats` | two logs of five rows, 2, 5 | times that are not in the order of ids, rows on both edges of the window, latencies that are NULL, one or many, rule lists that are no lists, two rules with as many hits |
| packs of `MCSetup`, `MaxCommands`, `MaxEdits` | one mistake of each kind, 2 and 1 | a rehearsal and a start, with the edit before, between or within them; three timed trials |

Where a bound stops the model rather than the program (`MaxTime`, `MaxLaunches`), an
explicit stuttering step keeps the deadlock check meaningful; only `Setup` is checked
without it, since nobody has to type another command. The code's own limits
(queue of 10 000, batches of 100, 500 rows a poll) are constants of the models.

### Fairness

Only what the code's scheduling justifies is assumed:

- the event loop runs a task that is ready (`WF` on the steps of the pumps, the
  writer, `run_proxy`, the openers and the telemetry loop), and aiosqlite's thread
  executes what is submitted (`EventBuffer`);
- a connection's thread ends each request: it executes it, or fails, after 5 s if it waits for
  the lock; the tasks go on when the answer is there (`SharedFile`). Not that a session ends:
  `Stop` is the user's or the server's to take, and so is a next frame;
- the client of `ClientStreams` reads what it is sent or closes its stdout, and finally
  closes its stdin. Without the last, a process whose server has ended may wait for ever:
  see `ClientStreamsServerEnd`, whose specification `ProxySpec` drops just this assumption;
- a command of `Setup` goes on, and a timer that is set goes off;
- timers fire, and SIGKILL kills (`Proxy`, `Inspector`, `Health`). In `Inspector` and
  `Health` time passes, and not beyond a timer that is due;
- in `Proxy` the peers read what they are sent. Without that, a server may wedge the
  proxy: see `ProxyWedged`, whose specification drops just this assumption for the
  server;
- an opener whose process lives runs, unless it was interrupted (`Migration`);
- nothing is assumed of Ollama, the telemetry endpoint, a monitor, the database (in
  `Inspector` and `Health`), the users, or of faults and crashes.

## What is proved

TLAPS checks the eight modules `*_proofs` in full. The theorems hold for
every value of the constants that satisfies the assumptions in the modules, which TLC
evaluates in the runs above.

**EventBuffer** (any queue and batch size, any number of events and cache writes, any set
of faults, with or without the shutdown timer):

- `TypeCorrect`: `TypeOK` is invariant. It is not inductive: a wake-up could exceed
  the batch size if the batch were not empty while the writer waits, and `None` is
  the last element of the queue only because nobody records once `shutdown()` has put
  it there. `TypeInv` adds these two facts.
- `OrderInvariance`, `LogInOrderOnce`: unless the writer is cancelled, the log holds the
  events in the order of `record()` and none twice, whatever fails. The inductive
  invariant says more: everything the audit path holds (the durable table, the open
  transaction, the submitted statements, the writer's batch while its insert is not
  submitted, the queue, and the next event) is one increasing sequence. Each step only
  moves rows to the left in that sequence, drops some, or appends at the end.
- `StoredAtMostTwice`, whatever fails and whoever is cancelled. Before a cancellation that is
  the order above. After one, `RunsInv` says that what is stored and written is two increasing
  sequences, one after the other: the second copy of the batch follows everything else, since the writer
  takes nothing from the queue any more, and the write that nobody awaits belongs to the first.
- `SessionEndIsDurable`: the end of the session has its two requests for itself, since
  the writer has ended before the first one (`SessionInv`).
- `FlushedRowsStay`, `NothingIsLostSilently`, also for a cancelled writer. They assume `Unshared`:
  SQLite never rolls back by itself, or there are no cache writes (each of the two runs has one of
  these; without either the configuration `EventBufferSharedTx` is the counterexample). The
  invariant `Kept` follows the batch: until it is answered it is in the writer's only
  request, then in the transaction, from which only a commit takes it, since
  without cache writes that request is the last one and nobody comes between insert and commit.
- `ImplementsTheAuditTrail`: under `Unshared`, as long as nobody is cancelled, each step is one of
  `AuditLog` or leaves its state alone; so it is in every behaviour of an instance without the
  timer (`ImplementsWithoutTimeout`). `PlacesInv` says that the queue, the batch, the
  transaction and the table hold nothing but accepted events, that a request brings the batch of
  its writer, and that a row of the transaction which left the batch was reported, so that
  a rollback loses nothing silently. A cancelled writer stores rows twice, which `AuditLog` excludes.

**Migration** (any base schema and migration, any number of openers, launches, crashes and
faults, any file that was complete for the version it claims):

- `TypeCorrect`: types, and that only the owner of the write lock is in a transaction;
- `StampedFilesAreComplete`, `OpenFilesAreCurrent`, `MigrationIsAtomic`. The invariant
  `IInv` adds `ProgressOK`: an opener in the migration has created, in its transaction or
  in the file, what the statements before its next one create. That is what makes the
  commit complete. No transaction of another can interfere, since `lock` has one owner.

**SharedFile** (any number of proxies, of frames and of failures of each):

- `OthersCostSoundProxiesReportedRows`, `AbandonedLockIsTemporary`, about the proxies of which nothing has
  failed yet but for the lock (`faults[p] = 0`), whatever fails in the others. The invariant `IInv` says of
  each proxy what holds whatever fails (`RequestsOK`, `PhaseOK`, `FreshOK`), and of a sound one where the
  rows of its frames are (`SoundOK`). It follows each batch through the requests of its writer, of which there is at
  most one at a time: before its write, in the transaction, in the table, or reported. For the
  lock it uses the order of the requests: a write that nobody awaits any more comes before
  whatever its connection is asked next, and the frame that was inspected, not recorded yet, makes sure that
  something is. A proxy that is sound after a step was sound before it, so that it took none of the steps
  that fail (`SoundStays`). `OthersKeep` shows that no step of another proxy disturbs any of this: it can only
  commit rows of its own, make a snapshot stale and end a proxy's being alone.
- `ProxiesAreWriters`, for a finite set of proxies, whatever fails: their steps are those of
  `Follow!WritersSpec`. The viewer knows rows by number only, so this is a matter of counting. `FreshOK` says
  that rows which are still queued or requested are in no transaction and not in the table, even when a cancelled writer writes its
  batch once more, and that only the owner of the lock has rows in a transaction (`TxInv`), so that a
  commit adds as many rows as its transaction had.

**Proxy** (any lines in any number, any sizes of pipe and transport, any choice of blocked
members): `EndsLeaveNoPump` (about both ends, by return and by exception), `LinesStayInOrder`,
`BlockedLinesAreAnswered`, `RowsFollowTraffic`, `LastRepliesAreWritten` (as far as the client's transport). Of the scripts it is assumed only that they are sequences of lines. The invariant
`IInv` has five parts:

- `TypeInv`, and `LockHeld`: who holds the client's write lock;
- `LifeInv` relates the phase of `run_proxy` to the pumps and the server process. A pump that has
  ended has a result, and a phase after the drain has no pump that still runs;
- `TrafficInv` follows each line from its pump to the writer and the audit log. A line
  with the number `pos` is still at its pump, whose stand tells what has been done with it; one
  with a smaller number is recorded, and written unless its writer had closed (`LineOK`). What has been
  written went to the one peer that the inspection decides on and answers every request it
  stands for (`OutOK`). This is what makes `InOrder` inductive: a pump at the n-th
  line has written or recorded nothing beyond it;
- `DrainInv` lists how the server's pump ends: returned, with all written that the server had
  written before its end; cancelled, after a signal or the 10 s; or with the client gone.

The lemmas `ReadTraffic`, `InspectTraffic` and `WriteTraffic` say what the three stages of a pump do to a
line; the steps of `run_proxy`, of the peers and of the operating system leave lines and rows alone
(`TrafficStays`).

**ClientStreams** (any number of lines each way):

- `ThreadsTakeTurns`, `AtMostOneLineIsLost`, `RowsTellWhatWasSent`. None is inductive: the
  invariant adds that a thread is left behind only when both pumps have ended or are about to,
  so that nobody starts another one, and that a thread which reads has no line of a pump
  beside it.

**Inspector** (any threshold, budget, times, frames and policies):

- `CoolDownHolds`: the counter of the breaker equals the history's count of consecutive
  failures as long as calls are made only by a closed breaker, which the invariant states of
  every state in which a call is under way;
- `HitsAreHonest`: each row of the cache goes back to an answer, and is older than it by at most
  the budget of one inspection;
- `RulesBlockAlone`: what the rules block is blocked whatever the classifier does. This is not true of every
  policy: one that lets frames with a label pass before it asks for the score lets a
  rule's block go. The theorem is about policies of which `BlocksStand` is true: a rule that does
  not block and listens to the classifier comes after the rules that block in its direction, and
  no block waits for a label to be missing. The lemma `BuiltinStands` shows this of the built-in policy, and
  the one of the runbook in `MCInspector` is of the kind too. The rest is about the two
  scores: the combined one is at least that of the rules, so each `detector_score_at_least` that
  the rules reach is still reached.

**Health** (any number of monitors, any times, rows and transactions, in `Observability_proofs`):

- `CountedStaysCounted`, `OwnRowsAreCounted`, `ScansKeepApart`, from a chain of comparisons of sets of rows: the last
  answer, the cache, the query of the handler that holds the lock, and what is visible on the
  connection. Each has what the one before it has, but for rows that are gone, and nobody else can publish
  one in between. That it stays so is the lemma `VisibleGrows`: a transaction that begins, reads or ends hides
  nothing that was visible, since only one that sees all that is committed can write. Of the rows of
  other proxies `OwnRowsAreCounted` says nothing: they may be hidden (`HealthShared`).

**Telemetry** (any number of processes, in `Observability_proofs`): `PostedIsLogged`, `IdentityStays`. Until the file is removed
nobody finds a reason to mint an identity.

**Follow** (any number of writers, any sizes, in `Commands_proofs`): `RowsComeInOrder`. `cursor` alone does not suffice,
since after the seed it is ahead of what was shown: the invariant relates it to the
rows that are still to be yielded.

**Setup** (any rules, policies and configurations, any edits, any number of commands, in
`Commands_proofs`): `TrialsKeepApart`, `LinterAgreesWithLoader`, `RehearsedThingsSuit` (about what both commands
look at, not about the server command or a busy file). The assumption on what the
commands find lists the forms a rule file may have. What a command has found out of a thing is kept
as a fact about the thing for as long as nobody edits it (`current`): `LintInv` for the linter, `DoctorInv` and
`DetectInv` for the two rehearsals, each true from the moment at which the thing was read.
`TimerInv` says that a signal that is on its way holds up the trial to which it belongs.

**Stats** (any log, window and number of rows, in `Commands_proofs`): `ReportsAreTimely`. The rows
that a query selects only become more, so that a number taken at a moment of the command lies between those of its start
and its end; `ReportInv` says so of the queries that are done, one after the other. That an interpolated
percentile is a quantile (`PercentileIsQuantile`) holds of any number of samples; it rests on there
being an order that sorts them (`OrderExists`), which no recursion provides here: a least
number of samples for which there were none would lead to a smaller one.

Model-checked only: liveness under fairness and `ENABLED`, which are out of the prover's
reach. These are `ShutdownCompletes`, `LockIsGivenBack`, `Terminates`, `ProcessEnds`, `OpenEnds`, `CloseEnds` and
`AllShown`. Every other property of a run that passes is a theorem. The induction theorems of the
library take an operator as a parameter, which the provers cannot instantiate; where a fact about
natural numbers needs induction it is proved by a least counterexample (`NatLessThanWellFounded`, `WFMin`).

## Where the code differs from what is said of it

One of these is a regular run, with the counterexample as its result:

- `ProxyWedged`: `server_writer.aclose()` is awaited without a timeout before any timer
  starts (`proxy.py:213`). A server that no longer reads its stdin is never
  terminated, where `docs/RUNBOOK.md:102` says "wait up to 10 s for replies, then escalate
  to `terminate` and `kill`".

The others have a configuration that reproduces them and are not part of the regular runs.
Where a configuration has several, `tlc -continue` shows them all.

- `EventBufferCancelled` (`DrainedAtClose`, `storage.py:449`): When the 5 s timer of
  shutdown() fires, the writer is cancelled, flushes its current batch and ends; the
  events still queued are neither stored nor reported.
  docs/adr/0001-stdio-proxy-via-asyncio-subprocess.md:36 says "On normal shutdown we
  drain."
- `EventBufferCancelled` (`RowsMatchRecords`, `storage.py:494`): The cancellation handler
  of _run() flushes its batch again although the executemany and commit it was waiting
  for still run in aiosqlite's thread, so each event of the batch is stored twice.
  tests/test_storage.py:99 expects as many rows as recorded events: "assert await
  storage.event_count() == 20".
- `EventBufferDropping` (`ReportedStayOut`, `storage.py:489`): A failed executemany
  leaves its rows in the open transaction, nobody rolls it back, and the next commit
  stores them. storage.py:489 logs "failed to flush %d events; dropping".
- `EventBufferSharedTx` (`FlushedIsDurable`, `storage.py:252`): insert_events() and
  upsert_classifier_cache() share one connection and transaction: if SQLite rolls it
  back under the cache write between the insert and its commit, the commit succeeds
  without the rows and insert_events() returns as if they were stored.
  docs/adr/0002-sqlite-with-async-queue-writer.md:9 says "We need to durably log every
  MCP frame."
- `SharedFileHalfFlush` (`FailedFlushLeavesTheFile`, `storage.py:489`): A row of
  executemany() that fails, or a commit that does, leaves the transaction open and with
  it SQLite's write lock; the writer reports the batch as dropped and waits for the next
  event, and as long as there is none no other proxy on the file can write.
  storage.py:489 logs "failed to flush %d events; dropping".
- `ProxyEndings` (`SignalDrains`, `proxy.py:205`): On SIGINT or SIGTERM both pumps are
  cancelled at once; only the end of the client's stdin starts the 10 s wait.
  docs/RUNBOOK.md:102 says "the proxy's signal handler will close the server stdin, wait
  up to 10 s for replies".
- `ProxyEndings` (`EveryFrameLogged`, `proxy.py:408`): A frame is recorded after the
  drain of its writer; a pump cancelled there has written a frame that is not logged.
  docs/adr/0001-stdio-proxy-via-asyncio-subprocess.md:12 says "Logs every JSON-RPC frame
  in both directions."
- `ProxyEndings` (`SessionIsClosed`, `proxy.py:102`): If the server process, the rules
  or the policy fail at the start, or the server's pump fails during the 10 s wait,
  run_proxy() raises past end_session(). docs/adr/0003-event-log-schema.md:26 says of
  ended_at "NULL while running".
- `ProxyEndings` (`RepliesReach`, `proxy.py:210`): The client's writer is closed but
  never awaited: what is in its transport when run_proxy() returns is lost with the
  event loop. proxy.py:211 says "let the server drain any pending replies before we tear
  down s2c."
- `ProxyClaims` (`LongForwarded`, `proxy.py:299`): StreamReader.readline() raises
  ValueError for a line over its limit (for the server's stdout asyncio's default of 64
  KiB), which ends the pump and with it the session. README.md:53 says "frames over the
  line limit are forwarded byte-for-byte and logged as `raw`".
- `ProxyClaims` (`ArrayKept`, `proxy.py:335`): An array of one member counts as a single
  frame, so that its replacement is an object. proxy.py:335 says "we replace the entire
  batch (wrapped as an array to keep JSON-RPC format valid)".
- `ProxyClaims` (`AllMembersAnswered`, `proxy.py:475`): A response of the client in a
  blocked batch is skipped: it reaches neither the server nor is it answered.
  proxy.py:436 says "synthesise per-id error replies for ALL members".
- `InspectorSlow` (`SlowOllamaOpens`, `inspector.py:112`): The inspector cancels
  classify() after 200 ms, before the HTTP timeout of 1000 ms; CancelledError is not
  counted as a failure, so Ollama may time out for ever without opening the breaker.
  README.md:60 says "If it is down or hits the timeout 3× in a row, the circuit breaker
  opens for 60 s".
- `InspectorProbe` (`ProbeReopens`, `detectors/llm.py:61`): After the cool-down
  is_open() resets the failures to zero: a first call that fails does not reopen the
  breaker, and another threshold of failures is needed. detectors/llm.py:47 says
  "Half-open is implicit on first try after the cool-down expires."
- `InspectorClaims` (`InstructionOnlyWarns`, `policy.py:205`): The label INSTRUCTION
  alone gives the score 0.85, which block_high_score_s2c, the first rule, blocks.
  policy.py:197 says "INSTRUCTION-only signal warns rather than blocks".
- `InspectorClaims` (`TraceIsRecorded`, `inspector.py:179`): The trace id is put into
  the note only if the classifier left none; blocks by rules alone, cache hits and
  degraded inspections have another note. inspector.py:23 says "a ``trace=<hex>``
  correlation id we also record on the audit row".
- `InspectorCombined` (`AnswerIsCombined`, `detectors/llm.py:185`): classify() returns
  its label only after the cache write: if that fails, or the budget ends during it, the
  answer is thrown away. inspector.py:17 says "Combine ``score = max(rules,
  classifier)``."
- `MigrationClaims` (`SecondSkips`, `storage.py:171`): The version is read before BEGIN
  IMMEDIATE and not again: the second opener waits for the lock and then runs every
  statement of a migration that is done. docs/AUDIT-REPORT-week2.md:39 says "the second
  writer blocks until commit, then re-reads `schema_version` and skips."
- `MigrationClaims` (`NextOpenRetries`, `storage.py:195`): `except Exception` lets a
  CancelledError through, and run_proxy() opens outside its try (`proxy.py:100`): an
  open() that is interrupted leaves BEGIN IMMEDIATE on a connection that nobody rolls
  back or closes, and as long as the process lives no other open() gets the lock.
  storage.py:163 says of a crash mid-way that "the next open will retry from the same
  starting point".
- `HealthShared` (`CountersAreLive`, `health.py:64`): event_count() runs in the
  transaction the proxy has open, if any; where that has read before, the rows other
  proxies committed since are missing from the answer until it ends. health.py:38 says
  "Counters come from the live :class:`Storage` but are cached for 1 s".
- `TelemetryClaims` (`LoggedFirst`, `telemetry.py:230`): send() posts the payload and
  logs it when the answer is there; a cancelled request is never logged.
  docs/adr/0005-observability-and-telemetry.md:90 says "Every payload is appended
  verbatim to `data/telemetry.log` ... **before** the HTTP call."
- `TelemetryClaims` (`OneIdentity`, `telemetry.py:141`): _identity() tests for the file
  and writes it in steps that another proxy's may fall between: each mints an identity
  of its own, or takes the file that is just being written for unreadable and replaces
  it. docs/adr/0005-observability-and-telemetry.md:77 says "`installation_id` is a
  random UUID generated on first telemetry-enabled run and stored in
  `data/installation_id`. Removing the file resets the identity."
- `FollowZero` (`OldRowsAreTail`, `storage.py:515`): An empty seed sets the cursor to 0
  even if the table has rows, which are then all yielded as new. storage.py:511 says
  "Yields the last ``initial_tail`` rows up front (so the user sees recent context) and
  then polls for new rows by id."
- `SharedFileStuck` (`StoresWhenAlone`, `storage.py:252`): A failed INSERT leaves the
  transaction that sqlite3 began for it open, with the snapshot of the reads before it:
  while other proxies commit that snapshot grows stale, and once they have gone flush
  after flush of a proxy that is now alone with the file may still fail with
  SQLITE_BUSY_SNAPSHOT. README.md:49 says "every JSON-RPC frame in both directions,
  persisted to SQLite"; docs/adr/0002-sqlite-with-async-queue-writer.md:34 does not
  support several proxies on one file, which the default path gives them.
- `ClientStreamsServerEnd` (`EndsWithServer`, `proxy.py:670`): When the server has
  ended, run_proxy() returns, but the interpreter waits for the thread that was left
  behind in readline() until the client sends a line or closes.
  docs/adr/0001-stdio-proxy-via-asyncio-subprocess.md:23 says "On EOF from either side,
  the proxy flushes the queue and exits with the child's return code."
- `SetupClaims` (`LintMirrorsLoader`, `lint.py:70`): The linter looks at one rule at a
  time and passes ids that occur twice, which the loader refuses. lint.py:7 says of the
  basic checks that they mirror what RulesEngine.from_directory enforces.
- `SetupClaims` (`LintReturns`, `lint.py:140`): An entry of apply_to that cannot be
  hashed is a TypeError, and a file that is no UTF-8 a UnicodeDecodeError, which
  lint_path() does not catch. lint.py:66 says "Returns an empty list when the lint
  passes; a non-empty list of LintIssue otherwise."
- `SetupClaims` (`TrialsReturn`, `lint.py:222`): A signal that is handled before the
  search begins, or in the finally clause after it, leaves _timed_match_ok() as a
  TimeoutError. lint.py:202 says "Return ``True`` if ``pattern.search(text)`` completes
  within ``timeout_s``."
- `SetupClaims` (`DoctorOnlyLooks`, `doctor.py:133`): _check_db() opens the storage,
  which migrates it; the branch for an old version is never reached. doctor.py:149 says
  of an old version that a migration is pending and will apply with the next run.

## What is not modelled

- `benchmark.py`: one sequential task that keeps no state and whose results are times.
- What a regular expression matches, homoglyph folding and the three passes over
  normalised text (`detectors/rules.py`); prompt assembly and label parsing
  (`detectors/llm.py`); the text of replacements; the columns of an event row
  (`models.py`). They are data to every property here.
- A client with one pipe and one blocking stream: `ClientStreams` has both blocking, `Proxy`
  both as pipes.
- SQL beyond what a query returns: the verdict filter of `latest_events()`, the parsing of
  `--since`, and the rendering of both commands.
- Telemetry's statistics come from the proxy's own connection, and so may count rows that
  are in its transaction; the reports checked in `Stats` are those of the command, which has its own.
- The settings that no modelled step depends on (ports, timeouts, paths) are merged like
  those that are in `Setup`. The verdict that `detect` prints is that of `Inspector` without a classifier.
- HTTP parsing in `health.py`: a request is accepted or refused.
- A connection that a failed `open()` leaves unclosed keeps a file handle, of which nothing is said. If a
  statement of the migration failed it holds no lock, since that path rolls back; if `open()` was interrupted, or
  could not commit the first version row, it may, and `Migration` keeps the lock with it (`Abandon`).
- Deletion of rows by the user while a viewer or a report runs (`Follow`, `Stats`; see above).

## Plan

Done, in this order: the audit path and its promise (`AuditLog`, `EventBuffer`), the proxy
(`Proxy`), the inspection (`Policy`, `Inspector`), the shared files (`Migration`, `Telemetry`,
`Follow`), the health endpoint (`Health`), several proxies on one file (`SharedFile`), the blocking
fallbacks (`ClientStreams`), the commands around a start (`RulePacks`, `Setup`) and the
statistics (`Stats`); proofs of all that is checked of these, except liveness.

To come:

1. an abstract specification of what client and server may observe of a proxy, which
   `Proxy` and `ClientStreams` both implement, with its proof;
2. the streams of a client of which only one is a pipe.
