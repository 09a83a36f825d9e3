------------------------------ MODULE ClientStreams -----------------------------
(***************************************************************************)
(* The proxy where asyncio cannot use the client's streams as pipes        *)
(* (proxy.py, _BlockingReader and _BlockingWriter): each readline() and    *)
(* each write runs on a worker thread, which a cancelled task leaves       *)
(* behind, and which Python waits for before the process exits.            *)
(*                                                                         *)
(* The server's side, the audit rows and the end of the server are those   *)
(* of Proxy, reduced to what decides when the pumps stop.                  *)
(***************************************************************************)
EXTENDS Integers, Sequences, SequencesExt, FiniteSets

CONSTANTS
    MaxLines,       \* bound: lines of the client
    MaxReplies      \* bound: lines of the server

ASSUME LinesAssumption == MaxLines \in Nat /\ MaxReplies \in Nat

VARIABLES
    typed, stdin,       \* lines the client has sent; its stream: open or closed
    stdout, output,     \* the client's other stream, and what came out of it
    replies, server,    \* lines the server has written; whether it runs
    fetched,            \* lines of the server that its pump has read
    c2s, s2c,           \* where each pump stands
    line,               \* the client's line that is in the hands of its pump, or 0
    reader,             \* the thread in readline(): idle, reading or left behind
    taken,              \* number of lines that were read off stdin
    handled,            \* lines of the client that were passed on or answered
    writes,             \* threads in _sync_write(), with the pump that awaits each
    lock, closed,       \* client_write_lock (and _lock); the flag of the writer
    recorded,           \* lines to the client whose rows were recorded
    stop, main          \* stop_event; where run_proxy and the process stand

client  == <<typed, stdin, stdout>>
peer    == <<replies, server>>
pumps   == <<c2s, s2c, line, fetched>>
threads == <<reader, taken, writes, output>>
vars    == <<client, peer, pumps, threads, handled, lock, closed, recorded, stop, main>>

Free == "free"

\* An answer to the client's n-th line, and the server's n-th line.
Answer(n) == <<"answer", n>>
Reply(n)  == <<"reply", n>>

Init ==
    /\ typed = 0 /\ stdin = "open" /\ stdout = "open" /\ output = <<>>
    /\ replies = 0 /\ server = "runs" /\ fetched = 0
    /\ c2s = "read" /\ s2c = "read" /\ line = 0
    /\ reader = "idle" /\ taken = 0 /\ handled = {}
    /\ writes = {} /\ lock = Free /\ closed = FALSE
    /\ recorded = {} /\ stop = FALSE /\ main = "waits"

-------------------------------------------------------------------------------
(* The client, who types lines, and may close its streams; the server.     *)

Type == /\ stdin = "open" /\ typed < MaxLines /\ typed' = typed + 1
        /\ UNCHANGED <<stdin, stdout, peer, pumps, threads, handled, lock, closed,
                       recorded, stop, main>>

CloseStdin == /\ stdin = "open" /\ stdin' = "closed"
              /\ UNCHANGED <<typed, stdout, peer, pumps, threads, handled, lock, closed,
                             recorded, stop, main>>

CloseStdout == /\ stdout = "open" /\ stdout' = "closed"
               /\ UNCHANGED <<typed, stdin, peer, pumps, threads, handled, lock, closed,
                              recorded, stop, main>>

ServerWrites == /\ server = "runs" /\ replies < MaxReplies /\ replies' = replies + 1
                /\ UNCHANGED <<client, server, pumps, threads, handled, lock, closed,
                               recorded, stop, main>>

ServerExits == /\ server = "runs" /\ server' = "gone"
               /\ UNCHANGED <<client, replies, pumps, threads, handled, lock, closed,
                              recorded, stop, main>>

Signal == /\ main \in {"waits", "drains"} /\ ~stop /\ stop' = TRUE
          /\ UNCHANGED <<client, peer, pumps, threads, handled, lock, closed,
                         recorded, main>>

-------------------------------------------------------------------------------
(* The worker threads.                                                     *)

\* readline() comes back with a line or, at the end of the stream, with b"";
\* what a thread that was left behind has read goes nowhere.
ReadLine ==
    /\ reader # "idle"
    /\ taken < typed \/ stdin = "closed"
    /\ taken' = IF taken < typed THEN taken + 1 ELSE taken
    /\ IF reader = "left"
         THEN UNCHANGED <<c2s, line>>
         ELSE IF taken < typed
              THEN c2s' = "inspect" /\ line' = taken'
              ELSE c2s' = "end" /\ line' = 0
    /\ reader' = "idle"
    /\ UNCHANGED <<client, peer, s2c, fetched, writes, output, handled, lock, closed,
                   recorded, stop, main>>

\* A pump goes on after a write: it records the line and reads the next one,
\* or ends, and gives the lock back either way.
Wrote(pump, text, done) ==
    /\ lock' = Free
    /\ recorded' = IF done THEN recorded \cup {text} ELSE recorded
    /\ IF pump = "c2s"
         THEN /\ c2s' = IF done THEN "read" ELSE "end"
              /\ line' = 0
              /\ handled' = IF done THEN handled \cup {line} ELSE handled
              /\ UNCHANGED <<s2c, fetched>>
         ELSE /\ s2c' = IF done THEN "read" ELSE "end"
              /\ UNCHANGED <<c2s, line, fetched, handled>>

\* _sync_write() and flush(), which return when the client has room for it.
Write(w) ==
    /\ w \in writes /\ stdout = "open"
    /\ output' = Append(output, w.text)
    /\ writes' = writes \ {w}
    /\ IF w.by # "nobody" THEN Wrote(w.by, w.text, TRUE)
       ELSE UNCHANGED <<pumps, handled, lock, recorded>>
    /\ UNCHANGED <<client, peer, reader, taken, closed, stop, main>>

\* Slip: a broken pipe is not reported to the pump.
WriteFailsQuietly(w) ==
    /\ w \in writes /\ stdout = "closed"
    /\ writes' = writes \ {w}
    /\ closed' = (closed \/ w.by # "nobody")
    /\ IF w.by # "nobody" THEN Wrote(w.by, w.text, TRUE)
       ELSE UNCHANGED <<pumps, handled, lock, recorded>>
    /\ UNCHANGED <<client, peer, reader, taken, output, stop, main>>

\* BrokenPipeError, which the flag remembers if somebody is there to catch it.
WriteFails(w) ==
    /\ w \in writes /\ stdout = "closed"
    /\ writes' = writes \ {w}
    /\ closed' = (closed \/ w.by # "nobody")
    /\ IF w.by # "nobody" THEN Wrote(w.by, w.text, FALSE)
       ELSE UNCHANGED <<pumps, handled, lock, recorded>>
    /\ UNCHANGED <<client, peer, reader, taken, output, stop, main>>

Threads == ReadLine \/ \E w \in writes : Write(w) \/ WriteFails(w)

-------------------------------------------------------------------------------
(* The pumps.  A pump that has ended closes what it writes to.             *)

\* readline(): a thread is started.
AwaitLine ==
    /\ c2s = "read"
    /\ IF stop THEN c2s' = "end" /\ UNCHANGED reader
       ELSE c2s' = "reading" /\ reader' = "reading"
    /\ UNCHANGED <<client, peer, s2c, line, fetched, taken, writes, output, handled, lock,
                   closed, recorded, stop, main>>

\* Slip: the result of the write to the server is not looked at.
InspectGoesOn ==
    /\ c2s = "inspect"
    /\ \/ c2s' = "read" /\ line' = 0
          /\ handled' = IF server = "runs" THEN handled \cup {line} ELSE handled
       \/ c2s' = "answer" /\ UNCHANGED <<line, handled>>
    /\ UNCHANGED <<client, peer, s2c, fetched, threads, lock, closed, recorded, stop, main>>

\* The line is passed on to the server, which may have to make room for it, or
\* cannot be; or it is blocked and answered.
Inspect ==
    /\ c2s = "inspect"
    /\ \/ server = "runs" /\ c2s' = "read" /\ line' = 0 /\ handled' = handled \cup {line}
       \/ server = "gone" /\ c2s' = "end" /\ line' = 0 /\ UNCHANGED handled
       \/ c2s' = "answer" /\ UNCHANGED <<line, handled>>
    /\ UNCHANGED <<client, peer, s2c, fetched, threads, lock, closed, recorded, stop, main>>

\* write_line() of what a pump has for the client, under the lock: a writer
\* that is closed takes nothing, otherwise a thread is started.
Locked(pump, text) ==
    /\ lock = Free
    /\ IF closed
         THEN UNCHANGED <<lock, writes>>
         ELSE /\ lock' = pump
              /\ writes' = writes \cup {[text |-> text, by |-> pump]}

StartAnswer ==
    /\ c2s = "answer" /\ Locked("c2s", Answer(line))
    /\ c2s' = IF closed THEN "end" ELSE "writing"
    /\ UNCHANGED <<client, peer, s2c, line, fetched, reader, taken, output, handled, closed,
                   recorded, stop, main>>

\* The server's pump reads a pipe: the next line, or the end of the server.
AwaitReply ==
    /\ s2c = "read" /\ s2c' = IF stop THEN "end" ELSE "reading"
    /\ UNCHANGED <<client, peer, c2s, line, fetched, threads, handled, lock, closed,
                   recorded, stop, main>>

Fetch ==
    /\ s2c = "reading"
    /\ \/ fetched < replies /\ fetched' = fetched + 1 /\ s2c' = "reply"
       \/ fetched = replies /\ server = "gone" /\ s2c' = "end" /\ UNCHANGED fetched
    /\ UNCHANGED <<client, peer, c2s, line, threads, handled, lock, closed, recorded,
                   stop, main>>

StartReply ==
    /\ s2c = "reply" /\ Locked("s2c", Reply(fetched))
    /\ s2c' = IF closed THEN "end" ELSE "writing"
    /\ UNCHANGED <<client, peer, c2s, line, fetched, reader, taken, output, handled, closed,
                   recorded, stop, main>>

\* The finally clauses: c2s closes the server's stdin, of which the model needs
\* no more; s2c closes the writer to the client.
EndC2s ==
    /\ c2s = "end" /\ c2s' = "done"
    /\ UNCHANGED <<client, peer, s2c, line, fetched, threads, handled, lock, closed,
                   recorded, stop, main>>

EndS2c ==
    /\ s2c = "end" /\ s2c' = "done" /\ closed' = TRUE
    /\ UNCHANGED <<client, peer, c2s, line, fetched, threads, handled, lock,
                   recorded, stop, main>>

Pumps == AwaitLine \/ Inspect \/ StartAnswer \/ AwaitReply \/ Fetch \/ StartReply
            \/ EndC2s \/ EndS2c

-------------------------------------------------------------------------------
(* run_proxy.                                                              *)

\* The pumps of a set are cancelled where they are: the locks are given back,
\* and the threads go on by themselves.
Cancel(which) ==
    LET stopped(p, s) == p \in which /\ s # "done"
    IN  /\ c2s' = IF stopped("c2s", c2s) THEN "end" ELSE c2s
        /\ s2c' = IF stopped("s2c", s2c) THEN "end" ELSE s2c
        /\ reader' = IF "c2s" \in which /\ reader = "reading" THEN "left" ELSE reader
        /\ writes' = {[w EXCEPT !.by = IF @ \in which THEN "nobody" ELSE @] : w \in writes}
        /\ lock' = IF lock \in which THEN Free ELSE lock
        /\ UNCHANGED <<client, peer, line, fetched, taken, output, handled, closed, recorded, stop>>

\* Slip: a signal stops the client's pump only.
StoppedClient ==
    /\ main = "waits" /\ stop
    /\ Cancel({"c2s"}) /\ main' = "joins"

Stopped ==
    /\ main = "waits" /\ stop
    /\ Cancel({"c2s", "s2c"}) /\ main' = "joins"

\* The client has closed its stdin: the server has 10 s for its replies.
ClientEnded ==
    /\ main = "waits" /\ c2s = "done" /\ s2c # "done"
    /\ main' = "drains"
    /\ UNCHANGED <<client, peer, pumps, threads, handled, lock, closed, recorded, stop>>

Drained ==
    /\ main = "drains" /\ s2c = "done" /\ main' = "joins"
    /\ UNCHANGED <<client, peer, pumps, threads, handled, lock, closed, recorded, stop>>

\* Slip: the timer covers the writes to the client only.
DrainTimeoutOfWrite ==
    /\ main = "drains" /\ s2c = "writing"
    /\ Cancel({"s2c"}) /\ main' = "joins"

DrainTimeout ==
    /\ main = "drains" /\ s2c # "done"
    /\ Cancel({"s2c"}) /\ main' = "joins"

ServerEnded ==
    /\ main = "waits" /\ s2c = "done"
    /\ Cancel({"c2s"}) /\ main' = "joins"

\* Both tasks are awaited, and the server is waited for or killed; then
\* run_proxy() returns.
Return ==
    /\ main = "joins" /\ c2s = "done" /\ s2c = "done"
    /\ server' = "gone" /\ main' = "returned"
    /\ UNCHANGED <<client, replies, pumps, threads, handled, lock, closed, recorded, stop>>

\* asyncio.run() and the interpreter wait for the worker threads.
Exit ==
    /\ main = "returned" /\ reader = "idle" /\ writes = {}
    /\ main' = "exited"
    /\ UNCHANGED <<client, peer, pumps, threads, handled, lock, closed, recorded, stop>>

Main == Stopped \/ ClientEnded \/ Drained \/ DrainTimeout \/ ServerEnded \/ Return \/ Exit

-------------------------------------------------------------------------------
Gone == main = "exited" /\ UNCHANGED vars

Next ==
    \/ Type \/ CloseStdin \/ CloseStdout \/ ServerWrites \/ ServerExits \/ Signal
    \/ Threads \/ Pumps \/ Main \/ Gone

\* The loop runs what is ready; a thread's write ends when the client reads on
\* or closes its stream, a thread's read when there is a line or an end.
ProxySpec == Init /\ [][Next]_vars /\ WF_vars(Threads) /\ WF_vars(Pumps) /\ WF_vars(Main)

\* And the client closes its stdin in the end.
Spec == ProxySpec /\ WF_vars(CloseStdin)
-------------------------------------------------------------------------------
(* Properties.                                                             *)

\* A cancelled write gives both locks back while its thread is still writing.
\* All the same no two threads ever write to stdout at once, so that no line
\* of the client can be torn by another one: nobody starts a write once
\* somebody has been cancelled in one.
OneWriter == Cardinality(writes) <= 1

\* What the rows say was sent to the client had come out of stdout, even where
\* the client went away; and the server's lines come out in their order with
\* none left out.
SentIsOut ==
    /\ recorded \subseteq Range(output)
    /\ \A i \in DOMAIN output : \A n \in 1..MaxReplies : output[i] = Reply(n) =>
        {m \in 1..MaxReplies : \E j \in 1..(i - 1) : output[j] = Reply(m)} = 1..(n - 1)

\* At most one of the lines that were read off stdin is not passed on to the
\* server or answered: the one a pump has in its hands, or had when it was
\* cancelled or found its peer gone, or the one that a thread reads that was
\* left behind; never two of these.
LinesArePassedOn == Cardinality((1..taken) \ handled) <= 1

\* When the client has closed its stdin and reads on or has closed its stdout,
\* too, the process ends, whatever threads were left behind.
ProcessEnds == <>(main = "exited")

(* What the documentation says, and the code does not do.                  *)

\* "On EOF from either side, the proxy flushes the queue and exits with the
\* child's return code."
EndsWithServer == server = "gone" ~> main = "exited"
===============================================================================
