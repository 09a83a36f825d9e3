--------------------------------- MODULE Proxy ---------------------------------
(***************************************************************************)
(* proxy.py: the two pumps that copy lines between the client and the      *)
(* server process, and run_proxy, which starts them, waits for the first   *)
(* to end or for a signal, and tears everything down.                      *)
(*                                                                         *)
(* A line is its number in the script of the peer that writes it.  What    *)
(* matters of its text is whether it is a JSON array, and of each member   *)
(* whether it is a request, a response or a notification.  The inspector   *)
(* is the choice of the members it blocks.  A pump interleaves with the    *)
(* rest of the process at its awaits: readline, the inspection, the client *)
(* write lock, and the drain of the writer.                                *)
(***************************************************************************)
EXTENDS Integers, Sequences, FiniteSets

CONSTANTS
    Scripts,        \* what the peers may write: sequences of lines by direction
    PipeMax,        \* lines the kernel's pipe takes from a transport
    HighWater       \* lines in a transport above which drain() waits

ASSUME BufferAssumption == PipeMax \in Nat /\ HighWater \in Nat

VARIABLES
    script, sent, eof,  \* by direction: the lines, how many are written,
                        \* and whether the writing end is closed
    pos, pc, result,    \* the pumps: lines read, where they stand, how they ended
    verdict,            \* members blocked, for each line a pump inspected
    lock,               \* client_write_lock: "free" or the pump that holds it
    writer, pending,    \* by peer: the transport, and lines the peer has not read
    main, stop,         \* where run_proxy stands; the stop event
    child, killed,      \* the server process; whether it got SIGKILL
    timedOut,           \* the 10 s wait for the server's last replies expired
    session,            \* the row of the sessions table
    out, audit          \* history: lines written, and lines recorded, in order

peers == <<script, sent, eof>>
pumps == <<pos, pc, result, verdict, lock>>
pipes == <<writer, pending>>
life  == <<main, stop, child, killed, timedOut, session>>
trail == <<out, audit>>
vars  == <<peers, pumps, pipes, life, trail>>

Directions == {"c2s", "s2c"}
Peers == {"client", "server"}

Dst(d) == IF d = "c2s" THEN "server" ELSE "client"

-------------------------------------------------------------------------------
(* Lines.                                                                  *)

Kinds == {"request", "response", "notification", "long"}

\* What the code tells apart of a line.
Lines == [array : BOOLEAN, members : Seq(Kinds)]

ASSUME ScriptsAssumption == Scripts \subseteq [Directions -> Seq(Lines)]

\* A line over the reader's limit is one member that is never parsed.
Line(array, members) == [array |-> array, members |-> members]
LongLine == Line(FALSE, <<"long">>)

IsLong(line) == line.members = <<"long">>
Indices(line) == DOMAIN line.members
OfKind(line, kind) == {i \in Indices(line) : line.members[i] = kind}

\* Only these have a replacement; a block of any other member is downgraded.
Blockable(d, line) ==
    OfKind(line, IF d = "c2s" THEN "request" ELSE "response")

\* A batch is an array of at least two members.
IsBatch(line) == Len(line.members) > 1

\* Slip: only the blocked members of a batch are answered.
AnsweredBlockedOnly(line, B) == B

\* The members that the reply to a blocked line answers.
Answered(line, B) == IF IsBatch(line) THEN B \cup OfKind(line, "request") ELSE B

Current(d) == script[d][pos[d]]
Blocked(d) == verdict[d][pos[d]]

\* What the pump writes for the line it is at, and to whom.
Written(d) ==
    [d |-> d, n |-> pos[d],
     to |-> IF Blocked(d) = {} THEN Dst(d) ELSE "client",
     form |-> IF Blocked(d) = {} THEN "forward"
              ELSE IF d = "s2c" THEN "replace" ELSE "reply",
     ids |-> IF Blocked(d) # {} /\ d = "c2s" THEN Answered(Current(d), Blocked(d))
             ELSE Indices(Current(d)),
     array |-> IF Blocked(d) = {} THEN Current(d).array ELSE IsBatch(Current(d))]

-------------------------------------------------------------------------------
Init ==
    /\ script \in Scripts
    /\ sent = [d \in Directions |-> 0] /\ eof = [d \in Directions |-> FALSE]
    /\ pos = [d \in Directions |-> 0] /\ pc = [d \in Directions |-> "none"]
    /\ result = [d \in Directions |-> "none"]
    /\ verdict = [d \in Directions |-> <<>>]
    /\ lock = "free"
    /\ writer = [p \in Peers |-> "open"] /\ pending = [p \in Peers |-> 0]
    /\ main = "starting" /\ stop = FALSE /\ child = "none" /\ killed = FALSE
    /\ timedOut = FALSE /\ session = "open"
    /\ out = <<>> /\ audit = <<>>

-------------------------------------------------------------------------------
(* The peers and the operating system.                                     *)

Over == {"exited", "crashed"}
Up == main \notin Over \cup {"starting"}

PeerWrites(d) ==
    /\ Up /\ ~eof[d] /\ sent[d] < Len(script[d])
    /\ d = "s2c" => child = "alive"
    /\ sent' = [sent EXCEPT ![d] = @ + 1]
    /\ UNCHANGED <<script, eof, pumps, pipes, life, trail>>

PeerReads(p) ==
    /\ Up /\ pending[p] > 0
    /\ pending' = [pending EXCEPT ![p] = @ - 1]
    /\ UNCHANGED <<peers, pumps, writer, life, trail>>

\* The client closes our stdin, or the server its stdout.
PeerCloses(d) ==
    /\ Up /\ ~eof[d]
    /\ eof' = [eof EXCEPT ![d] = TRUE]
    /\ UNCHANGED <<script, sent, pumps, pipes, life, trail>>

\* A peer that is gone writes and reads nothing any more.
Vanish(p, d) ==
    /\ eof' = [eof EXCEPT ![d] = TRUE]
    /\ writer' = [writer EXCEPT ![p] = "lost"]
    /\ pending' = [pending EXCEPT ![p] = 0]

ClientGone ==
    /\ Up /\ writer["client"] # "lost"
    /\ Vanish("client", "c2s")
    /\ UNCHANGED <<script, sent, pumps, life, trail>>

ServerExits ==
    /\ Up /\ child = "alive"
    /\ child' = "exited"
    /\ Vanish("server", "s2c")
    /\ UNCHANGED <<script, sent, pumps, main, stop, killed, timedOut, session, trail>>

KillWorks == killed /\ ServerExits

\* SIGINT or SIGTERM: the handler sets the stop event.
Signal ==
    /\ Up /\ ~stop
    /\ stop' = TRUE
    /\ UNCHANGED <<peers, pumps, pipes, main, child, killed, timedOut, session, trail>>

-------------------------------------------------------------------------------
(* The pumps.                                                              *)

\* The pumps of D end at whatever await they stand: the lock is released and
\* their destination is closed.
EndPumps(D, how) ==
    LET ending == {d \in D : pc[d] # "done"} IN
    /\ pc' = [d \in Directions |-> IF d \in ending THEN "done" ELSE pc[d]]
    /\ result' = [d \in Directions |-> IF d \in ending THEN how ELSE result[d]]
    /\ lock' = IF lock \in ending THEN "free" ELSE lock
    /\ writer' = [p \in Peers |->
            IF writer[p] = "open" /\ \E d \in ending : Dst(d) = p
              THEN "closing" ELSE writer[p]]

\* A line within the limit is inspected if it has members; readline() raises
\* ValueError on a longer one.
Read(d) ==
    /\ pc[d] = "read" /\ pos[d] < sent[d]
    /\ pos' = [pos EXCEPT ![d] = @ + 1]
    /\ verdict' = [verdict EXCEPT ![d] = Append(@, {})]
    /\ LET line == script[d][pos[d] + 1] IN
       IF IsLong(line)
         THEN EndPumps({d}, "failed")
         ELSE /\ pc' = [pc EXCEPT ![d] =
                    IF line.members # <<>> THEN "inspect" ELSE "write"]
              /\ UNCHANGED <<result, lock, writer>>
    /\ UNCHANGED <<peers, pending, life, trail>>

ReadEOF(d) ==
    /\ pc[d] = "read" /\ pos[d] = sent[d] /\ eof[d]
    /\ EndPumps({d}, "returned")
    /\ UNCHANGED <<pos, verdict, peers, pending, life, trail>>

\* Without an inspector nothing is blocked.
Inspect(d) ==
    /\ pc[d] = "inspect"
    /\ \E B \in SUBSET Blockable(d, Current(d)) :
        verdict' = [verdict EXCEPT ![d][pos[d]] = B]
    /\ pc' = [pc EXCEPT ![d] = "write"]
    /\ UNCHANGED <<pos, result, lock, peers, pipes, life, trail>>

\* Slip: a replaced reply is not recorded.
RowsSkipReplaced(d) ==
    IF Current(d).members = <<>> \/ (d = "s2c" /\ Blocked(d) # {}) THEN <<>>
    ELSE (IF Blocked(d) = {} THEN <<>>
          ELSE <<[d |-> d, n |-> pos[d], form |-> "synthetic"]>>)
         \o <<[d |-> d, n |-> pos[d], form |-> "members"]>>

\* The rows of a line that was written: its members and, before them, the
\* synthetic reply to a blocked request.
Rows(d) ==
    LET own == IF Current(d).members = <<>> THEN <<>>
               ELSE <<[d |-> d, n |-> pos[d], form |-> "members"]>>
    IN  IF d = "c2s" /\ Blocked(d) # {}
          THEN <<[d |-> d, n |-> pos[d], form |-> "synthetic"]>> \o own
          ELSE own

\* Slip: a line that had to wait for its reader is sent again.
AdvanceResends(d) ==
    /\ audit' = audit \o Rows(d)
    /\ pc' = [pc EXCEPT ![d] = IF pc[d] = "drain" THEN "write" ELSE "read"]
    /\ lock' = IF lock = d THEN "free" ELSE lock
    /\ UNCHANGED <<result, writer>>

\* A line that is written is recorded, and the loop looks at the stop event.
Advance(d) ==
    /\ audit' = audit \o Rows(d)
    /\ IF stop
         THEN EndPumps({d}, "returned")
         ELSE /\ pc' = [pc EXCEPT ![d] = "read"]
              /\ lock' = IF lock = d THEN "free" ELSE lock
              /\ UNCHANGED <<result, writer>>

\* Whatever an open transport takes is as good as sent.
Submit(d) ==
    /\ pending' = [pending EXCEPT ![Written(d).to] = @ + 1]
    /\ out' = Append(out, Written(d))

MayWrite(d) == pc[d] = "write" /\ (Written(d).to = "client" => lock = "free")
HasRoom(p) == pending[p] < PipeMax + HighWater

\* Below the high-water mark, drain() returns at once.
WriteNow(d) ==
    /\ MayWrite(d)
    /\ writer[Written(d).to] = "open" /\ HasRoom(Written(d).to)
    /\ Submit(d) /\ Advance(d)
    /\ UNCHANGED <<pos, verdict, peers, life>>

\* Otherwise the pump waits, with the lock if it writes to the client.  A
\* transport that is closed drops the line and lets the event loop turn.
StartWrite(d) ==
    /\ MayWrite(d)
    /\ LET to == Written(d).to IN
        /\ \/ writer[to] = "open" /\ ~HasRoom(to) /\ Submit(d)
           \/ writer[to] # "open" /\ UNCHANGED <<pending, out>>
        /\ lock' = IF to = "client" THEN d ELSE lock
    /\ pc' = [pc EXCEPT ![d] = "drain"]
    /\ UNCHANGED <<pos, result, verdict, peers, writer, life, audit>>

\* The peer has read enough, or the transport is closed but not lost yet.
FinishWrite(d) ==
    /\ pc[d] = "drain"
    /\ LET to == Written(d).to IN
        \/ writer[to] = "open" /\ pending[to] <= PipeMax + HighWater
        \/ writer[to] = "closing"
    /\ Advance(d)
    /\ UNCHANGED <<pos, verdict, peers, pending, life, out>>

\* The peer is gone, or the writer is closed: write_line() returns False and
\* the pump returns without a record.
WriteFails(d) ==
    /\ pc[d] = "drain" /\ writer[Written(d).to] # "open"
    /\ EndPumps({d}, "returned")
    /\ UNCHANGED <<pos, verdict, peers, pending, life, trail>>

Pump(d) ==
    \/ Read(d) \/ ReadEOF(d) \/ Inspect(d)
    \/ WriteNow(d) \/ StartWrite(d) \/ FinishWrite(d) \/ WriteFails(d)

-------------------------------------------------------------------------------
(* run_proxy().                                                            *)

\* The session row is written before the server process is started.
Start ==
    /\ main = "starting"
    /\ main' = "running" /\ child' = "alive"
    /\ pc' = [d \in Directions |-> "read"]
    /\ UNCHANGED <<peers, pos, result, verdict, lock, pipes,
                   stop, killed, timedOut, session, trail>>

\* The command does not exist, or the rules or the policy cannot be loaded,
\* which happens with the server process already running.
StartFails ==
    /\ main = "starting"
    /\ main' = "crashed" /\ child' \in {"none", "alive"}
    /\ UNCHANGED <<peers, pumps, pipes, stop, killed, timedOut, session, trail>>

Done(d) == pc[d] = "done"

\* A signal: both pumps are cancelled.
Stopped ==
    /\ main = "running" /\ stop
    /\ EndPumps(Directions, "cancelled")
    /\ main' = "reap"
    /\ UNCHANGED <<pos, verdict, peers, pending, stop, child, killed, timedOut,
                   session, trail>>

\* Slip: the server's pump is cancelled with the client's.
ClientEndedCancels ==
    /\ main = "running" /\ ~stop /\ Done("c2s") /\ ~Done("s2c")
    /\ EndPumps({"s2c"}, "cancelled")
    /\ main' = "reap"
    /\ UNCHANGED <<pos, verdict, peers, pending, stop, child, killed, timedOut,
                   session, trail>>

\* The client closed: half-close the server's stdin and let it answer.
ClientEnded ==
    /\ main = "running" /\ ~stop /\ Done("c2s") /\ ~Done("s2c")
    /\ main' = "halfclose"
    /\ UNCHANGED <<peers, pumps, pipes, stop, child, killed, timedOut, session, trail>>

\* The server closed: stop reading from the client.
ServerEnded ==
    /\ main = "running" /\ ~stop /\ Done("s2c")
    /\ EndPumps({"c2s"}, "cancelled")
    /\ main' = "reap"
    /\ UNCHANGED <<pos, verdict, peers, pending, stop, child, killed, timedOut,
                   session, trail>>

\* wait_closed() returns when the transport has flushed or lost its pipe.
Flushed(p) == writer[p] = "lost" \/ (writer[p] = "closing" /\ pending[p] <= PipeMax)

HalfClosed ==
    /\ main = "halfclose" /\ Flushed("server")
    /\ main' = "draining"
    /\ UNCHANGED <<peers, pumps, pipes, stop, child, killed, timedOut, session, trail>>

\* wait_for() passes on what the server's pump raises; nothing else is awaited.
Drained ==
    /\ main = "draining" /\ Done("s2c")
    /\ main' = IF result["s2c"] = "failed" THEN "crashed" ELSE "reap"
    /\ UNCHANGED <<peers, pumps, pipes, stop, child, killed, timedOut, session, trail>>

DrainTimeout ==
    /\ main = "draining" /\ ~Done("s2c")
    /\ timedOut' = TRUE
    /\ EndPumps({"s2c"}, "cancelled")
    /\ main' = "reap"
    /\ UNCHANGED <<pos, verdict, peers, pending, stop, child, killed, session, trail>>

\* Close the server's stdin if the pump has not, and wait for it.
Reap ==
    /\ main = "reap"
    /\ child = "alive" => Flushed("server")
    /\ main' = IF child = "alive" THEN "wait" ELSE "teardown"
    /\ UNCHANGED <<peers, pumps, pipes, stop, child, killed, timedOut, session, trail>>

\* Slip: the server is asked to terminate and not waited for.
EscalateGivesUp ==
    /\ main \in {"wait", "termwait"} /\ child = "alive"
    /\ main' = IF main = "wait" THEN "termwait" ELSE "teardown"
    /\ UNCHANGED <<peers, pumps, pipes, stop, child, killed, timedOut, session, trail>>

\* Slip: the server is never killed.
EscalateNeverKills ==
    /\ main = "wait" /\ child = "alive"
    /\ main' = "termwait"
    /\ UNCHANGED <<peers, pumps, pipes, stop, child, killed, timedOut, session, trail>>

\* Wait 2 s, terminate, wait 2 s, kill.  The server may ignore SIGTERM.
ChildWaited ==
    /\ main \in {"wait", "termwait", "killwait"} /\ child = "exited"
    /\ main' = "teardown"
    /\ UNCHANGED <<peers, pumps, pipes, stop, child, killed, timedOut, session, trail>>

Escalate ==
    /\ main \in {"wait", "termwait"} /\ child = "alive"
    /\ main' = IF main = "wait" THEN "termwait" ELSE "killwait"
    /\ killed' = (main = "termwait")
    /\ UNCHANGED <<peers, pumps, pipes, stop, child, timedOut, session, trail>>

\* Side-cars are closed, the event buffer is flushed, the session is ended.
Teardown ==
    /\ main = "teardown"
    /\ main' = "exited" /\ session' = "ended"
    /\ UNCHANGED <<peers, pumps, pipes, stop, child, killed, timedOut, trail>>

Main ==
    \/ Start \/ Stopped \/ ClientEnded \/ ServerEnded
    \/ HalfClosed \/ Drained \/ DrainTimeout
    \/ Reap \/ ChildWaited \/ Escalate \/ Teardown

Finished == main \in Over /\ UNCHANGED vars

Next ==
    \/ \E d \in Directions : PeerWrites(d) \/ PeerCloses(d) \/ Pump(d)
    \/ \E p \in Peers : PeerReads(p)
    \/ ClientGone \/ ServerExits \/ Signal
    \/ Main \/ StartFails
    \/ Finished

\* The event loop runs every ready task, timers expire, and SIGKILL kills.
SystemFairness ==
    /\ \A d \in Directions : WF_vars(Pump(d))
    /\ WF_vars(Main)
    /\ WF_vars(KillWorks)

\* A peer that keeps reading what it is sent.
Reading(p) == WF_vars(PeerReads(p))

Spec == Init /\ [][Next]_vars /\ SystemFairness /\ Reading("client") /\ Reading("server")

\* The same with a server that may stop reading its stdin for good.
WedgedSpec == Init /\ [][Next]_vars /\ SystemFairness /\ Reading("client")
-------------------------------------------------------------------------------
(* Properties.                                                             *)

WrittenOf(d, n) == {k \in DOMAIN out : out[k].d = d /\ out[k].n = n}
AuditOf(d, n) == {k \in DOMAIN audit : audit[k].d = d /\ audit[k].n = n}
HasMembers(d, n) == script[d][n].members # <<>>

\* Lines a pump has left behind to read another.
Passed(d) == 1..(IF pc[d] = "read" THEN pos[d] ELSE pos[d] - 1)

\* Every variable has its type.
TypeOK ==
    /\ script \in [Directions -> Seq(Lines)]
    /\ sent \in [Directions -> Nat] /\ eof \in [Directions -> BOOLEAN]
    /\ pos \in [Directions -> Nat]
    /\ \A d \in Directions :
        /\ pos[d] <= sent[d] /\ sent[d] <= Len(script[d])
        /\ Len(verdict[d]) = pos[d]
        /\ \A n \in 1..pos[d] : verdict[d][n] \subseteq Blockable(d, script[d][n])
    /\ pc \in [Directions -> {"none", "read", "inspect", "write", "drain", "done"}]
    /\ result \in [Directions -> {"none", "returned", "failed", "cancelled"}]
    /\ lock \in {"free"} \cup Directions
    /\ writer \in [Peers -> {"open", "closing", "lost"}]
    /\ pending \in [Peers -> Nat]
    /\ main \in {"starting", "running", "halfclose", "draining", "reap", "wait",
                 "termwait", "killwait", "teardown"} \cup Over
    /\ stop \in BOOLEAN /\ killed \in BOOLEAN /\ timedOut \in BOOLEAN
    /\ child \in {"none", "alive", "exited"} /\ session \in {"open", "ended"}

\* Per direction, lines leave in the order they came and each at most once,
\* and so are they recorded, however the pumps' awaits interleave.
InOrder ==
    \A d \in Directions :
        /\ \A j, k \in DOMAIN out :
            j < k /\ out[j].d = d /\ out[k].d = d => out[j].n < out[k].n
        /\ \A j, k \in DOMAIN audit :
            j < k /\ audit[j].d = d /\ audit[k].d = d =>
                \/ audit[j].n < audit[k].n
                \/ audit[j].n = audit[k].n /\ audit[j].form = "synthetic"
                                           /\ audit[k].form = "members"

\* The pump that waits for the client to take a line holds the write lock, and
\* nobody else does, a cancelled pump included.
LockHeld ==
    \A d \in Directions :
        lock = d <=> pc[d] = "drain" /\ Written(d).to = "client"

\* The client hears back, once, for every request of a line from which a member
\* was blocked, and the server gets no part of that line.  Only a client that
\* is gone, or a server that closed first, leaves the reply unsent.
BlockedAreAnswered ==
    \A n \in 1..pos["c2s"] : verdict["c2s"][n] # {} =>
        /\ \A k \in WrittenOf("c2s", n) :
            /\ out[k].to = "client"
            /\ OfKind(script["c2s"][n], "request") \subseteq out[k].ids
        /\ n \in Passed("c2s") /\ writer["client"] = "open" =>
            Cardinality(WrittenOf("c2s", n)) = 1

\* A line that was written is missing from the audit log only while its pump
\* waits for the peer to take it, or if the pump ended there; what the log holds
\* was written, but for replies to a client whose writer was already closed.
AuditFollowsTraffic ==
    \A d \in Directions : \A n \in 1..pos[d] : HasMembers(d, n) =>
        /\ WrittenOf(d, n) # {} /\ AuditOf(d, n) = {} =>
            n = pos[d] /\ pc[d] \in {"drain", "done"}
        /\ AuditOf(d, n) # {} =>
            \/ WrittenOf(d, n) # {}
            \/ writer[IF verdict[d][n] # {} THEN "client" ELSE Dst(d)] # "open"

\* However run_proxy ends, by returning or by an exception of its start or of
\* the server's pump, no pump is left at work and the client's lock is free; and
\* when it returns, the server process has ended and the session is closed.
ExitIsClean ==
    /\ main \in Over => lock = "free" /\ \A d \in Directions : pc[d] \in {"none", "done"}
    /\ main = "exited" =>
        /\ child = "exited" /\ session = "ended"
        /\ \A d \in Directions : pc[d] = "done"

\* After the client closed its end the proxy goes on until it has handed all that
\* the server wrote to the transport of the client, if no signal, timeout,
\* oversized line or departure of the client intervenes.  That the transport
\* delivers it is not said: see RepliesReach.
RepliesWritten ==
    /\ main = "exited" /\ ~stop /\ ~timedOut
    /\ result["c2s"] = "returned" /\ result["s2c"] # "failed"
    /\ writer["client"] # "lost"
    => \A n \in 1..sent["s2c"] : WrittenOf("s2c", n) # {}

\* Once a signal came, the client closed or the server process ended, the proxy
\* ends, as long as the peers read.
Ending == stop \/ pc["c2s"] = "done" \/ pc["s2c"] = "done"
Terminates == Ending ~> main \in Over

(* What the documents and comments say, and the code does not do.          *)

\* "frames over the line limit are forwarded byte-for-byte"
LongForwarded ==
    \A d \in Directions : \A n \in 1..pos[d] :
        IsLong(script[d][n]) /\ pc[d] = "done" => result[d] # "failed"

\* "Logs every JSON-RPC frame in both directions."
EveryFrameLogged ==
    main = "exited" =>
        \A d \in Directions : \A n \in 1..pos[d] :
            HasMembers(d, n) /\ WrittenOf(d, n) # {} => AuditOf(d, n) # {}

\* "ended_at -- NULL while running"
SessionIsClosed == main \in Over => session = "ended"

\* "the proxy's signal handler will close the server stdin, wait up to 10 s
\* for replies"
SignalDrains ==
    main = "exited" /\ result["s2c"] = "cancelled" => timedOut

\* "let the server drain any pending replies before we tear down s2c"
RepliesReach ==
    /\ main = "exited" /\ ~stop /\ ~timedOut
    /\ result["c2s"] = "returned" /\ result["s2c"] = "returned"
    => pending["client"] <= PipeMax

\* "wrapped as an array to keep JSON-RPC format valid"
ArrayKept ==
    \A k \in DOMAIN out :
        out[k].form # "forward" => out[k].array = script[out[k].d][out[k].n].array

\* "synthesise per-id error replies for ALL members"
AllMembersAnswered ==
    \A k \in DOMAIN out : out[k].form = "reply" =>
        Indices(script["c2s"][out[k].n])
            \ OfKind(script["c2s"][out[k].n], "notification") \subseteq out[k].ids
===============================================================================
