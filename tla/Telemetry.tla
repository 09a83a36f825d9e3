------------------------------- MODULE Telemetry -------------------------------
(***************************************************************************)
(* telemetry.py and the loop of proxy.py that drives it, in every proxy of *)
(* one machine: each sends a payload after a minute and then every day,    *)
(* until its proxy ends.  The proxies share the file installation_id and   *)
(* the log telemetry.log.                                                  *)
(*                                                                         *)
(* A payload is its sender's number of it and the identity it carries.     *)
(* Whether a day has passed is left open: a sleep may end at any time.     *)
(***************************************************************************)
EXTENDS Integers, Sequences, FiniteSets

CONSTANTS
    Processes,
    Endpoints,      \* a subset of {"url", "disabled"}: BULWARK_TELEMETRY_URL
    MayDie,         \* whether a process may be killed
    MayRemove,      \* whether the user may remove installation_id
    MaxSends        \* bound: payloads of a process

ASSUME EndpointsAssumption == Endpoints \subseteq {"url", "disabled"}
ASSUME FaultsAssumption == MayDie \in BOOLEAN /\ MayRemove \in BOOLEAN
ASSUME SendsAssumption == MaxSends \in Nat

VARIABLES
    endpoint,       \* fixed at the start
    file,           \* installation_id
    log,            \* the payloads in telemetry.log
    stage, id,      \* by process: where it stands, and the identity it holds
    sends,          \* payloads built
    cancelled,      \* run_proxy cancelled the task, and waits for it
    posted, minted, \* history: payloads handed to the HTTP client; identities
    lost, reset     \* history: log entries that could not be written; whether
                    \* installation_id was removed

disk == <<file, log>>
task == <<stage, id, sends>>
records == <<posted, minted, lost, reset>>
telemetryVars == <<endpoint, disk, task, cancelled, records>>

\* What installation_id may be: missing, just opened for writing, or an identity,
\* the one that was there before or one that a process minted.
Absent == [what |-> "absent"]
Empty  == [what |-> "empty"]
Identity(p, n) == [what |-> "identity", by |-> p, n |-> n]
Old == Identity("nobody", 0)

Payload(p, n, i) == [by |-> p, n |-> n, id |-> i]

TelemetryInit ==
    /\ endpoint \in Endpoints
    /\ file \in {Absent, Old} /\ log = {}
    /\ stage = [p \in Processes |-> "sleep"] /\ id = [p \in Processes |-> Old]
    /\ sends = [p \in Processes |-> 0]
    /\ cancelled = [p \in Processes |-> FALSE]
    /\ posted = {} /\ minted = {} /\ lost = {} /\ reset = (file = Absent)

Goto(p, where) == stage' = [stage EXCEPT ![p] = where]

-------------------------------------------------------------------------------
(* _telemetry_loop()                                                       *)

Wake(p) ==
    /\ stage[p] = "sleep" /\ ~cancelled[p] /\ sends[p] < MaxSends
    /\ Goto(p, "stats")
    /\ UNCHANGED <<endpoint, disk, id, sends, cancelled, records>>

\* The statistics are there, or the database refuses and the day is lost.
Stats(p) ==
    /\ stage[p] = "stats" /\ ~cancelled[p]
    /\ Goto(p, "identity") \/ Goto(p, "sleep")
    /\ sends' = [sends EXCEPT ![p] = @ + 1]
    /\ UNCHANGED <<endpoint, disk, id, cancelled, records>>

\* CancelledError is no Exception: it ends the loop at any of its awaits.
Ends(p) ==
    /\ stage[p] \in {"sleep", "stats", "posting"} /\ cancelled[p]
    /\ Goto(p, "done")
    /\ UNCHANGED <<endpoint, disk, id, sends, cancelled, records>>

-------------------------------------------------------------------------------
(* _identity(): between two steps another process may act.                 *)

Exists(p) ==
    /\ stage[p] = "identity"
    /\ Goto(p, IF file = Absent THEN "mint" ELSE "read")
    /\ UNCHANGED <<endpoint, disk, id, sends, cancelled, records>>

\* Slip: what is in the file is taken for an identity.
ReadUnchecked(p) ==
    /\ stage[p] = "read"
    /\ IF file = Absent THEN Goto(p, "sleep") /\ UNCHANGED id
       ELSE Goto(p, "send") /\ id' = [id EXCEPT ![p] = file]
    /\ UNCHANGED <<endpoint, disk, sends, cancelled, records>>

\* An unreadable file is minted anew; one that is gone again raises.
Read(p) ==
    /\ stage[p] = "read"
    /\ IF file = Empty THEN Goto(p, "mint") /\ UNCHANGED id
       ELSE IF file = Absent THEN Goto(p, "sleep") /\ UNCHANGED id
       ELSE Goto(p, "send") /\ id' = [id EXCEPT ![p] = file]
    /\ UNCHANGED <<endpoint, disk, sends, cancelled, records>>

Mint(p) ==
    /\ stage[p] = "mint"
    /\ id' = [id EXCEPT ![p] = Identity(p, sends[p])]
    /\ minted' = minted \cup {id'[p]}
    /\ Goto(p, "truncate")
    /\ UNCHANGED <<endpoint, disk, sends, cancelled, posted, lost, reset>>

\* write_text() opens the file, which empties it, and then writes.
Truncate(p) ==
    /\ stage[p] = "truncate"
    /\ file' = Empty
    /\ Goto(p, "write")
    /\ UNCHANGED <<endpoint, log, id, sends, cancelled, records>>

Write(p) ==
    /\ stage[p] = "write"
    /\ file' = id[p]
    /\ Goto(p, "send")
    /\ UNCHANGED <<endpoint, log, id, sends, cancelled, records>>

-------------------------------------------------------------------------------
(* send()                                                                  *)

Own(p) == Payload(p, sends[p], id[p])

\* _append_log(): an OSError is only warned about.
AppendLog(p) ==
    \/ log' = log \cup {Own(p)} /\ UNCHANGED lost
    \/ lost' = lost \cup {Own(p)} /\ UNCHANGED log

Send(p) ==
    /\ stage[p] = "send"
    /\ IF endpoint = "disabled"
         THEN AppendLog(p) /\ Goto(p, "sleep") /\ UNCHANGED posted
         ELSE posted' = posted \cup {Own(p)} /\ Goto(p, "posting")
              /\ UNCHANGED <<log, lost>>
    /\ UNCHANGED <<endpoint, file, id, sends, cancelled, minted, reset>>

\* Slip: only a payload that arrived is logged.
AnswerIfOk(p) ==
    /\ stage[p] = "posting" /\ ~cancelled[p]
    /\ \/ AppendLog(p)
       \/ UNCHANGED <<log, lost>>
    /\ Goto(p, "sleep")
    /\ UNCHANGED <<endpoint, file, id, sends, cancelled, posted, minted, reset>>

\* The endpoint answers, or the HTTP client gives up: both are logged.
Answer(p) ==
    /\ stage[p] = "posting" /\ ~cancelled[p]
    /\ AppendLog(p)
    /\ Goto(p, "sleep")
    /\ UNCHANGED <<endpoint, file, id, sends, cancelled, posted, minted, reset>>

-------------------------------------------------------------------------------
\* The end of run_proxy().
Cancel(p) ==
    /\ stage[p] # "done" /\ ~cancelled[p]
    /\ cancelled' = [cancelled EXCEPT ![p] = TRUE]
    /\ UNCHANGED <<endpoint, disk, task, records>>

Die(p) ==
    /\ MayDie /\ stage[p] # "done"
    /\ Goto(p, "done")
    /\ UNCHANGED <<endpoint, disk, id, sends, cancelled, records>>

\* Not while a process is between opening the file and writing to it.
Remove ==
    /\ MayRemove /\ file # Absent /\ \A p \in Processes : stage[p] # "write"
    /\ file' = Absent /\ reset' = TRUE
    /\ UNCHANGED <<endpoint, log, task, cancelled, posted, minted, lost>>

Step(p) ==
    Stats(p) \/ Ends(p) \/ Exists(p) \/ Read(p) \/ Mint(p) \/ Truncate(p)
        \/ Write(p) \/ Send(p)

TelemetryNext ==
    \/ \E p \in Processes : Wake(p) \/ Step(p) \/ Answer(p) \/ Cancel(p) \/ Die(p)
    \/ Remove
    \/ (\A p \in Processes : stage[p] = "done") /\ UNCHANGED telemetryVars

\* The process runs; the endpoint need not answer.
TelemetrySpec ==
    /\ TelemetryInit /\ [][TelemetryNext]_telemetryVars
    /\ \A p \in Processes : WF_telemetryVars(Step(p))
-------------------------------------------------------------------------------
\* "Network errors never erase the log entry": what was handed to the HTTP client
\* is in the log, whatever the endpoint does, unless the log could not be written
\* or the process ended meanwhile.
SentIsLogged ==
    \A s \in posted \ (log \cup lost) :
        s = Own(s.by) /\ stage[s.by] \in {"posting", "done"}

\* Whatever is reported is an identity, never the file that another process
\* has just emptied, and one that is there when the proxies start stays until
\* the user removes it, whoever reads it and dies (telemetry.py, _identity).
IdentityIsKept ==
    /\ \A s \in posted \cup log : s.id \in {Old} \cup minted
    /\ ~reset => minted = {} /\ \A s \in posted \cup log : s.id = Old

(* What the documents say, and the code does not do.                       *)

\* "Every payload is appended to telemetry.log before the HTTP call."
LoggedFirst == posted \subseteq log \cup lost

\* "generated on first telemetry-enabled run ... Removing the file resets the
\* identity": nothing else does, so that there is one at a time.
OneIdentity == Cardinality({s.id : s \in posted}) <= 1
===============================================================================
