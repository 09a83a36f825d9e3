------------------------------- MODULE AuditLog -------------------------------
(***************************************************************************)
(* What the audit trail promises, with no queue, writer task or database   *)
(* connection in sight.  Events are numbered in the order in which the     *)
(* pumps offer them.  An offered event is accepted, or refused and counted *)
(* when the trail already holds a full queue of unsettled events.  An      *)
(* accepted event stays pending until it is in the durable log or has been *)
(* reported as lost; the log only grows, in the order of the offers and    *)
(* without repeats.                                                        *)
(*                                                                         *)
(* EventBuffer implements this specification while its shutdown does not   *)
(* time out, unless SQLite rolls a transaction back by itself just when a  *)
(* cache write shares it.                                                  *)
(***************************************************************************)
EXTENDS Integers, Sequences, FiniteSets

CONSTANT Capacity       \* pending events below which none is refused

VARIABLES
    open,       \* pumps may still offer events
    offered,    \* number of events offered
    refused,    \* number of events refused
    pending,    \* accepted events, neither stored nor given up
    stored,     \* the durable log
    failed      \* events reported as lost

vars == <<open, offered, refused, pending, stored, failed>>

\* The members of a finite set of numbers, smallest first.
Ascending(S) ==
    CHOOSE s \in [1..Cardinality(S) -> S] :
        \A i, j \in 1..Cardinality(S) : i < j => s[i] < s[j]

Init ==
    /\ open = TRUE
    /\ offered = 0
    /\ refused = 0
    /\ pending = {}
    /\ stored = <<>>
    /\ failed = {}

Accept ==
    /\ open
    /\ offered' = offered + 1
    /\ pending' = pending \cup {offered'}
    /\ UNCHANGED <<open, refused, stored, failed>>

Refuse ==
    /\ open
    /\ Cardinality(pending) >= Capacity
    /\ offered' = offered + 1
    /\ refused' = refused + 1
    /\ UNCHANGED <<open, pending, stored, failed>>

\* Some pending events become durable, after everything that already is.
Persist ==
    \E S \in SUBSET pending :
        /\ S # {}
        /\ \A i \in DOMAIN stored : \A e \in S : stored[i] < e
        /\ stored' = stored \o Ascending(S)
        /\ pending' = pending \ S
        /\ UNCHANGED <<open, offered, refused, failed>>

\* A flush is reported as failed.  The report may be too pessimistic (an event
\* of it is durable already, or becomes so later), but nothing leaves the
\* pending set unstored without a report.
GiveUp ==
    \E F \in SUBSET (pending \cup {stored[i] : i \in DOMAIN stored}) :
        /\ failed' = failed \cup F
        /\ \E S \in SUBSET (failed' \cap pending) : pending' = pending \ S
        /\ UNCHANGED <<open, offered, refused, stored>>

Close ==
    /\ open
    /\ open' = FALSE
    /\ UNCHANGED <<offered, refused, pending, stored, failed>>

Next == Accept \/ Refuse \/ Persist \/ GiveUp \/ Close

Spec == Init /\ [][Next]_vars
===============================================================================
