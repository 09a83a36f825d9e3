--------------------------------- MODULE Follow ---------------------------------
(***************************************************************************)
(* stream_events() and latest_events() of storage.py: a viewer follows the *)
(* table events by the ids of its rows, while several proxies write to it. *)
(* SQLite gives a row its id within the writer's transaction, and has one  *)
(* writer at a time; the viewer sees what is committed.                    *)
(***************************************************************************)
EXTENDS Integers, Sequences, SequencesExt

CONSTANTS
    Writers,
    InitialTail,    \* rows that are shown at first
    Chunk,          \* rows of a poll, 500 in the code
    MaxRows         \* bound: rows in the table

ASSUME SizesAssumption == InitialTail \in Nat /\ Chunk \in Nat \ {0} /\ MaxRows \in Nat

VARIABLES
    table,          \* number of committed rows, whose ids are 1..table
    lock, tx,       \* the writer in a transaction, and the rows it has inserted
    pc, cursor, rows,   \* stream_events(): where it stands, and its locals
    shown,          \* what it has yielded
    before          \* history: rows in the table when it began

vars == <<table, lock, tx, pc, cursor, rows, shown, before>>
viewer == <<pc, cursor, rows, shown, before>>

Free == "free"

Init ==
    /\ table \in 0..MaxRows
    /\ lock = Free /\ tx = 0
    /\ pc = "seed" /\ cursor = 0 /\ rows = <<>> /\ shown = <<>> /\ before = 0

\* A statement of w: it may insert several rows, or write to other tables only.
Insert(w) ==
    /\ lock \in {Free, w}
    /\ lock' = w
    /\ \E n \in 0..(MaxRows - table - tx) : tx' = tx + n
    /\ UNCHANGED <<table, viewer>>

\* The transaction of w is committed, or undone with the ids it used.
Finish(w) ==
    /\ lock = w
    /\ table' \in {table, table + tx}
    /\ lock' = Free /\ tx' = 0
    /\ UNCHANGED viewer

-------------------------------------------------------------------------------
\* The ids from first to last, in order.
Ids(first, last) == [i \in 1..(IF first > last THEN 0 ELSE last - first + 1) |-> first + i - 1]

Least(a, b) == IF a < b THEN a ELSE b

\* The last rows of the table, oldest first.
Latest(limit) == Ids(table - Least(limit, table) + 1, table)

\* Slip: the poll takes the last rows, too.
NewerLatest(since, limit) == Ids(table - Least(limit, table - since) + 1, table)

\* Slip: the row of the cursor is polled again.
NewerOrSame(since, limit) == Ids(since, Least(table, since + limit - 1))

\* The first rows after one.
Newer(since, limit) == Ids(since + 1, Least(table, since + limit))

Seed ==
    /\ pc = "seed"
    /\ rows' = Latest(InitialTail)
    /\ cursor' = IF rows' = <<>> THEN 0 ELSE Last(rows')
    /\ pc' = "yield" /\ before' = table
    /\ UNCHANGED <<table, lock, tx, shown>>

\* A row is yielded; those of a poll move the cursor.
Yield ==
    /\ pc = "yield" /\ rows # <<>>
    /\ shown' = Append(shown, Head(rows)) /\ rows' = SubSeq(rows, 2, Len(rows))
    /\ cursor' = IF cursor > Head(rows) THEN cursor ELSE Head(rows)
    /\ UNCHANGED <<table, lock, tx, pc, before>>

Poll ==
    /\ pc = "yield" /\ rows = <<>>
    /\ rows' = Newer(cursor, Chunk)
    /\ UNCHANGED <<table, lock, tx, pc, cursor, shown, before>>

Next ==
    \/ \E w \in Writers : Insert(w) \/ Finish(w)
    \/ Seed \/ Yield \/ Poll

\* The part of the writers, which SharedFile implements.
written == <<table, lock, tx>>
Write == \E w \in Writers : Insert(w) \/ Finish(w)
WritersSpec == Init /\ [][Write]_written

\* The viewer goes on polling; no writer need write, or commit what it wrote.
Spec == Init /\ [][Next]_vars /\ WF_vars(Seed) /\ WF_vars(Yield) /\ WF_vars(Poll)
-------------------------------------------------------------------------------
\* What is shown are consecutive rows: none twice and none left out, however
\* many were written between two polls, and by whom.
ShownInOrder ==
    \A i \in DOMAIN (shown \o rows) \ {1} :
        (shown \o rows)[i] = (shown \o rows)[i - 1] + 1

\* Every row that is committed while the viewer runs is shown in the end.
AllShown ==
    \A id \in 1..MaxRows :
        pc = "yield" /\ id > before /\ id <= table ~> id \in Range(shown)

(* What the documentation says, and the code does not do.                  *)

\* "Yields the last `initial_tail` rows up front ... and then polls for new
\* rows by id."
OldRowsAreTail ==
    \A i \in DOMAIN shown : shown[i] > before - InitialTail
===============================================================================
