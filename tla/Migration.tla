------------------------------- MODULE Migration -------------------------------
(***************************************************************************)
(* Storage.open(): several processes (proxies, viewers) open one database, *)
(* create what is missing of the first schema, and bring it to version 2   *)
(* in one transaction.  Any of them may be killed at any point.            *)
(*                                                                         *)
(* SQLite lets one connection write at a time; readers see what was last   *)
(* committed.  Statements outside a transaction commit by themselves.      *)
(***************************************************************************)
EXTENDS Integers, Sequences, Functions

CONSTANTS
    Openers,        \* the processes
    Base,           \* the objects of _BASE_DDL, in order
    Statements,     \* what each statement of the migration creates
    Databases,      \* what the file may hold at first
    Faults,         \* "statement": a statement may fail, "commit": a commit
                    \* may fail, "busy": a lock may stay taken for 5 s,
                    \* "interrupt": the user may press Ctrl-C
    MaxLaunches     \* bound: open() calls in a behaviour

ASSUME FaultsAssumption == Faults \subseteq {"statement", "commit", "busy", "interrupt"}
ASSUME LaunchesAssumption == MaxLaunches \in Nat
Created == Range(Statements)
Current == 2

ASSUME ObjectsAssumption ==
    /\ Base \in Seq(STRING) /\ Base # <<>>
    /\ Statements \in Seq(STRING) /\ Statements # <<>>
    /\ Range(Base) \cap Created = {}

\* A file that claims a version has what that version needs.
ASSUME DatabasesAssumption ==
    \A db \in Databases :
        /\ db.versions \subseteq Nat
        /\ (\E v \in db.versions : v >= Current) => Created \subseteq db.objects

VARIABLES
    versions, objects,  \* committed: rows of schema_version, schema objects
    lock, created,      \* who writes, and what its transaction has created
    pc, step,           \* by opener: where open() stands, which statement is next
    launches

db   == <<versions, objects>>
vars == <<db, lock, created, pc, step, launches>>

UpToDate == \E v \in versions : v >= Current

Free == "free"
ASSUME FreeAssumption == Free \notin Openers

Init ==
    /\ \E d \in Databases : versions = d.versions /\ objects = d.objects
    /\ lock = Free /\ created = {}
    /\ pc = [o \in Openers |-> "closed"] /\ step = [o \in Openers |-> 1]
    /\ launches = 0

-------------------------------------------------------------------------------
Goto(o, where) == pc' = [pc EXCEPT ![o] = where]

Advance(o, list, after) ==
    /\ step' = [step EXCEPT ![o] = IF step[o] < Len(list) THEN @ + 1 ELSE 1]
    /\ IF step[o] < Len(list) THEN UNCHANGED pc ELSE Goto(o, after)

Launch(o) ==
    /\ pc[o] \in {"closed", "failed"} /\ launches < MaxLaunches
    /\ launches' = launches + 1
    /\ Goto(o, "base") /\ step' = [step EXCEPT ![o] = 1]
    /\ UNCHANGED <<db, lock, created>>

\* CREATE ... IF NOT EXISTS, each committed by itself.
CreateBase(o) ==
    /\ pc[o] = "base"
    /\ Base[step[o]] \in objects \/ lock = Free
    /\ objects' = objects \cup {Base[step[o]]}
    /\ Advance(o, Base, "seed")
    /\ UNCHANGED <<versions, lock, created, launches>>

\* INSERT OR IGNORE of version 1, in a transaction of its own.
Seed(o) ==
    /\ pc[o] = "seed" /\ lock = Free
    /\ lock' = o
    /\ Goto(o, "seedcommit")
    /\ UNCHANGED <<db, created, step, launches>>

SeedCommit(o) ==
    /\ pc[o] = "seedcommit"
    /\ versions' = versions \cup {1}
    /\ lock' = Free
    /\ Goto(o, "check")
    /\ UNCHANGED <<objects, created, step, launches>>

\* The version is read before the lock is taken, and not again.
Check(o) ==
    /\ pc[o] = "check"
    /\ Goto(o, IF UpToDate THEN "open" ELSE "begin")
    /\ UNCHANGED <<db, lock, created, step, launches>>

\* BEGIN IMMEDIATE.
Begin(o) ==
    /\ pc[o] = "begin" /\ lock = Free
    /\ lock' = o
    /\ Goto(o, "apply")
    /\ UNCHANGED <<db, created, step, launches>>

\* Slip: no transaction, so that every statement commits.
ApplyCommits(o) ==
    /\ pc[o] = "apply"
    /\ objects' = objects \cup {Statements[step[o]]}
    /\ Advance(o, Statements, "commit")
    /\ UNCHANGED <<versions, created, lock, launches>>

\* A column that exists is tolerated, and the other statements say IF NOT EXISTS.
Apply(o) ==
    /\ pc[o] = "apply"
    /\ created' = created \cup ({Statements[step[o]]} \ objects)
    /\ Advance(o, Statements, "commit")
    /\ UNCHANGED <<db, lock, launches>>

\* Version 2 is inserted and the transaction committed.
Commit(o) ==
    /\ pc[o] = "commit"
    /\ objects' = objects \cup created
    /\ versions' = versions \cup {Current}
    /\ lock' = Free /\ created' = {}
    /\ Goto(o, "open")
    /\ UNCHANGED <<step, launches>>

\* The transaction of o, if it has one, is undone.
Undo(o) ==
    /\ lock' = IF lock = o THEN Free ELSE lock
    /\ created' = IF lock = o THEN {} ELSE created

\* Slip: the exception is passed on without a rollback.
FailsOpen(o) ==
    /\ \/ "statement" \in Faults /\ pc[o] = "apply"
       \/ "commit" \in Faults /\ pc[o] \in {"seedcommit", "commit"}
    /\ Goto(o, "failed")
    /\ UNCHANGED <<db, lock, created, step, launches>>

\* Slip: whatever a statement says is tolerated.
FailsTolerated(o) ==
    /\ "statement" \in Faults /\ pc[o] = "apply"
    /\ Advance(o, Statements, "commit")
    /\ UNCHANGED <<db, lock, created, launches>>

\* Any other error of the migration is rolled back and raised; what comes before
\* is in no try block, but before the seed there is nothing to undo, and SQLite
\* may undo by itself what it cannot commit.
Fails(o) ==
    /\ \/ "statement" \in Faults /\ pc[o] \in {"base", "seed", "check", "begin", "apply"}
       \/ "commit" \in Faults /\ pc[o] \in {"seedcommit", "commit"}
    /\ Undo(o)
    /\ Goto(o, "failed")
    /\ UNCHANGED <<db, step, launches>>

Inside(o) == pc[o] \notin {"closed", "open", "failed", "abandoned"}

\* open() is left with its transaction as it is, on a connection that nobody
\* closes and aiosqlite's thread keeps: Ctrl-C comes as a CancelledError, which
\* `except Exception' lets through, and run_proxy() opens outside its try.  The
\* statement under way is still executed, so that any await is left like this
\* once it has been; the seed or its commit may also fail and be left so.
Abandon(o) ==
    /\ \/ /\ "interrupt" \in Faults /\ Inside(o)
          /\ pc[o] = "base" => step[o] = 1
       \/ Faults \cap {"statement", "commit"} # {} /\ pc[o] = "seedcommit"
    /\ Goto(o, "abandoned")
    /\ UNCHANGED <<db, lock, created, step, launches>>

\* Slip: a database that is locked is taken for one that is being migrated.
BusyOpens(o) ==
    /\ "busy" \in Faults /\ lock # Free
    /\ pc[o] = "begin"
    /\ Goto(o, "open")
    /\ UNCHANGED <<db, lock, created, step, launches>>

\* "database is locked": open() raises.
Busy(o) ==
    /\ "busy" \in Faults /\ lock # Free
    /\ \/ pc[o] = "base" /\ Base[step[o]] \notin objects
       \/ pc[o] \in {"seed", "begin"}
    /\ Goto(o, "failed")
    /\ UNCHANGED <<db, lock, created, step, launches>>

Close(o) ==
    /\ pc[o] = "open"
    /\ Goto(o, "closed")
    /\ UNCHANGED <<db, lock, created, step, launches>>

\* The process is killed, or an abandoned one has ended for good.
Crash(o) ==
    /\ pc[o] \notin {"closed", "open"}
    /\ Undo(o)
    /\ Goto(o, "closed")
    /\ UNCHANGED <<db, step, launches>>

Open(o) ==
    CreateBase(o) \/ Seed(o) \/ SeedCommit(o) \/ Check(o) \/ Begin(o) \/ Apply(o)
        \/ Commit(o)

Next ==
    \/ \E o \in Openers :
        Launch(o) \/ Open(o) \/ Fails(o) \/ Abandon(o) \/ Busy(o) \/ Close(o) \/ Crash(o)
    \/ launches = MaxLaunches /\ UNCHANGED vars

\* A process that is not killed runs, and gets a lock that is free.  Nobody
\* promises that an abandoned connection goes away.
Spec == Init /\ [][Next]_vars /\ \A o \in Openers : WF_vars(Open(o))
-------------------------------------------------------------------------------
Places == {"closed", "base", "seed", "seedcommit", "check", "begin", "apply",
           "commit", "open", "failed", "abandoned"}

\* Types, and that a transaction belongs to whoever has the lock.
TypeOK ==
    /\ versions \subseteq Nat
    /\ lock \in Openers \cup {Free}
    /\ created \subseteq Created /\ (lock = Free => created = {})
    /\ pc \in [Openers -> Places] /\ step \in [Openers -> Nat \ {0}]
    /\ launches \in 0..MaxLaunches
    /\ \A o \in Openers :
        /\ pc[o] \in {"seedcommit", "apply", "commit"} => lock = o
        /\ lock = o => pc[o] \in {"seedcommit", "apply", "commit", "abandoned"}

\* Whoever crashes, fails or runs at the same time, a file that claims version 2
\* has every column, table and index of it.
StampedIsComplete ==
    UpToDate => Created \subseteq objects

\* open() returns only when the file is complete, even if it met a lock.
OpenIsCurrent ==
    \A o \in Openers : pc[o] = "open" => UpToDate /\ Created \subseteq objects

\* "a crash mid-way leaves schema_version un-bumped": no part of the migration
\* becomes durable without the rest of it and its version.
MigratesAtOnce ==
    [][ (objects' \ objects) \cap Created # {} =>
            Created \subseteq objects' /\ Current \in versions' ]_vars

\* A process that died, or whose migration failed, leaves no lock behind, so that
\* everybody who opens the file gets through, as long as no process that was
\* interrupted, or could not commit its seed, sits on the lock.
OpenEnds ==
    \A o \in Openers :
        Inside(o) ~> ~Inside(o) \/ \E q \in Openers : lock = q /\ pc[q] = "abandoned"

(* What the documents say, and the code does not do.                       *)

\* "the next open will retry from the same starting point"
NextOpenRetries == \A o \in Openers : Inside(o) ~> ~Inside(o)

\* "the second writer blocks until commit, then re-reads schema_version and
\* skips."
SecondSkips ==
    \A o \in Openers : pc[o] = "apply" => ~UpToDate
===============================================================================
