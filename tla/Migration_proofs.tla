--------------------------- MODULE Migration_proofs ---------------------------
(***************************************************************************)
(* Storage.open() brings every file to the current version or leaves it as *)
(* it was, for any number of processes, base objects and statements.       *)
(*                                                                         *)
(* The invariants of Migration are not inductive by themselves: what makes *)
(* the file complete at the commit is how far the transaction got, which   *)
(* ProgressOK relates to the statement that is next.                       *)
(***************************************************************************)
EXTENDS Migration, TLAPS

\* An opener has dealt with all statements before its next one.
ProgressOK ==
    \A o \in Openers :
        /\ pc[o] \in {"seed", "seedcommit", "check", "begin"} => step[o] = 1
        /\ pc[o] = "seedcommit" => created = {}
        /\ pc[o] = "base" => step[o] \in DOMAIN Base
        /\ pc[o] = "apply" =>
            /\ step[o] \in DOMAIN Statements
            /\ \A i \in 1..(step[o] - 1) : Statements[i] \in objects \cup created
        /\ pc[o] = "commit" => Created \subseteq objects \cup created

IInv == TypeOK /\ ProgressOK /\ StampedIsComplete /\ OpenIsCurrent

Actions(o) ==
    Launch(o) \/ Open(o) \/ Fails(o) \/ Abandon(o) \/ Busy(o) \/ Close(o) \/ Crash(o)

-------------------------------------------------------------------------------
\* Going on in a list either moves to the next of it or finishes it.
LEMMA AdvanceCases ==
    ASSUME NEW o \in Openers, NEW list \in Seq(STRING), NEW after,
           step[o] \in DOMAIN list, step \in [Openers -> Nat \ {0}],
           Advance(o, list, after)
    PROVE  \/ /\ step[o] + 1 \in DOMAIN list
              /\ step' = [step EXCEPT ![o] = step[o] + 1]
              /\ UNCHANGED pc
           \/ /\ step[o] = Len(list)
              /\ step' = [step EXCEPT ![o] = 1]
              /\ Goto(o, after)
<1>1. step[o] \in 1..Len(list) /\ Len(list) \in Nat /\ DOMAIN list = 1..Len(list)
  OBVIOUS
<1>2. CASE step[o] < Len(list)
  BY <1>1, <1>2 DEF Advance
<1>3. CASE ~(step[o] < Len(list))
  BY <1>1, <1>3 DEF Advance
<1> QED BY <1>2, <1>3

\* What is committed or created stays so until the transaction is undone, and
\* no action of an opener moves another one.
LEMMA OthersStay ==
    ASSUME NEW o \in Openers, Actions(o), TypeOK
    PROVE  \A p \in Openers \ {o} : pc'[p] = pc[p] /\ step'[p] = step[p]
BY DEF Actions, Open, Launch, CreateBase, Seed, SeedCommit, Check, Begin, Apply,
       Commit, Fails, Abandon, Busy, Close, Crash, Goto, Advance, TypeOK

\* The initial states satisfy the invariant.
LEMMA InitIInv == Init => IInv
<1> SUFFICES ASSUME Init PROVE IInv
  OBVIOUS
<1>1. PICK d \in Databases : versions = d.versions /\ objects = d.objects
  BY DEF Init
<1>2. versions \subseteq Nat /\ StampedIsComplete
  BY <1>1, DatabasesAssumption DEF StampedIsComplete, UpToDate
<1>3. TypeOK
  BY <1>2, FreeAssumption, LaunchesAssumption DEF Init, TypeOK, Places
<1> QED BY <1>2, <1>3 DEF Init, IInv, ProgressOK, OpenIsCurrent

-------------------------------------------------------------------------------
\* Types, the owner of the lock included, are kept by every action.
LEMMA TypeStep ==
    ASSUME IInv, NEW o \in Openers, Actions(o)
    PROVE  TypeOK'
<1> USE DEF TypeOK, Goto, Places, db
<1>1. CASE Launch(o)
  BY <1>1, LaunchesAssumption, FreeAssumption DEF IInv, Launch
<1>2. CASE CreateBase(o)
  BY <1>2, FreeAssumption DEF IInv, CreateBase, Advance
<1>3. CASE Seed(o)
  BY <1>3, FreeAssumption DEF IInv, Seed
<1>4. CASE SeedCommit(o)
  BY <1>4, FreeAssumption DEF IInv, ProgressOK, SeedCommit
<1>5. CASE Check(o)
  BY <1>5, FreeAssumption DEF IInv, Check
<1>6. CASE Begin(o)
  BY <1>6, FreeAssumption DEF IInv, Begin
<1>7. CASE Apply(o)
  <2>1. Statements[step[o]] \in Created
    BY <1>7 DEF IInv, ProgressOK, Apply, Created, Range
  <2> QED BY <1>7, <2>1, FreeAssumption DEF IInv, Apply, Advance
<1>8. CASE Commit(o)
  BY <1>8, FreeAssumption DEF IInv, Commit, Current
<1>9. CASE Fails(o)
  BY <1>9, FreeAssumption DEF IInv, Fails, Undo
<1>10. CASE Busy(o)
  BY <1>10, FreeAssumption DEF IInv, Busy
<1>11. CASE Close(o)
  BY <1>11, FreeAssumption DEF IInv, Close
<1>12. CASE Crash(o)
  BY <1>12, FreeAssumption DEF IInv, Crash, Undo
<1>13. CASE Abandon(o)
  BY <1>13, FreeAssumption DEF IInv, Abandon, Inside
<1> QED
  BY <1>1, <1>2, <1>3, <1>4, <1>5, <1>6, <1>7, <1>8, <1>9, <1>10, <1>11, <1>12, <1>13
     DEF Actions, Open

-------------------------------------------------------------------------------
\* Whatever o does, other openers keep what their transactions rely on: while one
\* has the lock, nobody else changes what is created, and objects only grow.
LEMMA OthersKept ==
    ASSUME IInv, NEW o \in Openers, Actions(o), NEW p \in Openers \ {o}
    PROVE  /\ objects \subseteq objects' /\ versions \subseteq versions'
           /\ pc[p] \in {"seedcommit", "apply", "commit"} => created' = created
<1>1. lock = p => lock # o /\ lock # Free
  BY FreeAssumption
<1>2. pc[p] \in {"seedcommit", "apply", "commit"} =>
          lock = p /\ pc[o] \notin {"seedcommit", "apply", "commit"}
  BY <1>1 DEF IInv, TypeOK
<1> QED
  BY <1>1, <1>2 DEF Actions, Open, Launch, CreateBase, Seed, SeedCommit, Check, Begin,
     Apply, Commit, Fails, Abandon, Busy, Close, Crash, Undo, db

\* The transaction of o gets on.
LEMMA ProgressStep ==
    ASSUME IInv, NEW o \in Openers, Actions(o)
    PROVE  ProgressOK'
<1> DEFINE Mine(p) ==
        /\ pc[p] \in {"seed", "seedcommit", "check", "begin"} => step[p] = 1
        /\ pc[p] = "seedcommit" => created = {}
        /\ pc[p] = "base" => step[p] \in DOMAIN Base
        /\ pc[p] = "apply" =>
            /\ step[p] \in DOMAIN Statements
            /\ \A i \in 1..(step[p] - 1) : Statements[i] \in objects \cup created
        /\ pc[p] = "commit" => Created \subseteq objects \cup created
<1>1. \A p \in Openers : Mine(p)
  BY DEF IInv, ProgressOK
<1>2. ASSUME NEW p \in Openers \ {o} PROVE Mine(p)'
  <2>1. pc'[p] = pc[p] /\ step'[p] = step[p]
    BY OthersStay DEF IInv
  <2>2. /\ objects \subseteq objects'
        /\ pc[p] \in {"seedcommit", "apply", "commit"} => created' = created
    BY OthersKept
  <2> QED BY <1>1, <2>1, <2>2
<1>3. Mine(o)'
  <2> USE DEF Goto, db
  <2>0. TypeOK /\ pc \in [Openers -> Places] /\ step \in [Openers -> Nat \ {0}]
    BY DEF IInv, TypeOK
  <2>1. CASE Launch(o)
    BY <2>0, <2>1, ObjectsAssumption DEF Launch
  <2>2. CASE CreateBase(o)
    <3>1. step[o] \in DOMAIN Base
      BY <1>1, <2>2 DEF CreateBase
    <3>2. Advance(o, Base, "seed")
      BY <2>2 DEF CreateBase
    <3> QED BY <1>1, <2>0, <2>2, <3>1, <3>2, AdvanceCases, ObjectsAssumption DEF CreateBase
  <2>3. CASE Seed(o)
    BY <1>1, <2>0, <2>3 DEF Seed, TypeOK
  <2>4. CASE SeedCommit(o)
    BY <1>1, <2>0, <2>4 DEF SeedCommit
  <2>5. CASE Check(o)
    BY <1>1, <2>0, <2>5 DEF Check
  <2>6. CASE Begin(o)
    BY <1>1, <2>0, <2>6, ObjectsAssumption DEF Begin
  <2>7. CASE Apply(o)
    <3>1. step[o] \in DOMAIN Statements /\ DOMAIN Statements = 1..Len(Statements)
      BY <1>1, <2>7, ObjectsAssumption DEF Apply
    <3>2. /\ Advance(o, Statements, "commit") /\ objects' = objects
          /\ created' = created \cup ({Statements[step[o]]} \ objects)
      BY <2>7 DEF Apply
    <3>3. \A i \in 1..step[o] : Statements[i] \in objects' \cup created'
      BY <1>1, <2>7, <3>1, <3>2 DEF Apply
    <3>4. CASE /\ step[o] + 1 \in DOMAIN Statements
               /\ step' = [step EXCEPT ![o] = step[o] + 1]
               /\ UNCHANGED pc
      BY <2>0, <2>7, <3>3, <3>4 DEF Apply
    <3>5. CASE /\ step[o] = Len(Statements)
               /\ step' = [step EXCEPT ![o] = 1]
               /\ Goto(o, "commit")
      <4>1. Created \subseteq objects' \cup created'
        BY <3>1, <3>3, <3>5 DEF Created, Range
      <4> QED BY <2>0, <3>5, <4>1
    <3> QED BY <2>0, <3>1, <3>2, <3>4, <3>5, AdvanceCases, ObjectsAssumption
  <2>8. CASE Commit(o)
    BY <1>1, <2>0, <2>8 DEF Commit
  <2>9. CASE Fails(o) \/ Abandon(o) \/ Busy(o) \/ Close(o) \/ Crash(o)
    BY <2>0, <2>9 DEF Fails, Abandon, Busy, Close, Crash
  <2> QED
    BY <2>1, <2>2, <2>3, <2>4, <2>5, <2>6, <2>7, <2>8, <2>9 DEF Actions, Open
<1> QED BY <1>2, <1>3 DEF ProgressOK

-------------------------------------------------------------------------------
\* Version 2 is committed only together with what was created, or was there.
LEMMA StampedStep ==
    ASSUME IInv, NEW o \in Openers, Actions(o)
    PROVE  StampedIsComplete'
<1>1. CASE Commit(o)
  BY <1>1 DEF IInv, ProgressOK, Commit, StampedIsComplete
<1>2. CASE ~Commit(o)
  <2>1. versions' \subseteq versions \cup {1} /\ objects \subseteq objects'
    BY <1>2 DEF Actions, Open, Launch, CreateBase, Seed, SeedCommit, Check, Begin, Apply,
       Fails, Abandon, Busy, Close, Crash, db
  <2>2. UpToDate' => UpToDate
    BY <2>1 DEF UpToDate, Current
  <2> QED BY <2>1, <2>2 DEF IInv, StampedIsComplete
<1> QED BY <1>1, <1>2

\* An opener is done when it has committed, or finds a file that is up to date.
LEMMA OpenStep ==
    ASSUME IInv, NEW o \in Openers, Actions(o)
    PROVE  OpenIsCurrent'
<1>1. objects \subseteq objects' /\ (UpToDate => UpToDate')
  <2>1. versions \subseteq versions' /\ objects \subseteq objects'
    BY DEF Actions, Open, Launch, CreateBase, Seed, SeedCommit, Check, Begin, Apply,
       Commit, Fails, Abandon, Busy, Close, Crash, db
  <2> QED BY <2>1 DEF UpToDate
<1>2. ASSUME NEW p \in Openers \ {o}, pc'[p] = "open"
      PROVE  UpToDate' /\ Created \subseteq objects'
  BY <1>1, <1>2, OthersStay DEF IInv, OpenIsCurrent
<1>3. ASSUME pc'[o] = "open"
      PROVE  UpToDate' /\ Created \subseteq objects'
  <2>0. pc \in [Openers -> Places]
    BY DEF IInv, TypeOK
  <2>1. CASE Commit(o)
    <3>1. UpToDate'
      BY <2>1 DEF Commit, UpToDate, Current
    <3> QED BY <2>1, <3>1 DEF IInv, ProgressOK, Commit
  <2>2. CASE Check(o)
    BY <1>1, <1>3, <2>0, <2>2 DEF IInv, Check, Goto, StampedIsComplete
  <2>3. CASE Apply(o) \/ CreateBase(o)
    BY <1>3, <2>0, <2>3 DEF Apply, CreateBase, Advance, Goto
  <2>4. CASE ~Commit(o) /\ ~Check(o) /\ ~Apply(o) /\ ~CreateBase(o)
    BY <1>3, <2>0, <2>4 DEF Actions, Open, Launch, Seed, SeedCommit, Begin,
       Fails, Abandon, Busy, Close, Crash, Goto
  <2> QED BY <2>1, <2>2, <2>3, <2>4
<1> QED BY <1>2, <1>3 DEF OpenIsCurrent

\* New objects of the migration become durable in a commit only.
LEMMA AtOnceStep ==
    ASSUME IInv, NEW o \in Openers, Actions(o)
    PROVE  (objects' \ objects) \cap Created # {} =>
               Created \subseteq objects' /\ Current \in versions'
<1>1. CASE Commit(o)
  BY <1>1 DEF IInv, ProgressOK, Commit
<1>2. CASE CreateBase(o)
  <2>1. Base[step[o]] \in Range(Base)
    BY <1>2 DEF IInv, ProgressOK, CreateBase, Range
  <2>2. objects' = objects \cup {Base[step[o]]}
    BY <1>2 DEF CreateBase
  <2> QED BY <2>1, <2>2, ObjectsAssumption
<1>3. CASE ~Commit(o) /\ ~CreateBase(o)
  <2>1. objects' = objects
    BY <1>3 DEF Actions, Open, Launch, Seed, SeedCommit, Check, Begin, Apply, Fails,
       Abandon, Busy, Close, Crash, db
  <2> QED BY <2>1
<1> QED BY <1>1, <1>2, <1>3

\* Every step keeps the invariant, a stutter included.
LEMMA StepIInv == IInv /\ [Next]_vars => IInv'
<1> SUFFICES ASSUME IInv, [Next]_vars PROVE IInv'
  OBVIOUS
<1>1. ASSUME NEW o \in Openers, Actions(o) PROVE IInv'
  BY <1>1, TypeStep, ProgressStep, StampedStep, OpenStep DEF IInv
<1>2. CASE UNCHANGED vars
  BY <1>2 DEF vars, db, IInv, TypeOK, ProgressOK, StampedIsComplete, OpenIsCurrent,
     UpToDate
<1> QED BY <1>1, <1>2 DEF Next, Actions

-------------------------------------------------------------------------------
\* Storage.open(): the invariant holds in every reachable state.
THEOREM Invariance == Spec => []IInv
BY InitIInv, StepIInv, PTL DEF Spec

\* Types, and that only the owner of SQLite's write lock is in a transaction.
THEOREM TypeCorrect == Spec => []TypeOK
<1>1. IInv => TypeOK
  BY DEF IInv
<1> QED BY <1>1, Invariance, PTL

\* However many processes open the file, and wherever they die or fail, a file
\* that claims version 2 has all of it (Storage._run_migrations).
THEOREM StampedFilesAreComplete == Spec => []StampedIsComplete
<1>1. IInv => StampedIsComplete
  BY DEF IInv
<1> QED BY <1>1, Invariance, PTL

\* When Storage.open() returns, the file is at version 2 and complete.
THEOREM OpenFilesAreCurrent == Spec => []OpenIsCurrent
<1>1. IInv => OpenIsCurrent
  BY DEF IInv
<1> QED BY <1>1, Invariance, PTL

\* No step makes a part of the migration durable without the rest.
THEOREM MigrationIsAtomic == Spec => MigratesAtOnce
<1>1. IInv /\ [Next]_vars =>
          [(objects' \ objects) \cap Created # {} =>
              Created \subseteq objects' /\ Current \in versions']_vars
  BY AtOnceStep DEF Next, Actions, vars, db
<1> QED BY <1>1, Invariance, PTL DEF Spec, MigratesAtOnce
===============================================================================
