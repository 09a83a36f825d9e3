---------------------------- MODULE SharedFile_proofs ---------------------------
(***************************************************************************)
(* For any number of proxies on one file: the others, whatever they do and *)
(* whatever fails there, cost a proxy none but the rows that it reports; a *)
(* write lock that a cancelled task left behind is on its way back; and    *)
(* all of them together write the file as Follow assumes.                  *)
(*                                                                         *)
(* The first two are about the proxies that are sound: no statement of     *)
(* theirs has failed but for the lock, and their shutdown has not run out  *)
(* of time.  The third is about all of them.                               *)
(*                                                                         *)
(* The argument for the rows follows a batch through the requests of its   *)
(* writer, of which there is one at a time.  The argument for the lock     *)
(* rests on the order of the requests: a write that nobody awaits comes    *)
(* before the next one of the writer, which is sure to follow since the    *)
(* frame that was inspected is yet to be recorded.  The argument for       *)
(* Follow counts: whatever is still to be written is new, even when it is  *)
(* written again by a writer that was cancelled, so that a commit adds as  *)
(* many rows as the transaction had.                                       *)
(***************************************************************************)
EXTENDS SharedFile, FiniteSetTheorems, SequenceTheorems, TLAPS

AllRows == Proxies \X Int

Requests ==
    [kind : {"read", "write", "commit"}, rows : SUBSET AllRows, by : Tasks \cup {"nobody"}]

Stages == {"rest", "read", "call", "write", "commit", "forward", "cancelled"}

TypeOK ==
    /\ phase \in [Proxies -> {"new", "starting", "spawning", "patching", "running",
                              "draining", "cancelling", "ending", "closing", "closed", "dead"}]
    /\ stage \in [Proxies -> [Tasks -> Stages]]
    /\ reply \in [Proxies -> [Tasks -> {"none", "ok", "err"}]]
    /\ ops \in [Proxies -> Seq(Requests)]
    /\ frames \in [Proxies -> Nat]
    /\ queue \in [Proxies -> SUBSET AllRows] /\ batch \in [Proxies -> SUBSET AllRows]
    /\ lost \in [Proxies -> SUBSET AllRows] /\ tx \in [Proxies -> SUBSET AllRows]
    /\ snapshot \in [Proxies -> {"none", "fresh", "stale"}]
    /\ lock \in Proxies \cup {Free} /\ table \subseteq AllRows
    /\ inTx \in [Proxies -> BOOLEAN] /\ alone \in [Proxies -> BOOLEAN]
    /\ dropped \in [Proxies -> SUBSET AllRows] /\ faults \in [Proxies -> Nat]

\* A task awaits its only request, which is the one that its stage tells.  Only
\* the writer's write carries rows, while it has not been cancelled.
RequestsOK(p) ==
    /\ \A i \in DOMAIN ops[p] :
        LET o == ops[p][i]
        IN  /\ o.by \in Tasks => o.kind = stage[p][o.by] /\ reply[p][o.by] = "none"
            /\ faults[p] = 0 =>
                o.rows = IF o.by = "writer" /\ o.kind = "write" THEN batch[p] ELSE {}
    /\ \A i, j \in DOMAIN ops[p] : ops[p][i].by = ops[p][j].by /\ i # j => ops[p][i].by = "nobody"

\* Which tasks are at work in which phase; a proxy that is gone holds nothing.
PhaseOK(p) ==
    /\ phase[p] \in Gone =>
        /\ ops[p] = <<>> /\ tx[p] = {} /\ snapshot[p] = "none" /\ lock # p
    /\ phase[p] = "new" => lost[p] = {}
    /\ phase[p] # "running" => stage[p]["pump"] = "rest"
    /\ phase[p] \notin {"running", "draining"} => queue[p] = {}
    /\ phase[p] \notin {"running", "draining", "cancelling"} => stage[p]["writer"] = "rest"
    /\ phase[p] \in {"spawning", "running", "draining", "cancelling", "closing"} \cup Gone =>
        stage[p]["main"] = "rest"
    /\ phase[p] = "cancelling" => faults[p] # 0
    /\ stage[p]["writer"] = "cancelled" => phase[p] = "cancelling"

\* The rows of p that there may be: those of the frames, and those that the
\* writer writes again.
Repeated(p) ==
    /\ phase[p] \in {"cancelling", "ending", "closing", "closed", "dead"}
    /\ stage[p]["writer"] # "cancelled"

Used(p) ==
    {p} \X ((1..frames[p]) \cup
            (IF Repeated(p) THEN (MaxFrames[p] + 1)..(2 * MaxFrames[p]) ELSE {}))

RequestsFresh(p) ==
    /\ \A i \in DOMAIN ops[p] :
        /\ ops[p][i].rows \subseteq Used(p)
        /\ ops[p][i].rows \cap (queue[p] \cup tx[p] \cup table) = {}
    /\ \A i, j \in DOMAIN ops[p] : i # j => ops[p][i].rows \cap ops[p][j].rows = {}

\* What is yet to be written is new, and what is written is the lock's owner's.
FreshOK(p) ==
    /\ frames[p] <= MaxFrames[p]
    /\ stage[p]["pump"] # "rest" => frames[p] < MaxFrames[p]
    /\ queue[p] \cup batch[p] \subseteq {p} \X (1..frames[p])
    /\ tx[p] \subseteq Used(p) /\ table \cap ({p} \X Int) \subseteq Used(p)
    /\ tx[p] \cap table = {} /\ queue[p] \cap (tx[p] \cup table) = {}
    /\ tx[p] # {} => lock = p
    /\ RequestsFresh(p)

\* Where the rows of p's frames are, while it is sound.
RowsOK(p) ==
    /\ batch[p] \cup lost[p] \cup dropped[p] \subseteq {p} \X (1..frames[p])
    /\ queue[p] \cap (batch[p] \cup lost[p] \cup dropped[p]) = {}
    /\ batch[p] \cap (lost[p] \cup dropped[p]) = {}
    /\ (lost[p] \cup dropped[p]) \cap (table \cup tx[p]) = {}
    /\ phase[p] # "dead" =>
        {p} \X (1..frames[p]) \subseteq
            queue[p] \cup batch[p] \cup lost[p] \cup dropped[p] \cup table

\* How far the writer's batch is.
BatchOK(p) ==
    LET s == stage[p]["writer"]
        r == reply[p]["writer"]
    IN  /\ s \in {"rest", "write", "commit"}
        /\ s = "rest" => batch[p] = {} /\ r = "none"
        /\ s = "write" /\ r # "ok" => batch[p] \cap (tx[p] \cup table) = {}
        /\ s = "write" /\ r = "ok" => batch[p] \subseteq tx[p] \cup table
        /\ s = "commit" => r # "err" /\ batch[p] \subseteq tx[p] \cup table
        /\ s = "commit" /\ r = "ok" => batch[p] \subseteq table

\* A proxy that is alone meets nobody's lock and nobody's commit.
AloneOK(p) ==
    alone[p] =>
        /\ lost[p] = {} /\ snapshot[p] # "stale"
        /\ phase[p] \notin Gone => IsAlone(p) /\ reply[p]["writer"] # "err"

\* Task t of p is going to commit, or to be told that it cannot write.
Commits(p, t) ==
    \/ stage[p][t] = "commit" /\ reply[p][t] = "none"
    \/ stage[p][t] = "write" /\ reply[p][t] # "err"

Recording(p) == stage[p]["pump"] = "forward" \/ queue[p] # {}

\* An abandoned write is followed by a row, and so by the writer's commit.
AbandonedOK(p) ==
    \A i \in DOMAIN ops[p] :
        phase[p] = "running" /\ ops[p][i].kind = "write" /\ ops[p][i].by = "nobody" =>
            \/ Recording(p)
            \/ \E j \in DOMAIN ops[p] :
                i < j /\ ops[p][j].kind = "write" /\ ops[p][j].by = "writer"

\* Who is going to give p's lock back.
LockOK(p) ==
    /\ lock = p => snapshot[p] # "stale"
    /\ lock = p /\ phase[p] = "running" =>
        Commits(p, "pump") \/ Commits(p, "writer") \/ Recording(p)
    /\ phase[p] \in {"starting", "patching"} =>
        /\ \A i \in DOMAIN ops[p] : ops[p][i].by = "main"
        /\ stage[p]["main"] = "commit" /\ reply[p]["main"] = "ok" => lock # p
    /\ phase[p] = "spawning" => ops[p] = <<>> /\ lock # p

SoundOK(p) == RowsOK(p) /\ BatchOK(p) /\ AloneOK(p) /\ LockOK(p) /\ AbandonedOK(p)

IInv ==
    /\ TypeOK
    /\ \A p \in Proxies :
        /\ RequestsOK(p) /\ PhaseOK(p) /\ FreshOK(p)
        /\ faults[p] = 0 => SoundOK(p)

\* The steps of p, and those of a proxy that stays sound.
Steps(p) ==
    \/ StartSession(p) \/ Main(p) \/ SpawnFails(p) \/ Raise(p)
    \/ Stop(p) \/ ShutdownTimeout(p) \/ Die(p)
    \/ Thread(p)
    \/ Lookup(p) \/ Forward(p) \/ Pump(p) \/ BudgetEnds(p)
    \/ Writer(p)

Executes(p) == ExecRead(p) \/ ExecWrite(p) \/ ExecBusy(p) \/ ExecCommit(p)

SoundSteps(p) ==
    \/ StartSession(p) \/ Main(p) \/ SpawnFails(p) \/ Raise(p)
    \/ Stop(p) \/ Die(p)
    \/ Executes(p)
    \/ Lookup(p) \/ Forward(p) \/ Pump(p) \/ BudgetEnds(p)
    \/ Writer(p)

USE DEF process, file, vars, Free, Tasks

-------------------------------------------------------------------------------
\* The initial state satisfies the invariant.
LEMMA InitIInv == Init => IInv
<1> SUFFICES ASSUME Init PROVE IInv
  OBVIOUS
<1>1. TypeOK
  BY DEF Init, TypeOK, AllRows, Stages
<1>2. ASSUME NEW p \in Proxies
      PROVE  RequestsOK(p) /\ PhaseOK(p) /\ FreshOK(p) /\ SoundOK(p)
  <2>1. MaxFrames[p] \in Nat
    BY FramesAssumption
  <2> QED BY <2>1, FreeAssumption
      DEF Init, RequestsOK, PhaseOK, FreshOK, RequestsFresh, Used, SoundOK, RowsOK, BatchOK, AloneOK, LockOK,
          AbandonedOK, Gone, Commits, Recording
<1> QED BY <1>1, <1>2 DEF IInv

\* The requests of the tasks and the connection keep their types.
LEMMA OrphanedType ==
    ASSUME TypeOK, NEW p \in Proxies, NEW t \in Tasks
    PROVE  /\ Orphaned(p, t) \in Seq(Requests)
           /\ DOMAIN Orphaned(p, t) = DOMAIN ops[p]
           /\ \A i \in DOMAIN ops[p] :
                Orphaned(p, t)[i] =
                    IF ops[p][i].by = t THEN [ops[p][i] EXCEPT !.by = "nobody"] ELSE ops[p][i]
<1>1. ops[p] \in Seq(Requests)
  BY DEF TypeOK
<1>2. Len(ops[p]) \in Nat /\ DOMAIN ops[p] = 1..Len(ops[p])
  BY <1>1
<1>3. \A i \in DOMAIN ops[p] : ops[p][i] \in Requests
  BY <1>1
<1>4. \A i \in DOMAIN ops[p] : [ops[p][i] EXCEPT !.by = "nobody"] \in Requests
  BY <1>3 DEF Requests
<1>5. Orphaned(p, t) \in [1..Len(ops[p]) -> Requests]
  BY <1>2, <1>3, <1>4 DEF Orphaned
<1> QED BY <1>2, <1>5 DEF Orphaned

LEMMA TypeStep == ASSUME TypeOK, NEW p \in Proxies, Steps(p) PROVE TypeOK'
<1> USE DEF TypeOK, Stages
<1>1. ASSUME NEW t \in Tasks, NEW to \in {"read", "write", "commit"}, NEW kind, NEW rows,
             kind \in {"read", "write", "commit"}, rows \subseteq AllRows,
             Await(p, t, to, kind, rows)
      PROVE  /\ stage' \in [Proxies -> [Tasks -> Stages]]
             /\ reply' \in [Proxies -> [Tasks -> {"none", "ok", "err"}]]
             /\ ops' \in [Proxies -> Seq(Requests)]
  <2>1. Request(kind, rows, t) \in Requests
    BY <1>1 DEF Request, Requests
  <2>2. Append(ops[p], Request(kind, rows, t)) \in Seq(Requests)
    BY <2>1
  <2> QED BY <1>1, <2>2 DEF Await
<1>2. ASSUME NEW t \in Tasks, NEW to \in Stages, Moves(p, t, to)
      PROVE  /\ stage' \in [Proxies -> [Tasks -> Stages]]
             /\ reply' \in [Proxies -> [Tasks -> {"none", "ok", "err"}]]
  BY <1>2 DEF Moves
<1>3. CASE StartSession(p)
  <2>1. alone' \in [Proxies -> BOOLEAN]
    BY <1>3, Zenon DEF StartSession, IsAlone
  <2>2. phase' = [phase EXCEPT ![p] = "starting"]
    BY <1>3 DEF StartSession
  <2>3. /\ stage' \in [Proxies -> [Tasks -> Stages]]
        /\ reply' \in [Proxies -> [Tasks -> {"none", "ok", "err"}]]
        /\ ops' \in [Proxies -> Seq(Requests)]
    <3> HIDE DEF Stages
    <3> QED BY <1>1, <1>3 DEF StartSession
  <2> QED BY <1>3, <2>1, <2>2, <2>3 DEF StartSession
<1>4. CASE EndSession(p) \/ Spawn(p)
  <2>1. CASE EndSession(p)
    BY <1>1, <2>1 DEF EndSession
  <2>2. CASE Spawn(p)
    BY <1>1, <2>2 DEF Spawn
  <2> QED BY <1>4, <2>1, <2>2
<1>5. CASE MainWritten(p) \/ Lookup(p) \/ Upsert(p) \/ Upserted(p) \/ Inserted(p)
  BY <1>1, <1>5 DEF MainWritten, Lookup, Upsert, Upserted, Inserted
<1>6. CASE MainCommitted(p) \/ MainFailed(p) \/ SpawnFails(p) \/ Raise(p)
  <2>1. phase' \in [Proxies -> {"new", "starting", "spawning", "patching", "running",
                              "draining", "cancelling", "ending", "closing", "closed", "dead"}]
    BY <1>6 DEF MainCommitted, MainFailed, SpawnFails, Raise
  <2> QED BY <1>2, <1>6, <2>1 DEF MainCommitted, MainFailed, SpawnFails, Raise
<1>7. CASE Stop(p) \/ BudgetEnds(p)
  BY ZenonT(60), <1>2, <1>7, OrphanedType DEF Stop, BudgetEnds
<1>8. CASE Close(p) \/ Die(p)
  <2>1. CASE Close(p)
    BY <2>1 DEF Close, RollBack
  <2>2. CASE Die(p)
    BY <2>2 DEF Die, RollBack
  <2> QED BY <1>8, <2>1, <2>2
<1>9. CASE Forward(p) \/ LookedUp(p) \/ NoLabel(p) \/ UpsertEnds(p)
  BY <1>2, <1>9 DEF Forward, LookedUp, NoLabel, UpsertEnds, PumpGoes
<1>10. CASE Record(p) \/ Overflows(p)
  <2>1. frames' \in [Proxies -> Nat] /\ frames'[p] \in Nat
    <3>1. frames' = [frames EXCEPT ![p] = @ + 1]
      BY <1>10 DEF Record, Overflows
    <3>2. frames[p] + 1 \in Nat
      OBVIOUS
    <3> QED BY <3>1, <3>2
  <2>2. Row(p, frames'[p]) \in AllRows
    BY <2>1 DEF AllRows, Row
  <2>3. CASE Record(p)
    <3>1. queue' \in [Proxies -> SUBSET AllRows]
      BY <2>2, <2>3 DEF Record
    <3> QED BY <1>2, <2>1, <2>3, <3>1 DEF Record
  <2>4. CASE Overflows(p)
    <3>1. dropped' \in [Proxies -> SUBSET AllRows]
      BY <2>2, <2>4 DEF Overflows
    <3> QED BY <1>2, <2>1, <2>4, <3>1 DEF Overflows
  <2> QED BY <1>10, <2>3, <2>4
<1>11. CASE Take(p)
  <2>1. queue' \in [Proxies -> SUBSET AllRows] /\ batch' \in [Proxies -> SUBSET AllRows]
    BY <1>11 DEF Take
  <2> QED BY <1>1, <1>11, <2>1 DEF Take
<1>12. CASE Flushed(p) \/ Dropped(p)
  <2>1. CASE Flushed(p)
    BY <1>2, <2>1 DEF Flushed, BatchEnds
  <2>2. CASE Dropped(p)
    <3>1. lost' \in [Proxies -> SUBSET AllRows]
      BY <2>2 DEF Dropped
    <3> QED BY <1>2, <2>2, <3>1 DEF Dropped, BatchEnds
  <2> QED BY <1>12, <2>1, <2>2
<1>13. CASE FlushAgain(p)
  <2>1. {Again(p, r) : r \in batch[p]} \subseteq AllRows
    <3>1. \A r \in batch[p] : r[2] \in Int
      BY DEF AllRows
    <3>2. MaxFrames[p] \in Nat
      BY FramesAssumption
    <3> QED BY <3>1, <3>2 DEF Again, AllRows
  <2> QED BY <1>1, <1>13, <2>1 DEF FlushAgain
<1>14. CASE ShutdownTimeout(p)
  <2>1. /\ faults' \in [Proxies -> Nat] /\ queue' \in [Proxies -> SUBSET AllRows]
        /\ phase' = [phase EXCEPT ![p] = "cancelling"]
    BY <1>14 DEF ShutdownTimeout, Fault
  <2>2. /\ stage' \in [Proxies -> [Tasks -> Stages]]
        /\ reply' \in [Proxies -> [Tasks -> {"none", "ok", "err"}]]
    BY <1>2, <1>14 DEF ShutdownTimeout
  <2>3. ops' \in [Proxies -> Seq(Requests)]
    BY <1>14, OrphanedType DEF ShutdownTimeout
  <2> QED BY <1>14, <2>1, <2>2, <2>3 DEF ShutdownTimeout
<1>15. CASE Thread(p)
  <2>1. CASE ops[p] # <<>>
    <3>1. Head(ops[p]) \in Requests /\ Tail(ops[p]) \in Seq(Requests)
      BY <2>1
    <3>2. Head(ops[p]).rows \subseteq AllRows
      BY <3>1 DEF Requests
    <3>3. ASSUME NEW result \in {"ok", "err"}, Answers(p, result)
          PROVE  /\ ops' \in [Proxies -> Seq(Requests)]
                 /\ reply' \in [Proxies -> [Tasks -> {"none", "ok", "err"}]]
      BY <3>1, <3>3 DEF Answers
    <3>4. CASE ExecRead(p) \/ ExecBusy(p)
      BY <3>3, <3>4 DEF ExecRead, ExecBusy, Answer, Answers
    <3>5. CASE ExecWrite(p)
      BY <3>2, <3>3, <3>5 DEF ExecWrite, Answer, Answers
    <3>6. CASE ExecCommit(p)
      BY <3>3, <3>6 DEF ExecCommit, Answer, Answers
    <3>7. ASSUME Fails(p)
          PROVE  /\ ops' \in [Proxies -> Seq(Requests)] /\ faults' \in [Proxies -> Nat]
                 /\ reply' \in [Proxies -> [Tasks -> {"none", "ok", "err"}]]
      BY <3>3, <3>7 DEF Fails, Fault
    <3>8. CASE ExecReadFails(p) \/ ExecCommitFails(p)
      BY <3>7, <3>8 DEF ExecReadFails, ExecCommitFails, Fails, Answers
    <3>9. CASE ExecRollsBack(p)
      BY <3>7, <3>9 DEF ExecRollsBack, RollBack, Fails, Answers
    <3>10. CASE ExecRowFails(p)
      <4>1. tx' \in [Proxies -> SUBSET AllRows] /\ lock' \in Proxies \cup {Free}
        BY <3>2, <3>10 DEF ExecRowFails
      <4>2. inTx' \in [Proxies -> BOOLEAN] /\ UNCHANGED <<snapshot, table>> /\ Fails(p)
        BY <3>10 DEF ExecRowFails
      <4> QED BY <3>7, <4>1, <4>2 DEF Fails, Answers
    <3> QED BY <1>15, <3>4, <3>5, <3>6, <3>8, <3>9, <3>10 DEF Thread
  <2>2. CASE ops[p] = <<>>
    BY <1>15, <2>2 DEF Thread, ExecRead, ExecWrite, ExecBusy, ExecCommit, ExecReadFails,
       ExecRowFails, ExecRollsBack, ExecCommitFails, Pending
  <2> QED BY <2>1, <2>2
<1> QED BY <1>3, <1>4, <1>5, <1>6, <1>7, <1>8, <1>9, <1>10, <1>11, <1>12, <1>13, <1>14, <1>15
        DEF Steps, Main, Pump, Writer

\* The thread answers the first request, one way or the other.
LEMMA ThreadAnswers ==
    ASSUME NEW p \in Proxies, Thread(p)
    PROVE  ops[p] # <<>> /\ \E result \in {"ok", "err"} : Answers(p, result)
BY DEF Thread, ExecRead, ExecWrite, ExecBusy, ExecCommit, ExecReadFails, ExecRowFails,
       ExecRollsBack, ExecCommitFails, Pending, Answer, Fails

\* A proxy that is sound after a step was sound before, and nothing failed.
LEMMA SoundStays ==
    ASSUME TypeOK, NEW p \in Proxies, Steps(p), faults'[p] = 0
    PROVE  SoundSteps(p) /\ faults' = faults
<1>1. ~Fault(p)
  BY DEF Fault, TypeOK
<1>2. ~ShutdownTimeout(p) /\ ~ExecReadFails(p) /\ ~ExecRowFails(p) /\ ~ExecRollsBack(p)
      /\ ~ExecCommitFails(p)
  BY <1>1 DEF ShutdownTimeout, ExecReadFails, ExecRowFails, ExecRollsBack, ExecCommitFails, Fails
<1>3. CASE Executes(p)
  BY <1>3 DEF SoundSteps, Executes, ExecRead, ExecWrite, ExecBusy, ExecCommit, Answer
<1>4. CASE Main(p) \/ StartSession(p) \/ SpawnFails(p) \/ Raise(p) \/ Stop(p) \/ Die(p)
  BY <1>4 DEF SoundSteps, Main, MainWritten, MainCommitted, MainFailed, Spawn, EndSession, Close,
     StartSession, SpawnFails, Raise, Stop, Die
<1>5. CASE Lookup(p) \/ Forward(p) \/ Pump(p) \/ BudgetEnds(p) \/ Writer(p)
  BY <1>5 DEF SoundSteps, Lookup, Forward, Pump, BudgetEnds, Writer, LookedUp, NoLabel, Upsert,
     Upserted, UpsertEnds, Record, Overflows, PumpGoes, Take, Inserted, Flushed, Dropped, FlushAgain
<1> QED BY <1>2, <1>3, <1>4, <1>5 DEF Steps, Thread, Executes

-------------------------------------------------------------------------------
\* A proxy that is gone does nothing, unless it is yet to start.
LEMMA GoneRests ==
    ASSUME NEW p \in Proxies, PhaseOK(p), phase[p] \in Gone, Steps(p)
    PROVE  StartSession(p)
<1>1. ops[p] = <<>> /\ stage[p]["pump"] = "rest" /\ stage[p]["writer"] = "rest"
      /\ stage[p]["main"] = "rest" /\ phase[p] \in {"new", "closed", "dead"}
  BY DEF PhaseOK, Gone
<1>2. ~Thread(p)
  BY <1>1, ThreadAnswers
<1>3. ~Main(p) /\ ~SpawnFails(p) /\ ~Raise(p) /\ ~ShutdownTimeout(p)
  BY <1>1 DEF Main, MainWritten, MainCommitted, MainFailed, Spawn, EndSession, Close, SpawnFails,
     Raise, WriterIsDone, ShutdownTimeout
<1>4. ~Pump(p)
  BY <1>1 DEF Pump, LookedUp, NoLabel, Upsert, Upserted, UpsertEnds, Record, Overflows,
     PumpAt
<1>5. ~Writer(p)
  BY <1>1 DEF Writer, Take, Inserted, Flushed, Dropped, FlushAgain, WriterAt
<1>6. ~Stop(p) /\ ~Die(p) /\ ~Lookup(p) /\ ~Forward(p) /\ ~BudgetEnds(p)
  BY <1>1 DEF Stop, Die, Lookup, Forward, BudgetEnds, PumpAt, Gone
<1> QED BY <1>2, <1>3, <1>4, <1>5, <1>6 DEF Steps

\* What a step of q may do to another proxy: commit rows of its own, make its
\* snapshot stale, and end its being alone.
LEMMA OthersStay ==
    ASSUME TypeOK, NEW q \in Proxies, NEW p \in Proxies \ {q}, Steps(q)
    PROVE  /\ phase'[p] = phase[p] /\ stage'[p] = stage[p] /\ reply'[p] = reply[p]
           /\ ops'[p] = ops[p] /\ frames'[p] = frames[p]
           /\ queue'[p] = queue[p] /\ batch'[p] = batch[p] /\ lost'[p] = lost[p]
           /\ dropped'[p] = dropped[p] /\ faults'[p] = faults[p] /\ tx'[p] = tx[p]
           /\ table' = table \/ table' = table \cup tx[q]
           /\ lock' = p <=> lock = p
           /\ \/ snapshot'[p] = snapshot[p]
              \/ snapshot[p] = "fresh" /\ lock = q /\ ~StartSession(q)
           /\ alone'[p] = IF StartSession(q) THEN alone[p] /\ phase[p] \in Gone ELSE alone[p]
<1> USE FreeAssumption DEF TypeOK
<1>1. CASE StartSession(q)
  BY <1>1 DEF StartSession, Await
<1>2. CASE Main(q) \/ SpawnFails(q) \/ Raise(q)
  <2>1. CASE MainWritten(q) \/ Spawn(q) \/ EndSession(q)
    BY <2>1 DEF MainWritten, Spawn, EndSession, WriterIsDone, Await, StartSession
  <2>2. CASE MainCommitted(q)
    <3>1. phase'[p] = phase[p]
      BY <2>2 DEF MainCommitted
    <3> QED BY <2>2, <3>1 DEF MainCommitted, Moves, StartSession
  <2>3. CASE MainFailed(q)
    BY <2>3 DEF MainFailed, Moves, StartSession
  <2>4. CASE SpawnFails(q) \/ Raise(q)
    BY <2>4 DEF SpawnFails, Raise, WriterIsDone, StartSession
  <2>5. CASE Close(q)
    BY <2>5 DEF Close, RollBack, StartSession
  <2> QED BY <1>2, <2>1, <2>2, <2>3, <2>4, <2>5 DEF Main
<1>3. CASE Stop(q) \/ ShutdownTimeout(q) \/ Die(q) \/ BudgetEnds(q)
  <2>1. CASE Stop(q)
    BY <2>1 DEF Stop, Moves, StartSession
  <2>2. CASE Die(q)
    BY <2>2 DEF Die, RollBack, Gone, StartSession
  <2>3. CASE BudgetEnds(q)
    BY <2>3 DEF BudgetEnds, Moves, PumpAt, StartSession
  <2>4. CASE ShutdownTimeout(q)
    BY <2>4 DEF ShutdownTimeout, Fault, Moves, StartSession
  <2> QED BY <1>3, <2>1, <2>2, <2>3, <2>4
<1>4. CASE Thread(q) /\ ~StartSession(q)
  <2>1. CASE ExecRead(q) \/ ExecBusy(q)
    BY <1>4, <2>1 DEF ExecRead, ExecBusy, Answer, Answers
  <2>2. CASE ExecWrite(q)
    BY <1>4, <2>2 DEF ExecWrite, Answer, Answers
  <2>3. CASE ExecCommit(q)
    BY <1>4, <2>3 DEF ExecCommit, Answer, Answers
  <2>4. CASE ExecReadFails(q) \/ ExecCommitFails(q)
    BY <1>4, <2>4 DEF ExecReadFails, ExecCommitFails, Fails, Fault, Answers
  <2>5. CASE ExecRollsBack(q)
    BY <1>4, <2>5 DEF ExecRollsBack, RollBack, Fails, Fault, Answers
  <2>6. CASE ExecRowFails(q)
    <3>1. tx'[p] = tx[p] /\ (lock' = p <=> lock = p)
      BY <2>6 DEF ExecRowFails
    <3>2. Fails(q) /\ UNCHANGED <<snapshot, table>>
      BY <2>6 DEF ExecRowFails
    <3> QED BY <1>4, <3>1, <3>2 DEF Fails, Fault, Answers
  <2> QED BY <1>4, <2>1, <2>2, <2>3, <2>4, <2>5, <2>6 DEF Thread
<1>5. CASE Lookup(q) \/ Forward(q) \/ Pump(q)
  <2>1. CASE Lookup(q) \/ Upsert(q) \/ Upserted(q)
    BY <2>1 DEF Lookup, Upsert, Upserted, Await, PumpAt, StartSession
  <2>2. CASE Forward(q) \/ LookedUp(q) \/ NoLabel(q) \/ UpsertEnds(q)
    BY <2>2 DEF Forward, LookedUp, NoLabel, UpsertEnds, PumpGoes, Moves, PumpAt, StartSession
  <2>3. CASE Record(q) \/ Overflows(q)
    BY <2>3 DEF Record, Overflows, Moves, PumpAt, StartSession
  <2> QED BY <1>5, <2>1, <2>2, <2>3 DEF Pump
<1>6. CASE Writer(q)
  <2>1. CASE Take(q) \/ Inserted(q) \/ FlushAgain(q)
    BY <2>1 DEF Take, Inserted, FlushAgain, Await, WriterAt, StartSession
  <2>2. CASE Flushed(q) \/ Dropped(q)
    BY <2>2 DEF Flushed, Dropped, BatchEnds, Moves, WriterAt, StartSession
  <2> QED BY <1>6, <2>1, <2>2 DEF Writer
<1> QED BY <1>1, <1>2, <1>3, <1>4, <1>5, <1>6 DEF Steps

\* The invariant of a proxy survives the steps of the others.
LEMMA OthersKeep ==
    ASSUME IInv, NEW q \in Proxies, NEW p \in Proxies \ {q}, Steps(q)
    PROVE  /\ RequestsOK(p)' /\ PhaseOK(p)' /\ FreshOK(p)'
           /\ faults'[p] = 0 => SoundOK(p)'
<1>0. TypeOK /\ RequestsOK(p) /\ PhaseOK(p) /\ FreshOK(p) /\ FreshOK(q) /\ PhaseOK(q)
  BY DEF IInv
<1>1. /\ phase'[p] = phase[p] /\ stage'[p] = stage[p] /\ reply'[p] = reply[p]
      /\ ops'[p] = ops[p] /\ frames'[p] = frames[p]
      /\ queue'[p] = queue[p] /\ batch'[p] = batch[p] /\ lost'[p] = lost[p]
      /\ dropped'[p] = dropped[p] /\ faults'[p] = faults[p]
      /\ tx'[p] = tx[p] /\ (lock' = p <=> lock = p)
  BY <1>0, OthersStay
<1>2. table \subseteq table' /\ \A r \in table' \ table : r \in {q} \X Int
  <2>1. tx[q] \subseteq {q} \X Int
    BY <1>0 DEF FreshOK, Used
  <2>2. table' = table \/ table' = table \cup tx[q]
    BY <1>0, OthersStay
  <2> QED BY <2>1, <2>2
<1>3. snapshot'[p] = snapshot[p] \/ (snapshot[p] = "fresh" /\ lock = q /\ ~StartSession(q))
  BY <1>0, OthersStay
<1>4. \A s \in SUBSET ({p} \X Int) : s \cap table' = s \cap table
  BY <1>2
<1>5. RequestsOK(p)'
  BY <1>0, <1>1 DEF RequestsOK
<1>6. PhaseOK(p)'
  BY <1>0, <1>1, <1>3 DEF PhaseOK
<1>7. FreshOK(p)'
  <2>1. Used(p)' = Used(p) /\ Used(p) \subseteq {p} \X Int
    BY <1>0, <1>1, FramesAssumption DEF Used, Repeated, TypeOK
  <2>2. table' \cap ({p} \X Int) = table \cap ({p} \X Int)
    BY <1>2
  <2>3. tx[p] \subseteq {p} \X Int /\ queue[p] \subseteq {p} \X Int
    BY <1>0, <2>1 DEF FreshOK
  <2>4. \A i \in DOMAIN ops[p] : ops[p][i].rows \subseteq {p} \X Int
    BY <1>0, <2>1 DEF FreshOK, RequestsFresh
  <2>5. tx[p] \cap table' = {} /\ queue[p] \cap (tx[p] \cup table') = {}
    BY <1>0, <1>4, <2>3 DEF FreshOK
  <2>6. \A i \in DOMAIN ops[p] : ops[p][i].rows \cap (queue[p] \cup tx[p] \cup table') = {}
    BY <1>0, <1>4, <2>4 DEF FreshOK, RequestsFresh
  <2>7. RequestsFresh(p)'
    BY <1>0, <1>1, <2>1, <2>6 DEF FreshOK, RequestsFresh
  <2> QED BY <1>0, <1>1, <2>1, <2>2, <2>5, <2>7 DEF FreshOK
<1> SUFFICES ASSUME faults[p] = 0 PROVE SoundOK(p)'
  BY <1>1, <1>5, <1>6, <1>7
<1> SoundOK(p)
  BY DEF IInv
<1>8. RowsOK(p)'
  <2>1. batch[p] \cup lost[p] \cup dropped[p] \subseteq {p} \X Int
    BY <1>0 DEF SoundOK, RowsOK, TypeOK
  <2>2. (lost[p] \cup dropped[p]) \cap (table' \cup tx[p]) = {}
    BY <1>4, <2>1 DEF SoundOK, RowsOK
  <2> QED BY <1>1, <1>2, <2>2 DEF SoundOK, RowsOK
<1>9. BatchOK(p)'
  <2>1. batch[p] \subseteq {p} \X Int
    BY <1>0 DEF SoundOK, RowsOK, TypeOK
  <2> QED BY <1>1, <1>2, <1>4, <2>1 DEF SoundOK, BatchOK
<1>10. AloneOK(p)'
  <2>1. CASE StartSession(q)
    BY ZenonT(60), <1>1, <1>3, <1>0, <2>1, OthersStay DEF SoundOK, AloneOK
  <2>2. CASE ~StartSession(q)
    <3>1. phase[q] \notin Gone
      BY <1>0, <2>2, GoneRests
    <3>2. alone'[p] = alone[p]
      BY <1>0, <2>2, OthersStay
    <3>3. alone[p] => phase[p] \in Gone
      BY <3>1 DEF SoundOK, AloneOK, IsAlone
    <3>4. phase[p] \in Gone => snapshot[p] = "none"
      BY <1>0 DEF PhaseOK
    <3> QED BY <1>1, <1>3, <3>2, <3>3, <3>4 DEF SoundOK, AloneOK
  <2> QED BY <2>1, <2>2
<1>11. LockOK(p)'
  <2>1. lock = p => lock # q
    OBVIOUS
  <2> QED BY <1>1, <1>3, <2>1 DEF SoundOK, LockOK, Commits, Recording
<1>12. AbandonedOK(p)'
  <2>1. Recording(p)' <=> Recording(p)
    BY <1>1 DEF Recording
  <2>2. AbandonedOK(p)
    BY DEF SoundOK
  <2>3. ASSUME NEW i \in DOMAIN ops'[p], phase'[p] = "running", ops'[p][i].kind = "write",
               ops'[p][i].by = "nobody"
        PROVE  \/ Recording(p)'
               \/ \E j \in DOMAIN ops'[p] :
                    i < j /\ ops'[p][j].kind = "write" /\ ops'[p][j].by = "writer"
    <3>1. \/ Recording(p)
          \/ \E j \in DOMAIN ops[p] :
                i < j /\ ops[p][j].kind = "write" /\ ops[p][j].by = "writer"
      BY <1>1, <2>2, <2>3 DEF AbandonedOK
    <3> QED BY <1>1, <2>1, <3>1
  <2> QED BY <2>3 DEF AbandonedOK
<1> QED BY <1>8, <1>9, <1>10, <1>11, <1>12 DEF SoundOK

-------------------------------------------------------------------------------
(* The requests.                                                           *)

NoRequest(p, t) == \A i \in DOMAIN ops[p] : ops[p][i].by # t

\* A task that awaits nothing, or has its answer, has no request.
LEMMA NothingAwaited ==
    ASSUME TypeOK, NEW p \in Proxies, NEW t \in Tasks, RequestsOK(p),
           stage[p][t] \notin {"read", "write", "commit"} \/ reply[p][t] # "none"
    PROVE  NoRequest(p, t)
<1>1. \A i \in DOMAIN ops[p] : ops[p][i] \in Requests
  BY DEF TypeOK
<1> QED BY <1>1 DEF NoRequest, RequestsOK, Requests

\* A task without a request may make one.
LEMMA AwaitKeeps ==
    ASSUME TypeOK, NEW p \in Proxies, NEW t \in Tasks, RequestsOK(p), NoRequest(p, t),
           NEW kind \in {"read", "write", "commit"}, NEW rows, Await(p, t, kind, kind, rows),
           faults'[p] = 0 =>
                faults[p] = 0 /\ rows = IF t = "writer" /\ kind = "write" THEN batch'[p] ELSE {},
           batch'[p] = batch[p] \/ t = "writer"
    PROVE  RequestsOK(p)'
<1>1. /\ ops'[p] = Append(ops[p], Request(kind, rows, t))
      /\ \A u \in Tasks : stage'[p][u] = IF u = t THEN kind ELSE stage[p][u]
      /\ \A u \in Tasks : reply'[p][u] = IF u = t THEN "none" ELSE reply[p][u]
  BY DEF Await, TypeOK
<1>2. /\ ops[p] \in Seq(Requests) /\ Len(ops[p]) \in Nat
      /\ DOMAIN ops[p] = 1..Len(ops[p])
  BY DEF TypeOK
<1>3. /\ DOMAIN ops'[p] = 1..(Len(ops[p]) + 1)
      /\ \A i \in 1..Len(ops[p]) : ops'[p][i] = ops[p][i]
      /\ ops'[p][Len(ops[p]) + 1] = Request(kind, rows, t)
  BY <1>1, <1>2
<1>4. /\ Request(kind, rows, t).kind = kind /\ Request(kind, rows, t).by = t
      /\ Request(kind, rows, t).rows = rows
  BY DEF Request
<1>5. \A i \in 1..Len(ops[p]) : ops[p][i].by # t
  BY <1>2 DEF NoRequest
<1>6. ASSUME NEW i \in DOMAIN ops'[p]
      PROVE  LET o == ops'[p][i]
             IN  /\ o.by \in Tasks => o.kind = stage'[p][o.by] /\ reply'[p][o.by] = "none"
                 /\ faults'[p] = 0 =>
                        o.rows = IF o.by = "writer" /\ o.kind = "write" THEN batch'[p] ELSE {}
  <2>1. CASE i \in 1..Len(ops[p])
    <3>1. i \in DOMAIN ops[p] /\ ops'[p][i] = ops[p][i] /\ ops[p][i].by # t
      BY <1>2, <1>3, <1>5, <2>1
    <3> QED BY <1>1, <1>2, <3>1 DEF RequestsOK
  <2>2. CASE i = Len(ops[p]) + 1
    BY <1>1, <1>2, <1>3, <1>4, <2>2
  <2> QED BY <1>2, <1>3, <2>1, <2>2
<1>7. ASSUME NEW i \in DOMAIN ops'[p], NEW j \in DOMAIN ops'[p],
             ops'[p][i].by = ops'[p][j].by, i # j
      PROVE  ops'[p][i].by = "nobody"
  <2>1. CASE i \in DOMAIN ops[p] /\ j \in DOMAIN ops[p]
    BY <1>2, <1>3, <1>7, <2>1 DEF RequestsOK
  <2>2. CASE i = Len(ops[p]) + 1 \/ j = Len(ops[p]) + 1
    BY <1>2, <1>3, <1>4, <1>5, <1>7, <2>2
  <2> QED BY <1>2, <1>3, <2>1, <2>2
<1> QED BY <1>6, <1>7 DEF RequestsOK

\* A task without a request may go on to another stage.
LEMMA MovesKeeps ==
    ASSUME TypeOK, NEW p \in Proxies, NEW t \in Tasks, RequestsOK(p), NoRequest(p, t),
           NEW to, Moves(p, t, to), ops' = ops, batch'[p] = batch[p] \/ t = "writer",
           faults' = faults
    PROVE  RequestsOK(p)'
<1>1. /\ \A u \in Tasks : stage'[p][u] = IF u = t THEN to ELSE stage[p][u]
      /\ \A u \in Tasks : reply'[p][u] = IF u = t THEN "none" ELSE reply[p][u]
  BY DEF Moves, TypeOK
<1> QED BY <1>1 DEF RequestsOK, NoRequest

\* A task that is cancelled leaves its request to nobody.
LEMMA OrphanedKeeps ==
    ASSUME TypeOK, NEW p \in Proxies, RequestsOK(p), NEW t \in {"pump", "writer"},
           NEW to, Moves(p, t, to), ops' = [ops EXCEPT ![p] = Orphaned(p, t)], batch' = batch,
           faults'[p] = 0 => faults[p] = 0 /\ t = "pump"
    PROVE  RequestsOK(p)'
<1>1. /\ \A u \in Tasks : stage'[p][u] = IF u = t THEN to ELSE stage[p][u]
      /\ \A u \in Tasks : reply'[p][u] = IF u = t THEN "none" ELSE reply[p][u]
      /\ ops'[p] = Orphaned(p, t)
  BY DEF Moves, TypeOK
<1>2. DOMAIN ops'[p] = DOMAIN ops[p] /\ \A i \in DOMAIN ops[p] : ops[p][i] \in Requests
  BY <1>1, OrphanedType DEF TypeOK
<1>3. \A i \in DOMAIN ops[p] :
        /\ ops'[p][i].kind = ops[p][i].kind /\ ops'[p][i].rows = ops[p][i].rows
        /\ ops'[p][i].by = IF ops[p][i].by = t THEN "nobody" ELSE ops[p][i].by
  <2>1. ASSUME NEW i \in DOMAIN ops[p]
        PROVE  ops'[p][i] = IF ops[p][i].by = t THEN [ops[p][i] EXCEPT !.by = "nobody"]
                            ELSE ops[p][i]
    <3>1. t \in Tasks
      OBVIOUS
    <3> HIDE DEF Tasks
    <3>2. Orphaned(p, t)[i] =
            IF ops[p][i].by = t THEN [ops[p][i] EXCEPT !.by = "nobody"] ELSE ops[p][i]
      BY <3>1, OrphanedType
    <3> QED BY <1>1, <3>2
  <2>2. ASSUME NEW o \in Requests
        PROVE  /\ [o EXCEPT !.by = "nobody"].kind = o.kind
               /\ [o EXCEPT !.by = "nobody"].rows = o.rows
               /\ [o EXCEPT !.by = "nobody"].by = "nobody"
    BY DEF Requests
  <2>3. ASSUME NEW i \in DOMAIN ops[p]
        PROVE  /\ ops'[p][i].kind = ops[p][i].kind /\ ops'[p][i].rows = ops[p][i].rows
               /\ ops'[p][i].by = IF ops[p][i].by = t THEN "nobody" ELSE ops[p][i].by
    <3>1. CASE ops[p][i].by = t
      <4>1. ops'[p][i] = [ops[p][i] EXCEPT !.by = "nobody"]
        BY <2>1, <3>1, Zenon
      <4>2. ops[p][i] \in Requests
        BY <1>2
      <4> QED BY <2>2, <3>1, <4>1, <4>2, Zenon
    <3>2. CASE ops[p][i].by # t
      <4>1. ops'[p][i] = ops[p][i]
        BY <2>1, <3>2, Zenon
      <4> QED BY <3>2, <4>1
    <3> QED BY <3>1, <3>2
  <2> QED BY <2>3
<1> QED BY <1>1, <1>2, <1>3 DEF RequestsOK

\* The connection answers its first request.
LEMMA AnswerKeeps ==
    ASSUME TypeOK, NEW p \in Proxies, RequestsOK(p), ops[p] # <<>>, NEW result, Answers(p, result),
           faults'[p] = 0 => faults[p] = 0
    PROVE  RequestsOK(p)'
<1>1. /\ ops[p] \in Seq(Requests) /\ Len(ops[p]) \in Nat \ {0}
      /\ DOMAIN ops[p] = 1..Len(ops[p])
      /\ ops'[p] = Tail(ops[p]) /\ stage' = stage /\ batch' = batch
      /\ Head(ops[p]) = ops[p][1]
  BY DEF TypeOK, Answers
<1>2. DOMAIN ops'[p] = 1..(Len(ops[p]) - 1)
      /\ \A i \in 1..(Len(ops[p]) - 1) : ops'[p][i] = ops[p][i + 1]
  BY <1>1
<1>3. \A t \in Tasks : reply'[p][t] = IF t = ops[p][1].by THEN result ELSE reply[p][t]
  BY <1>1 DEF Answers, TypeOK
<1>4. \A i \in DOMAIN ops'[p] : i + 1 \in DOMAIN ops[p] /\ 1 \in DOMAIN ops[p] /\ i + 1 # 1
  BY <1>1, <1>2
<1> QED BY SMTT(30), <1>1, <1>2, <1>3, <1>4 DEF RequestsOK

LEMMA RequestsStep == ASSUME IInv, NEW p \in Proxies, Steps(p) PROVE RequestsOK(p)'
<1>0. TypeOK /\ RequestsOK(p) /\ PhaseOK(p) /\ "main" \in Tasks /\ "pump" \in Tasks
      /\ "writer" \in Tasks
  BY DEF IInv
<1>1. CASE StartSession(p)
  <2>1. NoRequest(p, "main")
    BY <1>0, <1>1 DEF StartSession, PhaseOK, Gone, NoRequest
  <2> HIDE DEF Tasks
  <2> QED BY <1>0, <1>1, <2>1, AwaitKeeps DEF StartSession
<1>2. CASE MainWritten(p) \/ EndSession(p) \/ Spawn(p)
  <2>1. NoRequest(p, "main")
    <3>1. stage[p]["main"] = "rest" \/ reply[p]["main"] # "none"
      BY <1>0, <1>2 DEF MainWritten, EndSession, WriterIsDone, Spawn, PhaseOK
    <3> HIDE DEF Tasks
    <3> QED BY <1>0, <3>1, NothingAwaited
  <2> HIDE DEF Tasks
  <2> QED BY <1>0, <1>2, <2>1, AwaitKeeps DEF MainWritten, EndSession, Spawn
<1>3. CASE MainCommitted(p) \/ MainFailed(p)
  <2> HIDE DEF Tasks
  <2> QED BY <1>0, <1>3, NothingAwaited, MovesKeeps DEF MainCommitted, MainFailed
<1>4. CASE Stop(p) \/ BudgetEnds(p) \/ ShutdownTimeout(p)
  <2>1. CASE ShutdownTimeout(p)
    <3>1. faults'[p] # 0
      BY <1>0, <2>1 DEF ShutdownTimeout, Fault, TypeOK
    <3> QED BY <1>0, <2>1, <3>1, OrphanedKeeps DEF ShutdownTimeout
  <2> QED BY <1>0, <1>4, <2>1, OrphanedKeeps DEF Stop, BudgetEnds
<1>5. CASE Close(p) \/ Die(p) \/ SpawnFails(p) \/ Raise(p)
  BY <1>0, <1>5 DEF Close, Die, SpawnFails, Raise, RequestsOK, TypeOK
<1>6. CASE Thread(p)
  <2>1. ops[p] # <<>> /\ \E result \in {"ok", "err"} : Answers(p, result)
    BY <1>6, ThreadAnswers
  <2>2. faults'[p] = 0 => faults[p] = 0
    <3>1. faults' = faults \/ Fault(p)
      BY <1>6 DEF Thread, ExecRead, ExecWrite, ExecBusy, ExecCommit, ExecReadFails, ExecRowFails,
         ExecRollsBack, ExecCommitFails, Answer, Fails
    <3> QED BY <1>0, <3>1 DEF Fault, TypeOK
  <2> QED BY <1>0, <2>1, <2>2, AnswerKeeps
<1>7. CASE Lookup(p) \/ Upsert(p) \/ Upserted(p)
  <2> HIDE DEF Tasks
  <2>1. NoRequest(p, "pump")
    BY <1>0, <1>7, NothingAwaited DEF Lookup, Upsert, Upserted, PumpAt
  <2> QED BY <1>0, <1>7, <2>1, AwaitKeeps DEF Lookup, Upsert, Upserted
<1>8. CASE Forward(p) \/ LookedUp(p) \/ NoLabel(p) \/ UpsertEnds(p) \/ Record(p) \/ Overflows(p)
  <2> HIDE DEF Tasks
  <2>1. NoRequest(p, "pump")
    BY <1>0, <1>8, NothingAwaited DEF Forward, LookedUp, NoLabel, UpsertEnds, Record, Overflows, PumpAt
  <2>2. ops' = ops /\ batch' = batch /\ faults' = faults /\ \E to : Moves(p, "pump", to)
    BY <1>8 DEF Forward, LookedUp, NoLabel, UpsertEnds, Record, Overflows, PumpGoes
  <2> QED BY <1>0, <2>1, <2>2, MovesKeeps
<1>9. CASE Take(p) \/ Inserted(p)
  <2>1. batch'[p] = IF Take(p) THEN queue[p] ELSE batch[p]
    BY <1>0, <1>9 DEF Take, Inserted, TypeOK, WriterAt
  <2> HIDE DEF Tasks
  <2>2. NoRequest(p, "writer")
    BY <1>0, <1>9, NothingAwaited DEF Take, Inserted, WriterAt
  <2> QED BY <1>0, <1>9, <2>1, <2>2, AwaitKeeps DEF Take, Inserted
<1>10. CASE Flushed(p) \/ Dropped(p)
  <2> HIDE DEF Tasks
  <2>1. NoRequest(p, "writer")
    BY <1>0, <1>10, NothingAwaited DEF Flushed, Dropped, WriterAt
  <2> QED BY <1>0, <1>10, <2>1, MovesKeeps DEF Flushed, Dropped, BatchEnds
<1>11. CASE FlushAgain(p)
  <2> HIDE DEF Tasks
  <2>1. NoRequest(p, "writer")
    BY <1>0, <1>11, NothingAwaited DEF FlushAgain, WriterAt
  <2>2. faults'[p] # 0
    BY <1>0, <1>11 DEF FlushAgain, WriterAt, PhaseOK
  <2> QED BY <1>0, <1>11, <2>1, <2>2, AwaitKeeps DEF FlushAgain
<1> QED BY <1>1, <1>2, <1>3, <1>4, <1>5, <1>6, <1>7, <1>8, <1>9, <1>10, <1>11
        DEF Steps, Main, Pump, Writer

-------------------------------------------------------------------------------
(* The other parts of the invariant.                                       *)

LEMMA PhaseStep == ASSUME IInv, NEW p \in Proxies, Steps(p) PROVE PhaseOK(p)'
<1> USE FreeAssumption DEF TypeOK, PhaseOK, Gone
<1>0. TypeOK /\ PhaseOK(p) /\ RequestsOK(p)
  BY DEF IInv
<1>1. CASE StartSession(p)
  BY <1>0, <1>1 DEF StartSession, Await
<1>2. CASE MainWritten(p)
  BY <1>0, <1>2 DEF MainWritten, Await
<1>3. CASE EndSession(p)
  BY <1>0, <1>3 DEF EndSession, WriterIsDone, Await
<1>4. CASE MainCommitted(p) \/ MainFailed(p)
  <2>1. /\ phase'[p] \in {"spawning", "running", "closing"}
        /\ phase[p] \notin {"running", "draining", "cancelling"}
    BY <1>0, <1>4 DEF MainCommitted, MainFailed
  <2> QED BY <1>0, <1>4, <2>1 DEF MainCommitted, MainFailed, Moves
<1>5. CASE Spawn(p) \/ SpawnFails(p)
  BY <1>0, <1>5 DEF Spawn, SpawnFails, Await
<1>6. CASE Raise(p)
  BY <1>0, <1>6 DEF Raise, WriterIsDone
<1>7. CASE Stop(p) \/ BudgetEnds(p)
  BY <1>0, <1>7 DEF Stop, BudgetEnds, Moves, PumpAt
<1>8. CASE ShutdownTimeout(p)
  BY <1>0, <1>8 DEF ShutdownTimeout, Fault, Moves
<1>9. CASE Close(p)
  BY <1>0, <1>9 DEF Close, RollBack
<1>10. CASE Die(p)
  BY <1>0, <1>10 DEF Die, RollBack
<1>11. CASE Thread(p)
  <2>1. phase[p] \notin Gone
    BY <1>0, <1>11, ThreadAnswers
  <2>2. UNCHANGED process
    BY <1>11, ThreadAnswers DEF Answers
  <2>3. faults'[p] = faults[p] \/ faults'[p] # 0
    <3>1. faults' = faults \/ Fault(p)
      BY <1>11 DEF Thread, ExecRead, ExecWrite, ExecBusy, ExecCommit, ExecReadFails, ExecRowFails,
         ExecRollsBack, ExecCommitFails, Answer, Fails
    <3> QED BY <1>0, <3>1 DEF Fault
  <2> QED BY <1>0, <2>1, <2>2, <2>3
<1>12. CASE Lookup(p) \/ Upsert(p) \/ Upserted(p)
  BY <1>0, <1>12 DEF Lookup, Upsert, Upserted, Await, PumpAt
<1>13. CASE Forward(p) \/ LookedUp(p) \/ NoLabel(p) \/ UpsertEnds(p)
  BY <1>0, <1>13 DEF Forward, LookedUp, NoLabel, UpsertEnds, PumpGoes, Moves, PumpAt
<1>14. CASE Record(p) \/ Overflows(p)
  BY <1>0, <1>14 DEF Record, Overflows, Moves, PumpAt
<1>15. CASE Take(p) \/ Inserted(p)
  BY <1>0, <1>15 DEF Take, Inserted, Await, WriterAt
<1>16. CASE Flushed(p) \/ Dropped(p)
  BY <1>0, <1>16 DEF Flushed, Dropped, BatchEnds, Moves, WriterAt
<1>17. CASE FlushAgain(p)
  BY <1>0, <1>17 DEF FlushAgain, Await, WriterAt
<1> QED BY <1>1, <1>2, <1>3, <1>4, <1>5, <1>6, <1>7, <1>8, <1>9, <1>10, <1>11, <1>12, <1>13,
           <1>14, <1>15, <1>16, <1>17
        DEF Steps, Main, Pump, Writer

\* The request that is executed, and whose rows it may carry.
LEMMA FirstRequest ==
    ASSUME TypeOK, NEW p \in Proxies, RequestsOK(p), ops[p] # <<>>
    PROVE  /\ Head(ops[p]) = ops[p][1] /\ 1 \in DOMAIN ops[p]
           /\ Head(ops[p]) \in Requests
           /\ Head(ops[p]).by \in Tasks =>
                stage[p][Head(ops[p]).by] = Head(ops[p]).kind /\ reply[p][Head(ops[p]).by] = "none"
           /\ faults[p] = 0 /\ Head(ops[p]).kind = "write" =>
                Head(ops[p]).rows = IF Head(ops[p]).by = "writer" THEN batch[p] ELSE {}
<1>1. ops[p] \in Seq(Requests) /\ 1 \in DOMAIN ops[p] /\ Head(ops[p]) = ops[p][1]
      /\ ops[p][1] \in Requests
  BY DEF TypeOK
<1> QED BY <1>1 DEF RequestsOK

-------------------------------------------------------------------------------
(* The rows that are yet to be written.                                    *)

\* What a request may do to the file: nothing, a write, or the end of the
\* transaction.
LEMMA ThreadFile ==
    ASSUME TypeOK, NEW p \in Proxies, Thread(p)
    PROVE  \/ UNCHANGED <<tx, lock, table>>
           \/ /\ lock \in {Free, p} /\ lock' = p /\ table' = table
              /\ \E rows \in SUBSET Head(ops[p]).rows : tx' = [tx EXCEPT ![p] = tx[p] \cup rows]
           \/ /\ tx' = [tx EXCEPT ![p] = {}]
              /\ lock' = IF lock = p THEN Free ELSE lock
              /\ table' \in {table, table \cup tx[p]}
<1>1. CASE ExecRead(p) \/ ExecBusy(p) \/ ExecReadFails(p) \/ ExecCommitFails(p)
  BY <1>1 DEF ExecRead, ExecBusy, ExecReadFails, ExecCommitFails
<1>2. CASE ExecWrite(p)
  BY <1>2 DEF ExecWrite
<1>3. CASE ExecCommit(p)
  BY <1>3 DEF ExecCommit
<1>4. CASE ExecRollsBack(p)
  BY <1>4 DEF ExecRollsBack, RollBack
<1>5. CASE ExecRowFails(p)
  <2>1. PICK part \in SUBSET Head(ops[p]).rows :
            /\ tx' = [tx EXCEPT ![p] = tx[p] \cup part]
            /\ lock' = p \/ (part = {} /\ lock' = lock)
    BY <1>5 DEF ExecRowFails
  <2>2. lock \in {Free, p} /\ table' = table
    BY <1>5 DEF ExecRowFails
  <2>3. part = {} => tx' = tx
    BY <2>1 DEF TypeOK
  <2> QED BY <2>1, <2>2, <2>3
<1> QED BY <1>1, <1>2, <1>3, <1>4, <1>5 DEF Thread

\* The rows that there may be only grow.
LEMMA UsedGrows ==
    ASSUME TypeOK, NEW p \in Proxies, PhaseOK(p), Steps(p)
    PROVE  /\ frames'[p] \in {frames[p], frames[p] + 1}
           /\ Used(p) \subseteq Used(p)'
<1> USE DEF TypeOK
<1>1. frames'[p] \in {frames[p], frames[p] + 1}
  BY DEF Steps, StartSession, Main, MainWritten, MainCommitted, MainFailed, Spawn, EndSession,
     Close, SpawnFails, Raise, Stop, ShutdownTimeout, Die, Thread, ExecRead, ExecWrite, ExecBusy,
     ExecCommit, ExecReadFails, ExecRowFails, ExecRollsBack, ExecCommitFails, Answer, Fails,
     Answers, Lookup, Forward, PumpGoes, Pump, LookedUp, NoLabel, Upsert, Upserted, UpsertEnds,
     Record, Overflows, BudgetEnds, Writer, Take, Inserted, Flushed, Dropped, FlushAgain
<1>2. Repeated(p) => Repeated(p)'
  <2> USE DEF Repeated
  <2>1. CASE StartSession(p) \/ Spawn(p) \/ SpawnFails(p) \/ Stop(p) \/ ShutdownTimeout(p)
    BY <2>1 DEF StartSession, Spawn, SpawnFails, Stop, ShutdownTimeout
  <2>2. CASE MainWritten(p) \/ EndSession(p)
    BY <2>2 DEF MainWritten, EndSession, Await
  <2>3. CASE MainCommitted(p) \/ MainFailed(p)
    BY <2>3 DEF MainCommitted, MainFailed, Moves
  <2>4. CASE Close(p) \/ Die(p) \/ Raise(p)
    BY <2>4 DEF Close, Die, Raise
  <2>5. CASE Thread(p)
    BY <2>5, ThreadAnswers DEF Answers
  <2>6. CASE Lookup(p) \/ Forward(p) \/ Pump(p) \/ BudgetEnds(p)
    BY <2>6 DEF Lookup, Forward, Pump, LookedUp, NoLabel, Upsert, Upserted, UpsertEnds, Record,
       Overflows, BudgetEnds, PumpAt
  <2>7. CASE Writer(p)
    BY <2>7 DEF Writer, Take, Inserted, Flushed, Dropped, FlushAgain, BatchEnds, Await, Moves
  <2> QED BY <2>1, <2>2, <2>3, <2>4, <2>5, <2>6, <2>7 DEF Steps, Main
<1>3. 1..frames[p] \subseteq 1..frames'[p]
  BY <1>1
<1> QED BY <1>1, <1>2, <1>3 DEF Used

\* Requests whose rows stay what they are.
LEMMA FreshSame ==
    ASSUME NEW p \in Proxies, RequestsFresh(p), Used(p) \subseteq Used(p)',
           DOMAIN ops'[p] = DOMAIN ops[p],
           \A i \in DOMAIN ops[p] :
                /\ ops'[p][i].rows = ops[p][i].rows
                /\ ops[p][i].rows \cap (queue'[p] \cup tx'[p] \cup table') = {}
    PROVE  RequestsFresh(p)'
BY DEF RequestsFresh

\* A request that is added has rows of its own.
LEMMA FreshAppend ==
    ASSUME TypeOK, NEW p \in Proxies, RequestsFresh(p), Used(p) \subseteq Used(p)',
           NEW kind, NEW rows, NEW t, ops'[p] = Append(ops[p], Request(kind, rows, t)),
           rows \subseteq Used(p)', rows \cap (queue'[p] \cup tx'[p] \cup table') = {},
           \A i \in DOMAIN ops[p] :
                /\ ops[p][i].rows \cap rows = {}
                /\ ops[p][i].rows \cap (queue'[p] \cup tx'[p] \cup table') = {}
    PROVE  RequestsFresh(p)'
<1>1. ops[p] \in Seq(Requests) /\ Len(ops[p]) \in Nat /\ DOMAIN ops[p] = 1..Len(ops[p])
  BY DEF TypeOK
<1>2. /\ DOMAIN ops'[p] = 1..(Len(ops[p]) + 1)
      /\ \A i \in 1..Len(ops[p]) : ops'[p][i] = ops[p][i]
      /\ ops'[p][Len(ops[p]) + 1] = Request(kind, rows, t)
  BY <1>1
<1>3. Request(kind, rows, t).rows = rows
  BY DEF Request
<1>4. \A i \in DOMAIN ops'[p] : i \in DOMAIN ops[p] \/ i = Len(ops[p]) + 1
  BY <1>1, <1>2
<1>5. ASSUME NEW i \in DOMAIN ops'[p]
      PROVE  /\ ops'[p][i].rows \subseteq Used(p)'
             /\ ops'[p][i].rows \cap (queue'[p] \cup tx'[p] \cup table') = {}
  BY <1>1, <1>2, <1>3, <1>4 DEF RequestsFresh
<1>6. ASSUME NEW i \in DOMAIN ops'[p], NEW j \in DOMAIN ops'[p], i # j
      PROVE  ops'[p][i].rows \cap ops'[p][j].rows = {}
  <2>1. CASE i \in DOMAIN ops[p] /\ j \in DOMAIN ops[p]
    BY <1>1, <1>2, <1>6, <2>1 DEF RequestsFresh
  <2>2. CASE i \in DOMAIN ops[p] /\ j = Len(ops[p]) + 1
    BY <1>1, <1>2, <1>3, <2>2
  <2>3. CASE i = Len(ops[p]) + 1 /\ j \in DOMAIN ops[p]
    BY <1>1, <1>2, <1>3, <2>3
  <2> QED BY <1>4, <1>6, <2>1, <2>2, <2>3
<1> QED BY <1>5, <1>6 DEF RequestsFresh

LEMMA FreshStep == ASSUME IInv, NEW p \in Proxies, Steps(p) PROVE FreshOK(p)'
<1>0. /\ TypeOK /\ PhaseOK(p) /\ FreshOK(p) /\ RequestsFresh(p) /\ MaxFrames[p] \in Nat
      /\ frames[p] \in Nat
  BY FramesAssumption DEF IInv, FreshOK, TypeOK
<1>u. frames'[p] \in {frames[p], frames[p] + 1} /\ Used(p) \subseteq Used(p)'
  BY <1>0, UsedGrows
<1>e. \A i \in DOMAIN ops[p] : ops[p][i].rows \cap (queue[p] \cup tx[p] \cup table) = {}
  BY <1>0 DEF RequestsFresh
\* A step that leaves the file and the frames alone.
<1>1. ASSUME UNCHANGED <<tx, lock, table>>, frames' = frames,
             stage'[p]["pump"] # "rest" => stage[p]["pump"] # "rest" \/ frames[p] < MaxFrames[p],
             queue'[p] \subseteq queue[p], batch'[p] \subseteq batch[p] \cup queue[p],
             RequestsFresh(p)'
      PROVE  FreshOK(p)'
  BY <1>0, <1>u, <1>1 DEF FreshOK
<1>2. ASSUME UNCHANGED <<tx, table, queue>>, NEW kind, NEW t,
             ops'[p] = Append(ops[p], Request(kind, {}, t))
      PROVE  RequestsFresh(p)'
  BY <1>0, <1>u, <1>e, <1>2, FreshAppend
<1>3. ASSUME UNCHANGED <<tx, table, ops>>, queue'[p] \subseteq queue[p]
      PROVE  RequestsFresh(p)'
  BY <1>0, <1>u, <1>e, <1>3, FreshSame
<1>4. ASSUME UNCHANGED <<tx, table>>, queue'[p] \subseteq queue[p], NEW t \in Tasks,
             ops' = [ops EXCEPT ![p] = Orphaned(p, t)]
      PROVE  RequestsFresh(p)'
  <2>1. ops'[p] = Orphaned(p, t) /\ \A i \in DOMAIN ops[p] : ops[p][i] \in Requests
    BY <1>0, <1>4 DEF TypeOK
  <2>2. DOMAIN ops'[p] = DOMAIN ops[p]
    BY <1>0, <2>1, OrphanedType
  <2>3. ASSUME NEW i \in DOMAIN ops[p] PROVE ops'[p][i].rows = ops[p][i].rows
    <3>1. ops'[p][i] = IF ops[p][i].by = t THEN [ops[p][i] EXCEPT !.by = "nobody"] ELSE ops[p][i]
      <4> HIDE DEF Tasks
      <4> QED BY <1>0, <1>4, <2>1, OrphanedType
    <3>2. [ops[p][i] EXCEPT !.by = "nobody"].rows = ops[p][i].rows
      BY <2>1 DEF Requests
    <3> QED BY <3>1, <3>2
  <2> QED BY <1>0, <1>u, <1>e, <1>4, <2>2, <2>3, FreshSame
<1>5. CASE StartSession(p) \/ MainWritten(p) \/ Spawn(p) \/ EndSession(p)
  <2>1. /\ UNCHANGED <<tx, lock, table, frames, queue, batch>>
        /\ stage'[p]["pump"] = stage[p]["pump"]
        /\ \/ ops'[p] = Append(ops[p], Request("write", {}, "main"))
           \/ ops'[p] = Append(ops[p], Request("commit", {}, "main"))
    BY <1>0, <1>5 DEF StartSession, MainWritten, Spawn, EndSession, Await, TypeOK
  <2> QED BY <1>1, <1>2, <2>1
<1>6. CASE MainCommitted(p) \/ MainFailed(p) \/ SpawnFails(p) \/ Raise(p)
  <2>1. /\ UNCHANGED <<tx, lock, table, frames, queue, batch, ops>>
        /\ stage'[p]["pump"] = stage[p]["pump"]
    BY <1>0, <1>6 DEF MainCommitted, MainFailed, SpawnFails, Raise, Moves, TypeOK
  <2> QED BY <1>1, <1>3, <2>1
<1>7. CASE Stop(p) \/ BudgetEnds(p) \/ ShutdownTimeout(p)
  <2>1. CASE Stop(p)
    BY <1>0, <1>1, <1>4, <2>1 DEF Stop, Moves, TypeOK
  <2>2. CASE BudgetEnds(p)
    BY <1>0, <1>1, <1>4, <2>2 DEF BudgetEnds, PumpAt, Moves, TypeOK
  <2>3. CASE ShutdownTimeout(p)
    <3>1. queue'[p] \subseteq queue[p] /\ stage'[p]["pump"] = stage[p]["pump"]
      BY <1>0, <2>3 DEF ShutdownTimeout, Moves, TypeOK
    <3> QED BY <1>1, <1>4, <2>3, <3>1 DEF ShutdownTimeout
  <2> QED BY <1>7, <2>1, <2>2, <2>3
<1>8. CASE Close(p)
  <2>1. tx'[p] = {} /\ UNCHANGED <<stage, queue, batch, frames, ops, table>>
    BY <1>0, <1>8 DEF Close, RollBack, TypeOK
  <2>2. RequestsFresh(p)'
    BY <1>0, <1>u, <1>e, <2>1, FreshSame
  <2> QED BY <1>0, <1>u, <2>1, <2>2 DEF FreshOK
<1>9. CASE Die(p)
  <2>1. /\ tx'[p] = {} /\ UNCHANGED <<frames, table>>
        /\ queue'[p] = {} /\ batch'[p] = {} /\ ops'[p] = <<>> /\ stage'[p]["pump"] = "rest"
    BY <1>0, <1>9 DEF Die, RollBack, TypeOK
  <2>2. RequestsFresh(p)'
    BY <2>1 DEF RequestsFresh
  <2> QED BY <1>0, <1>u, <2>1, <2>2 DEF FreshOK
<1>10. CASE Thread(p)
  <2>1. /\ ops[p] # <<>> /\ ops'[p] = Tail(ops[p]) /\ UNCHANGED <<process>>
        /\ ops[p] \in Seq(Requests) /\ Head(ops[p]) = ops[p][1]
    BY <1>0, <1>10, ThreadAnswers DEF Answers, TypeOK
  <2>2. /\ DOMAIN ops[p] = 1..Len(ops[p]) /\ Len(ops[p]) \in Nat \ {0}
        /\ DOMAIN ops'[p] = 1..(Len(ops[p]) - 1)
        /\ \A i \in 1..(Len(ops[p]) - 1) : ops'[p][i] = ops[p][i + 1]
    BY <2>1
  <2>3. Used(p)' = Used(p)
    BY <2>1 DEF Used, Repeated
  <2>4. \A i \in DOMAIN ops'[p] : i + 1 \in DOMAIN ops[p] /\ 1 \in DOMAIN ops[p] /\ i + 1 # 1
    BY <2>2
  <2>5. \A i, j \in DOMAIN ops'[p] : i # j => i + 1 # j + 1
    BY <2>2
  <2>6. /\ Head(ops[p]).rows \subseteq Used(p)
        /\ Head(ops[p]).rows \cap (queue[p] \cup table) = {}
        /\ \A i \in DOMAIN ops'[p] : ops'[p][i].rows \cap Head(ops[p]).rows = {}
    BY <1>0, <2>1, <2>2, <2>4 DEF RequestsFresh
  <2>7. ASSUME tx'[p] \cup table' \subseteq tx[p] \cup table \cup Head(ops[p]).rows
        PROVE  RequestsFresh(p)'
    <3>1. ASSUME NEW i \in DOMAIN ops'[p]
          PROVE  /\ ops'[p][i].rows \subseteq Used(p)'
                 /\ ops'[p][i].rows \cap (queue'[p] \cup tx'[p] \cup table') = {}
      <4>1. /\ ops'[p][i].rows \subseteq Used(p)
            /\ ops'[p][i].rows \cap (queue[p] \cup tx[p] \cup table) = {}
        BY <1>0, <2>2, <2>4 DEF RequestsFresh
      <4> QED BY <2>1, <2>3, <2>6, <2>7, <4>1
    <3>2. ASSUME NEW i \in DOMAIN ops'[p], NEW j \in DOMAIN ops'[p], i # j
          PROVE  ops'[p][i].rows \cap ops'[p][j].rows = {}
      BY <1>0, <2>2, <2>4, <2>5, <3>2 DEF RequestsFresh
    <3> QED BY <3>1, <3>2 DEF RequestsFresh
  <2>8. CASE UNCHANGED <<tx, lock, table>>
    BY <1>0, <2>1, <2>3, <2>7, <2>8 DEF FreshOK
  <2>9. CASE /\ lock \in {Free, p} /\ lock' = p /\ table' = table
             /\ \E rows \in SUBSET Head(ops[p]).rows : tx' = [tx EXCEPT ![p] = tx[p] \cup rows]
    <3>1. PICK rows \in SUBSET Head(ops[p]).rows : tx'[p] = tx[p] \cup rows
      BY <1>0, <2>9 DEF TypeOK
    <3>2. RequestsFresh(p)'
      BY <2>7, <2>9, <3>1
    <3> QED BY <1>0, <2>1, <2>3, <2>6, <2>9, <3>1, <3>2 DEF FreshOK
  <2>10. CASE /\ tx' = [tx EXCEPT ![p] = {}]
              /\ lock' = IF lock = p THEN Free ELSE lock
              /\ table' \in {table, table \cup tx[p]}
    <3>1. tx'[p] = {} /\ table' \subseteq table \cup tx[p]
      BY <1>0, <2>10 DEF TypeOK
    <3>2. RequestsFresh(p)'
      BY <2>7, <3>1
    <3> QED BY <1>0, <2>1, <2>3, <3>1, <3>2 DEF FreshOK
  <2> QED BY <1>0, <1>10, <2>8, <2>9, <2>10, ThreadFile
<1>11. CASE Lookup(p) \/ Upsert(p) \/ Upserted(p) \/ Inserted(p)
  <2>1. /\ UNCHANGED <<tx, lock, table, frames, queue, batch>>
        /\ stage'[p]["pump"] # "rest" => stage[p]["pump"] # "rest" \/ frames[p] < MaxFrames[p]
        /\ \/ ops'[p] = Append(ops[p], Request("read", {}, "pump"))
           \/ ops'[p] = Append(ops[p], Request("write", {}, "pump"))
           \/ ops'[p] = Append(ops[p], Request("commit", {}, "pump"))
           \/ ops'[p] = Append(ops[p], Request("commit", {}, "writer"))
    BY <1>0, <1>11 DEF Lookup, Upsert, Upserted, Inserted, Await, PumpAt, TypeOK
  <2> QED BY <1>1, <1>2, <2>1
<1>12. CASE Forward(p) \/ LookedUp(p) \/ NoLabel(p) \/ UpsertEnds(p)
  <2>1. /\ UNCHANGED <<tx, lock, table, frames, queue, batch, ops>>
        /\ stage'[p]["pump"] # "rest" => stage[p]["pump"] # "rest" \/ frames[p] < MaxFrames[p]
    BY <1>0, <1>12 DEF Forward, LookedUp, NoLabel, UpsertEnds, PumpGoes, PumpAt, Moves, TypeOK
  <2> QED BY <1>1, <1>3, <2>1
<1>13. CASE Record(p) \/ Overflows(p)
  <2>1. /\ UNCHANGED <<tx, lock, table, batch, ops>> /\ frames'[p] = frames[p] + 1
        /\ queue'[p] \subseteq queue[p] \cup {Row(p, frames[p] + 1)}
        /\ stage'[p]["pump"] = "rest" /\ frames[p] < MaxFrames[p]
    <3>1. frames'[p] = frames[p] + 1
      BY <1>0, <1>13 DEF Record, Overflows, TypeOK
    <3>2. queue'[p] \subseteq queue[p] \cup {Row(p, frames[p] + 1)}
      BY <1>0, <1>13, <3>1 DEF Record, Overflows, TypeOK
    <3>3. frames[p] < MaxFrames[p]
      BY <1>0, <1>13 DEF Record, Overflows, PumpAt, FreshOK
    <3> QED BY <1>0, <1>13, <3>1, <3>2, <3>3 DEF Record, Overflows, Moves, TypeOK
  <2>2. ~Repeated(p)
    BY <1>13 DEF Record, Overflows, PumpAt, Repeated
  <2>3. Row(p, frames[p] + 1) \notin Used(p)
    BY <1>0, <2>2 DEF Row, Used
  <2>4. Row(p, frames[p] + 1) \in {p} \X Int /\ Row(p, frames[p] + 1) \in {p} \X (1..frames'[p])
    BY <1>0, <2>1 DEF Row
  <2>5. Row(p, frames[p] + 1) \notin tx[p] \cup table
    BY <1>0, <2>3, <2>4 DEF FreshOK
  <2>6. \A i \in DOMAIN ops[p] : Row(p, frames[p] + 1) \notin ops[p][i].rows
    BY <1>0, <2>3 DEF RequestsFresh
  <2>7. RequestsFresh(p)'
    BY <1>0, <1>u, <1>e, <2>1, <2>6, FreshSame
  <2>8. {p} \X (1..frames[p]) \subseteq {p} \X (1..frames'[p])
    BY <1>0, <2>1
  <2>9. frames'[p] <= MaxFrames[p]
    BY <1>0, <2>1
  <2> QED BY <1>0, <1>u, <2>1, <2>4, <2>5, <2>7, <2>8, <2>9 DEF FreshOK
<1>14. CASE Take(p)
  <2>1. /\ UNCHANGED <<tx, lock, table, frames>> /\ queue'[p] = {} /\ batch'[p] = queue[p]
        /\ stage'[p]["pump"] = stage[p]["pump"]
        /\ ops'[p] = Append(ops[p], Request("write", queue[p], "writer"))
    BY <1>0, <1>14 DEF Take, Await, TypeOK
  <2>2. queue[p] \subseteq Used(p)
    BY <1>0 DEF FreshOK, Used
  <2>3. queue[p] \cap (tx[p] \cup table) = {}
    BY <1>0 DEF FreshOK
  <2>4. RequestsFresh(p)'
    BY <1>0, <1>u, <1>e, <2>1, <2>2, <2>3, FreshAppend
  <2> QED BY <1>1, <2>1, <2>4
<1>15. CASE Flushed(p) \/ Dropped(p)
  <2>1. /\ UNCHANGED <<tx, lock, table, frames, queue, ops>> /\ batch'[p] = {}
        /\ stage'[p]["pump"] = stage[p]["pump"]
    BY <1>0, <1>15 DEF Flushed, Dropped, BatchEnds, Moves, TypeOK
  <2> QED BY <1>1, <1>3, <2>1
<1>16. CASE FlushAgain(p)
  <2> DEFINE rows == {Again(p, r) : r \in batch[p]}
  <2>1. /\ UNCHANGED <<tx, lock, table, frames, queue, batch>>
        /\ stage'[p]["pump"] = stage[p]["pump"] /\ stage'[p]["writer"] = "write"
        /\ ops'[p] = Append(ops[p], Request("write", rows, "writer"))
        /\ phase' = phase
    BY <1>0, <1>16 DEF FlushAgain, Await, TypeOK
  <2>2. ~Repeated(p) /\ phase[p] = "cancelling"
    BY <1>0, <1>16 DEF FlushAgain, WriterAt, PhaseOK, Repeated
  <2>3. Repeated(p)'
    BY <2>1, <2>2 DEF Repeated
  <2>4. \A r \in rows : r \in {p} \X ((MaxFrames[p] + 1)..(2 * MaxFrames[p]))
    <3>1. \A r \in batch[p] : r[2] \in 1..MaxFrames[p]
      BY <1>0 DEF FreshOK
    <3> QED BY <1>0, <3>1 DEF Again
  <2>5. rows \subseteq Used(p)' /\ rows \cap Used(p) = {} /\ rows \subseteq {p} \X Int
    <3>1. rows \cap Used(p) = {}
      BY <1>0, <2>2, <2>4 DEF Used, FreshOK
    <3>2. rows \subseteq Used(p)'
      BY <2>3, <2>4 DEF Used
    <3>3. rows \subseteq {p} \X Int
      BY <1>0, <2>4
    <3> QED BY <3>1, <3>2, <3>3
  <2>6. queue[p] \subseteq Used(p)
    BY <1>0 DEF FreshOK, Used
  <2> HIDE DEF rows
  <2>7. rows \cap (queue[p] \cup tx[p] \cup table) = {}
    BY <1>0, <2>5, <2>6 DEF FreshOK
  <2>8. \A i \in DOMAIN ops[p] : ops[p][i].rows \cap rows = {}
    BY <1>0, <2>5 DEF RequestsFresh
  <2>9. RequestsFresh(p)'
    BY <1>0, <1>u, <1>e, <2>1, <2>5, <2>7, <2>8, FreshAppend
  <2> QED BY <1>1, <2>1, <2>9
<1> QED BY <1>5, <1>6, <1>7, <1>8, <1>9, <1>10, <1>11, <1>12, <1>13, <1>14, <1>15, <1>16
        DEF Steps, Main, Pump, Writer

-------------------------------------------------------------------------------
(* The other parts, for the proxies that stay sound.                       *)

LEMMA RowsStep ==
    ASSUME IInv, NEW p \in Proxies, faults[p] = 0, Steps(p), SoundSteps(p)
    PROVE  RowsOK(p)'
<1>0. /\ TypeOK /\ RowsOK(p) /\ RequestsOK(p) /\ PhaseOK(p) /\ BatchOK(p) /\ FreshOK(p)
      /\ frames[p] \in Nat
  BY DEF IInv, SoundOK, TypeOK
<1>1. ASSUME UNCHANGED <<frames, queue, batch, lost, dropped, tx, table>>,
             phase[p] = "dead" => phase'[p] = "dead"
      PROVE  RowsOK(p)'
  BY <1>0, <1>1 DEF RowsOK
<1>2. phase[p] # "dead"
  BY <1>0, GoneRests DEF Gone, StartSession
<1>3. CASE MainWritten(p) \/ MainCommitted(p) \/ MainFailed(p) \/ Spawn(p) \/ SpawnFails(p)
           \/ EndSession(p) \/ Raise(p) \/ StartSession(p) \/ Stop(p)
  BY <1>1, <1>2, <1>3 DEF MainWritten, MainCommitted, MainFailed, Spawn, SpawnFails, EndSession,
                          Raise, StartSession, Stop
<1>4. CASE Close(p)
  <2>1. UNCHANGED <<frames, queue, batch, lost, dropped, table>> /\ tx'[p] = {}
    BY <1>0, <1>4 DEF Close, RollBack, TypeOK
  <2> QED BY <1>0, <1>2, <2>1 DEF RowsOK
<1>5. CASE Die(p)
  <2>1. UNCHANGED <<frames, lost, dropped, table>>
    BY <1>5 DEF Die
  <2>2. tx'[p] = {} /\ queue'[p] = {} /\ batch'[p] = {} /\ phase'[p] = "dead"
    BY <1>0, <1>5 DEF Die, RollBack, TypeOK
  <2> QED BY <1>0, <2>1, <2>2 DEF RowsOK
<1>6. CASE Executes(p)
  <2>1. CASE ExecRead(p) \/ ExecBusy(p)
    BY <1>1, <1>2, <2>1 DEF ExecRead, ExecBusy, Answer, Answers
  <2>2. CASE ExecWrite(p)
    <3>1. /\ UNCHANGED <<frames, queue, batch, lost, dropped, table, phase>>
          /\ ops[p] # <<>> /\ Head(ops[p]).kind = "write"
      BY <2>2 DEF ExecWrite, Answer, Answers, Pending
    <3>2. tx'[p] = tx[p] \cup Head(ops[p]).rows
      BY <1>0, <2>2 DEF ExecWrite, TypeOK
    <3>3. Head(ops[p]).rows \in {batch[p], {}}
      BY <1>0, <3>1, FirstRequest
    <3>4. (lost[p] \cup dropped[p]) \cap (table' \cup tx'[p]) = {}
      BY <1>0, <3>1, <3>2, <3>3 DEF RowsOK
    <3> HIDE DEF vars
    <3> QED BY <1>0, <3>1, <3>4 DEF RowsOK
  <2>3. CASE ExecCommit(p)
    <3>1. /\ table' = table \cup tx[p]
          /\ UNCHANGED <<frames, queue, batch, lost, dropped, phase>>
      BY <2>3 DEF ExecCommit, Answer, Answers
    <3>2. tx'[p] = {}
      BY <1>0, <2>3 DEF ExecCommit, TypeOK
    <3> QED BY <1>0, <3>1, <3>2 DEF RowsOK
  <2> QED BY <1>6, <2>1, <2>2, <2>3 DEF Executes
<1>7. CASE Lookup(p) \/ Forward(p) \/ LookedUp(p) \/ NoLabel(p) \/ Upsert(p) \/ Upserted(p)
           \/ UpsertEnds(p) \/ BudgetEnds(p) \/ Inserted(p)
  BY <1>1, <1>2, <1>7 DEF Lookup, Forward, LookedUp, NoLabel, Upsert, Upserted, UpsertEnds,
                          BudgetEnds, PumpGoes, Inserted
<1>8. CASE Record(p) \/ Overflows(p)
  <2> DEFINE new == Row(p, frames[p] + 1)
  <2>1. UNCHANGED <<batch, lost, tx, table, phase>> /\ frames'[p] = frames[p] + 1
    <3>1. frames'[p] = frames[p] + 1
      BY <1>0, <1>8 DEF Record, Overflows, TypeOK
    <3> QED BY <1>8, <3>1 DEF Record, Overflows
  <2>2. \/ queue'[p] = queue[p] \cup {new} /\ dropped'[p] = dropped[p]
        \/ dropped'[p] = dropped[p] \cup {new} /\ queue'[p] = queue[p]
    BY <1>0, <1>8, <2>1 DEF Record, Overflows, TypeOK
  <2>3. \A r \in {p} \X (1..frames[p]) : r \in {p} \X (1..frames'[p])
    BY <1>0, <2>1
  <2>4. \A r \in {p} \X (1..frames'[p]) : r \in {p} \X (1..frames[p]) \/ r = new
    BY <1>0, <2>1 DEF Row
  <2>5. new \in {p} \X (1..frames'[p]) /\ new \notin {p} \X (1..frames[p]) /\ new \in {p} \X Int
    BY <1>0, <2>1 DEF Row
  <2>6. new \notin queue[p] \cup batch[p] \cup lost[p] \cup dropped[p]
    BY <1>0, <2>5 DEF RowsOK, FreshOK
  <2>7. new \notin tx[p] \cup table
    <3>1. ~Repeated(p)
      BY <1>8 DEF Record, Overflows, PumpAt, Repeated
    <3>2. new \notin Used(p)
      BY <1>0, <3>1 DEF Row, Used
    <3> QED BY <1>0, <2>5, <3>2 DEF FreshOK
  <2> HIDE DEF new
  <2>8. batch'[p] \cup lost'[p] \cup dropped'[p] \subseteq {p} \X (1..frames'[p])
    BY <1>0, <2>1, <2>2, <2>3, <2>5 DEF RowsOK
  <2>9. /\ queue'[p] \cap (batch'[p] \cup lost'[p] \cup dropped'[p]) = {}
        /\ batch'[p] \cap (lost'[p] \cup dropped'[p]) = {}
        /\ (lost'[p] \cup dropped'[p]) \cap (table' \cup tx'[p]) = {}
    BY <1>0, <2>1, <2>2, <2>6, <2>7 DEF RowsOK
  <2>10. {p} \X (1..frames'[p]) \subseteq
            queue'[p] \cup batch'[p] \cup lost'[p] \cup dropped'[p] \cup table'
    BY <1>0, <1>2, <2>1, <2>2, <2>4 DEF RowsOK
  <2> QED BY <2>8, <2>9, <2>10 DEF RowsOK
<1>9. CASE Take(p)
  <2>1. UNCHANGED <<frames, lost, dropped, tx, table, phase>>
    BY <1>9 DEF Take
  <2>2. batch'[p] = queue[p] /\ queue'[p] = {}
    BY <1>0, <1>9 DEF Take, TypeOK
  <2>3. batch[p] = {} /\ queue[p] \subseteq {p} \X (1..frames[p])
    BY <1>0, <1>9 DEF Take, WriterAt, BatchOK, FreshOK
  <2> QED BY <1>0, <2>1, <2>2, <2>3 DEF RowsOK
<1>10. CASE FlushAgain(p)
  BY <1>0, <1>10 DEF FlushAgain, WriterAt, PhaseOK
<1>11. CASE Flushed(p)
  <2>1. UNCHANGED <<frames, queue, lost, dropped, tx, table, phase>>
    BY <1>11 DEF Flushed
  <2>2. batch'[p] = {}
    BY <1>0, <1>11 DEF Flushed, BatchEnds, TypeOK
  <2>3. batch[p] \subseteq table
    BY <1>0, <1>11 DEF Flushed, WriterAt, BatchOK
  <2> QED BY <1>0, <2>1, <2>2, <2>3 DEF RowsOK
<1>12. CASE Dropped(p)
  <2>1. UNCHANGED <<frames, queue, dropped, tx, table, phase>>
    BY <1>12 DEF Dropped
  <2>2. batch'[p] = {} /\ lost'[p] = lost[p] \cup batch[p]
    BY <1>0, <1>12 DEF Dropped, BatchEnds, PhaseOK, TypeOK
  <2>3. batch[p] \cap (tx[p] \cup table) = {}
    BY <1>0, <1>12 DEF Dropped, WriterAt, BatchOK
  <2> QED BY <1>0, <2>1, <2>2, <2>3 DEF RowsOK
<1> QED BY <1>3, <1>4, <1>5, <1>6, <1>7, <1>8, <1>9, <1>10, <1>11, <1>12
        DEF SoundSteps, Main, Pump, Writer

LEMMA BatchStep ==
    ASSUME IInv, NEW p \in Proxies, faults[p] = 0, Steps(p), SoundSteps(p)
    PROVE  BatchOK(p)'
<1>0. /\ TypeOK /\ RowsOK(p) /\ RequestsOK(p) /\ PhaseOK(p) /\ BatchOK(p) /\ FreshOK(p)
      /\ "writer" \in Tasks /\ "main" \in Tasks /\ "pump" \in Tasks
  BY DEF IInv, SoundOK
<1>1. ASSUME UNCHANGED <<batch, tx, table>>, NEW t \in Tasks \ {"writer"}, NEW to,
             \/ Moves(p, t, to)
             \/ \E kind, rows : Await(p, t, to, kind, rows)
      PROVE  BatchOK(p)'
  <2>1. stage'[p]["writer"] = stage[p]["writer"] /\ reply'[p]["writer"] = reply[p]["writer"]
    BY <1>0, <1>1 DEF Moves, Await, TypeOK
  <2> QED BY <1>0, <1>1, <2>1 DEF BatchOK
<1>2. CASE StartSession(p) \/ MainWritten(p) \/ MainCommitted(p) \/ MainFailed(p) \/ Spawn(p)
           \/ EndSession(p)
  <2>1. UNCHANGED <<batch, tx, table>>
    BY <1>2 DEF StartSession, MainWritten, MainCommitted, MainFailed, Spawn, EndSession
  <2>2. \/ \E to : Moves(p, "main", to)
        \/ \E to, kind, rows : Await(p, "main", to, kind, rows)
    BY <1>2 DEF StartSession, MainWritten, MainCommitted, MainFailed, Spawn, EndSession
  <2> HIDE DEF Tasks
  <2> QED BY <1>0, <1>1, <2>1, <2>2
<1>3. CASE Stop(p) \/ BudgetEnds(p) \/ Lookup(p) \/ Upsert(p) \/ Upserted(p) \/ Forward(p)
           \/ LookedUp(p) \/ NoLabel(p) \/ UpsertEnds(p) \/ Record(p) \/ Overflows(p)
  <2>1. UNCHANGED <<batch, tx, table>>
    BY <1>3 DEF Stop, BudgetEnds, Lookup, Upsert, Upserted, Forward, LookedUp, NoLabel,
                UpsertEnds, Record, Overflows, PumpGoes
  <2>2. \/ \E to : Moves(p, "pump", to)
        \/ \E to, kind, rows : Await(p, "pump", to, kind, rows)
    BY <1>3 DEF Stop, BudgetEnds, Lookup, Upsert, Upserted, Forward, LookedUp, NoLabel,
                UpsertEnds, Record, Overflows, PumpGoes
  <2> HIDE DEF Tasks
  <2> QED BY <1>0, <1>1, <2>1, <2>2
<1>4. CASE Close(p) \/ SpawnFails(p) \/ Raise(p)
  <2>1. UNCHANGED <<stage, reply, batch>>
    BY <1>4 DEF Close, SpawnFails, Raise
  <2>2. stage[p]["writer"] = "rest"
    BY <1>0, <1>4 DEF Close, SpawnFails, Raise, WriterIsDone, PhaseOK
  <2> QED BY <1>0, <2>1, <2>2 DEF BatchOK
<1>5. CASE Die(p)
  <2>1. stage'[p]["writer"] = "rest" /\ reply'[p]["writer"] = "none" /\ batch'[p] = {}
    BY <1>0, <1>5 DEF Die, TypeOK
  <2> QED BY <2>1 DEF BatchOK
<1>6. CASE Executes(p)
  <2>1. UNCHANGED <<stage, batch>> /\ ops[p] # <<>>
    BY <1>6 DEF Executes, ExecRead, ExecWrite, ExecBusy, ExecCommit, Answer, Answers, Pending
  <2>2. ASSUME NEW result, Answer(p, result)
        PROVE  reply'[p]["writer"] =
                  IF Head(ops[p]).by = "writer" THEN result ELSE reply[p]["writer"]
    BY <1>0, <2>2 DEF Answer, Answers, TypeOK
  <2>3. Head(ops[p]).by = "writer" =>
            stage[p]["writer"] = Head(ops[p]).kind /\ reply[p]["writer"] = "none"
    BY <1>0, <2>1, FirstRequest
  <2>4. CASE ExecRead(p) \/ ExecBusy(p)
    <3>1. UNCHANGED <<tx, table>> /\ Head(ops[p]).kind \in {"read", "write"}
      BY <2>4 DEF ExecRead, ExecBusy, Pending
    <3>2. CASE Head(ops[p]).by = "writer"
      <4>1. stage[p]["writer"] = "write" /\ reply[p]["writer"] = "none"
        BY <1>0, <2>3, <3>1, <3>2 DEF BatchOK
      <4>2. ExecBusy(p) /\ reply'[p]["writer"] = "err"
        <5>1. ~ExecRead(p)
          BY <2>3, <3>2, <4>1 DEF ExecRead, Pending
        <5>2. Answer(p, "err")
          BY <2>4, <5>1 DEF ExecBusy
        <5> QED BY <2>2, <2>4, <3>2, <5>1, <5>2
      <4> QED BY <1>0, <2>1, <3>1, <4>1, <4>2 DEF BatchOK
    <3>3. CASE Head(ops[p]).by # "writer"
      <4>1. \E result : Answer(p, result)
        BY <2>4 DEF ExecRead, ExecBusy
      <4>2. reply'[p]["writer"] = reply[p]["writer"]
        BY <2>2, <3>3, <4>1
      <4> QED BY <1>0, <2>1, <3>1, <4>2 DEF BatchOK
    <3> QED BY <3>2, <3>3
  <2>5. CASE ExecWrite(p)
    <3>1. /\ Answer(p, "ok") /\ table' = table /\ Head(ops[p]).kind = "write"
          /\ tx'[p] = tx[p] \cup Head(ops[p]).rows
      BY <1>0, <2>5 DEF ExecWrite, Pending, TypeOK
    <3>2. CASE Head(ops[p]).by = "writer"
      <4>1. Head(ops[p]).rows = batch[p]
        BY <1>0, <2>1, <3>1, <3>2, FirstRequest
      <4>2. stage[p]["writer"] = "write" /\ reply'[p]["writer"] = "ok"
        BY <2>2, <2>3, <3>1, <3>2
      <4> QED BY <2>1, <3>1, <4>1, <4>2 DEF BatchOK
    <3>3. CASE Head(ops[p]).by # "writer"
      <4>1. Head(ops[p]).rows = {}
        BY <1>0, <2>1, <3>1, <3>3, FirstRequest
      <4>2. reply'[p]["writer"] = reply[p]["writer"]
        BY <2>2, <3>1, <3>3
      <4> QED BY <1>0, <2>1, <3>1, <4>1, <4>2 DEF BatchOK
    <3> QED BY <3>2, <3>3
  <2>6. CASE ExecCommit(p)
    <3>1. /\ Answer(p, "ok") /\ table' = table \cup tx[p] /\ tx'[p] = {}
          /\ Head(ops[p]).kind = "commit"
      BY <1>0, <2>6 DEF ExecCommit, Pending, TypeOK
    <3>2. CASE Head(ops[p]).by = "writer"
      <4>1. stage[p]["writer"] = "commit" /\ reply'[p]["writer"] = "ok"
        BY <2>2, <2>3, <3>1, <3>2
      <4> QED BY <1>0, <2>1, <3>1, <4>1 DEF BatchOK
    <3>3. CASE Head(ops[p]).by # "writer"
      <4>1. reply'[p]["writer"] = reply[p]["writer"]
        BY <2>2, <3>1, <3>3
      <4> QED BY <1>0, <2>1, <3>1, <4>1 DEF BatchOK
    <3> QED BY <3>2, <3>3
  <2> QED BY <1>6, <2>4, <2>5, <2>6 DEF Executes
<1>7. CASE Take(p)
  <2>1. /\ UNCHANGED <<tx, table>> /\ batch'[p] = queue[p]
        /\ stage'[p]["writer"] = "write" /\ reply'[p]["writer"] = "none"
    BY <1>0, <1>7 DEF Take, Await, TypeOK
  <2> QED BY <1>0, <2>1 DEF FreshOK, BatchOK
<1>8. CASE Inserted(p)
  <2>1. /\ UNCHANGED <<batch, tx, table>>
        /\ stage'[p]["writer"] = "commit" /\ reply'[p]["writer"] = "none"
        /\ stage[p]["writer"] = "write" /\ reply[p]["writer"] = "ok"
    BY <1>0, <1>8 DEF Inserted, Await, WriterAt, TypeOK
  <2> QED BY <1>0, <2>1 DEF BatchOK
<1>9. CASE Flushed(p) \/ Dropped(p)
  <2>1. BatchEnds(p)
    BY <1>9 DEF Flushed, Dropped
  <2>2. stage'[p]["writer"] = "rest" /\ reply'[p]["writer"] = "none" /\ batch'[p] = {}
    BY <1>0, <2>1 DEF BatchEnds, Moves, TypeOK
  <2> QED BY <2>2 DEF BatchOK
<1>10. CASE FlushAgain(p)
  BY <1>0, <1>10 DEF FlushAgain, WriterAt, PhaseOK
<1> QED BY <1>2, <1>3, <1>4, <1>5, <1>6, <1>7, <1>8, <1>9, <1>10 DEF SoundSteps, Main, Pump, Writer

LEMMA AloneStep ==
    ASSUME IInv, NEW p \in Proxies, faults[p] = 0, Steps(p), SoundSteps(p)
    PROVE  AloneOK(p)'
<1>0. /\ TypeOK /\ PhaseOK(p) /\ RequestsOK(p) /\ BatchOK(p) /\ AloneOK(p)
      /\ \A q \in Proxies : PhaseOK(q)
  BY DEF IInv, SoundOK
<1>1. IsAlone(p)' <=> IsAlone(p)
  <2>1. \A q \in Proxies \ {p} : phase'[q] = phase[q]
    BY <1>0, OthersStay
  <2> QED BY <2>1 DEF IsAlone, Gone
<1>2. CASE StartSession(p)
  <2>1. /\ phase[p] = "new" /\ lost' = lost /\ snapshot' = snapshot
        /\ reply'[p]["writer"] = reply[p]["writer"]
        /\ alone'[p] <=> IsAlone(p)
    <3>1. reply'[p]["writer"] = reply[p]["writer"]
      BY <1>0, <1>2 DEF StartSession, Await, TypeOK
    <3>2. alone'[p] <=> IsAlone(p)
      BY <1>2 DEF StartSession
    <3> QED BY <1>2, <3>1, <3>2 DEF StartSession
  <2>2. lost[p] = {} /\ snapshot[p] = "none" /\ reply[p]["writer"] = "none"
    BY <1>0, <2>1 DEF PhaseOK, BatchOK, Gone
  <2> QED BY <1>1, <2>1, <2>2 DEF AloneOK
<1>3. ASSUME ~StartSession(p), alone[p]
      PROVE  /\ lost[p] = {} /\ snapshot[p] # "stale" /\ IsAlone(p)
             /\ reply[p]["writer"] # "err" /\ ~ExecBusy(p)
  <2>1. /\ lost[p] = {} /\ snapshot[p] # "stale" /\ IsAlone(p)
        /\ reply[p]["writer"] # "err"
    BY <1>0, <1>3, GoneRests DEF AloneOK
  <2>2. \A q \in Proxies \ {p} : lock # q
    BY <1>0, <2>1 DEF IsAlone, PhaseOK
  <2>3. lock \in {Free, p}
    BY <1>0, <2>2 DEF TypeOK
  <2> QED BY <2>1, <2>3 DEF ExecBusy
<1>4. ASSUME ~StartSession(p), alone'[p] = alone[p], lost'[p] = lost[p],
             snapshot'[p] = snapshot[p] \/ snapshot'[p] # "stale",
             \/ reply'[p]["writer"] = reply[p]["writer"]
             \/ reply'[p]["writer"] # "err"
      PROVE  AloneOK(p)'
  BY <1>1, <1>3, <1>4 DEF AloneOK
<1>5. CASE MainWritten(p) \/ EndSession(p) \/ Spawn(p)
  BY <1>0, <1>4, <1>5, <1>2 DEF MainWritten, EndSession, Spawn, Await, TypeOK
<1>6. CASE MainCommitted(p) \/ MainFailed(p) \/ Stop(p) \/ BudgetEnds(p)
  BY <1>0, <1>4, <1>6, <1>2 DEF MainCommitted, MainFailed, Stop, BudgetEnds, Moves, TypeOK
<1>14. CASE SpawnFails(p) \/ Raise(p)
  BY <1>0, <1>4, <1>14, <1>2 DEF SpawnFails, Raise
<1>15. CASE FlushAgain(p)
  BY <1>0, <1>15 DEF FlushAgain, WriterAt, PhaseOK
<1>7. CASE Close(p) \/ Die(p)
  <2>1. snapshot'[p] # "stale"
    BY <1>0, <1>7 DEF Close, Die, RollBack, TypeOK
  <2>2. reply'[p]["writer"] = reply[p]["writer"] \/ reply'[p]["writer"] # "err"
    BY <1>0, <1>7 DEF Close, Die, TypeOK
  <2>3. alone' = alone /\ lost' = lost
    BY <1>7 DEF Close, Die
  <2> QED BY <1>2, <1>4, <2>1, <2>2, <2>3
<1>8. CASE Executes(p) /\ ~StartSession(p)
  <2>1. alone' = alone /\ lost' = lost
    BY <1>8 DEF Executes, ExecRead, ExecWrite, ExecBusy, ExecCommit, Answer, Answers
  <2>2. snapshot'[p] = snapshot[p] \/ snapshot'[p] # "stale"
    BY <1>0, <1>8 DEF Executes, ExecRead, ExecWrite, ExecBusy, ExecCommit, TypeOK
  <2>3. CASE ExecBusy(p)
    BY <1>3, <1>8, <2>1, <2>3 DEF AloneOK
  <2>4. CASE ~ExecBusy(p)
    <3>1. Answer(p, "ok")
      BY <1>8, <2>4 DEF Executes, ExecRead, ExecWrite, ExecCommit
    <3>2. \/ reply'[p]["writer"] = reply[p]["writer"]
          \/ reply'[p]["writer"] # "err"
      BY <1>0, <3>1 DEF Answer, Answers, TypeOK
    <3> QED BY <1>4, <1>8, <2>1, <2>2, <3>2
  <2> QED BY <2>3, <2>4
<1>9. CASE Lookup(p) \/ Upsert(p) \/ Upserted(p)
  BY <1>0, <1>4, <1>9, <1>2 DEF Lookup, Upsert, Upserted, Await, TypeOK
<1>10. CASE Forward(p) \/ LookedUp(p) \/ NoLabel(p) \/ UpsertEnds(p) \/ Record(p) \/ Overflows(p)
  BY <1>0, <1>4, <1>10, <1>2
     DEF Forward, LookedUp, NoLabel, UpsertEnds, Record, Overflows, PumpGoes, Moves, TypeOK
<1>11. CASE Take(p) \/ Inserted(p)
  BY <1>0, <1>4, <1>11, <1>2 DEF Take, Inserted, Await, TypeOK
<1>12. CASE Flushed(p)
  BY <1>0, <1>4, <1>12, <1>2 DEF Flushed, BatchEnds, Moves, TypeOK
<1>13. CASE Dropped(p) /\ ~StartSession(p)
  <2>1. ~alone[p]
    BY <1>3, <1>13 DEF Dropped
  <2>2. alone' = alone
    BY <1>13 DEF Dropped
  <2> QED BY <2>1, <2>2 DEF AloneOK
<1> QED BY <1>2, <1>5, <1>6, <1>7, <1>8, <1>9, <1>10, <1>11, <1>12, <1>13,
           <1>14, <1>15
        DEF SoundSteps, Main, Pump, Writer

\* When a frame has been recorded, or could not be, the queue is not empty.
LEMMA Recorded ==
    ASSUME TypeOK, NEW p \in Proxies, Record(p) \/ Overflows(p)
    PROVE  queue'[p] # {}
<1>1. CASE Record(p)
  <2>1. queue'[p] = queue[p] \cup {Row(p, frames'[p])}
    BY <1>1 DEF Record, TypeOK
  <2> QED BY <2>1
<1>2. CASE Overflows(p)
  BY <1>2 DEF Overflows
<1> QED BY <1>1, <1>2

LEMMA LockStep ==
    ASSUME IInv, NEW p \in Proxies, faults[p] = 0, Steps(p), SoundSteps(p)
    PROVE  LockOK(p)'
<1>0. /\ TypeOK /\ PhaseOK(p) /\ RequestsOK(p) /\ BatchOK(p) /\ LockOK(p) /\ AbandonedOK(p)
      /\ "main" \in Tasks /\ "pump" \in Tasks /\ "writer" \in Tasks
      /\ ops[p] \in Seq(Requests)
  BY DEF IInv, SoundOK, TypeOK
<1>1. CASE StartSession(p)
  <2>1. /\ phase'[p] = "starting" /\ UNCHANGED <<lock, snapshot>> /\ lock # p
        /\ stage'[p]["main"] = "write" /\ ops[p] = <<>>
        /\ ops'[p] = Append(<<>>, Request("write", {}, "main"))
    BY <1>0, <1>1 DEF StartSession, Await, PhaseOK, Gone, TypeOK
  <2>2. \A i \in DOMAIN ops'[p] : ops'[p][i].by = "main"
    BY <2>1 DEF Request
  <2> QED BY <2>1, <2>2 DEF LockOK
<1>2. CASE MainWritten(p)
  <2>1. /\ phase' = phase /\ UNCHANGED <<lock, snapshot>> /\ phase[p] # "running"
        /\ reply'[p]["main"] = "none"
        /\ ops'[p] = Append(ops[p], Request("commit", {}, "main"))
    BY <1>0, <1>2 DEF MainWritten, Await, PhaseOK, TypeOK
  <2>2. phase[p] \in {"starting", "patching"} => \A i \in DOMAIN ops'[p] : ops'[p][i].by = "main"
    <3>1. Request("commit", {}, "main").by = "main"
      BY DEF Request
    <3> QED BY <1>0, <2>1, <3>1 DEF LockOK
  <2>3. phase[p] # "spawning"
    BY <1>0, <1>2 DEF MainWritten, PhaseOK
  <2> QED BY <1>0, <2>1, <2>2, <2>3 DEF LockOK
<1>3. CASE MainCommitted(p) \/ MainFailed(p)
  <2>1. UNCHANGED <<lock, snapshot, ops>> /\ phase'[p] \in {"spawning", "running", "closing"}
    BY <1>0, <1>3 DEF MainCommitted, MainFailed, TypeOK
  <2>2. phase'[p] \in {"spawning", "running"} => phase[p] \in {"starting", "patching"} /\ lock # p
    BY <1>0, <1>3 DEF MainCommitted, MainFailed, TypeOK, LockOK
  <2>3. phase'[p] = "spawning" => ops[p] = <<>>
    <3>1. NoRequest(p, "main")
      <4> HIDE DEF Tasks
      <4> QED BY <1>0, <1>3, NothingAwaited DEF MainCommitted, MainFailed
    <3>2. phase[p] \in {"starting", "patching"} => DOMAIN ops[p] = {}
      BY <1>0, <3>1 DEF LockOK, NoRequest
    <3>3. ASSUME DOMAIN ops[p] = {} PROVE ops[p] = <<>>
      <4>1. Len(ops[p]) \in Nat /\ DOMAIN ops[p] = 1..Len(ops[p])
        BY <1>0
      <4>2. Len(ops[p]) = 0
        <5>1. 1 \notin 1..Len(ops[p])
          BY <3>3, <4>1
        <5> QED BY <4>1, <5>1
      <4> QED BY <1>0, <4>2, EmptySeq
    <3> QED BY <2>2, <3>2, <3>3
  <2> QED BY <1>0, <2>1, <2>2, <2>3 DEF LockOK
<1>13. CASE Spawn(p)
  <2>1. /\ phase'[p] = "patching" /\ UNCHANGED <<lock, snapshot>> /\ lock # p
        /\ stage'[p]["main"] = "write" /\ ops[p] = <<>>
        /\ ops'[p] = Append(<<>>, Request("write", {}, "main"))
    BY <1>0, <1>13 DEF Spawn, Await, LockOK, TypeOK
  <2>2. \A i \in DOMAIN ops'[p] : ops'[p][i].by = "main"
    BY <2>1 DEF Request
  <2> QED BY <2>1, <2>2 DEF LockOK
<1>14. CASE FlushAgain(p)
  BY <1>0, <1>14 DEF FlushAgain, WriterAt, PhaseOK
<1>4. CASE EndSession(p) \/ Stop(p) \/ SpawnFails(p) \/ Raise(p)
  <2>1. UNCHANGED <<lock, snapshot>> /\ phase'[p] \in {"ending", "draining", "closing"}
    BY <1>0, <1>4 DEF EndSession, Stop, SpawnFails, Raise, TypeOK
  <2> QED BY <1>0, <2>1 DEF LockOK
<1>5. CASE Close(p) \/ Die(p)
  <2>1. lock' # p /\ phase'[p] \in {"closed", "dead"}
    BY <1>0, <1>5, FreeAssumption DEF Close, Die, RollBack, TypeOK
  <2> QED BY <2>1 DEF LockOK
<1>6. CASE Executes(p)
  <2>1. UNCHANGED process /\ ops[p] # <<>> /\ ops'[p] = Tail(ops[p])
    BY <1>0, <1>6 DEF Executes, ExecRead, ExecWrite, ExecBusy, ExecCommit, Answer, Answers, Pending, TypeOK
  <2>2. ASSUME phase[p] \in {"starting", "patching"} PROVE \A i \in DOMAIN ops'[p] : ops'[p][i].by = "main"
    <3>1. \A i \in DOMAIN ops[p] : ops[p][i].by = "main"
      BY <1>0, <2>2 DEF LockOK
    <3>2. DOMAIN ops'[p] = 1..(Len(ops[p]) - 1)
          /\ \A i \in 1..(Len(ops[p]) - 1) : ops'[p][i] = ops[p][i + 1]
      BY <1>0, <2>1
    <3>3. DOMAIN ops[p] = 1..Len(ops[p]) /\ Len(ops[p]) \in Nat
      BY <1>0
    <3> QED BY <3>1, <3>2, <3>3
  <2>s. phase[p] # "spawning"
    BY <1>0, <2>1 DEF LockOK
  <2>3. ASSUME NEW result, Answer(p, result), NEW t \in Tasks
        PROVE  reply'[p][t] = IF t = Head(ops[p]).by THEN result ELSE reply[p][t]
    BY <1>0, <2>3 DEF Answer, Answers, TypeOK
  <2>4. ASSUME NEW t \in Tasks, t = Head(ops[p]).by
        PROVE  stage[p][t] = Head(ops[p]).kind /\ reply[p][t] = "none"
    BY <1>0, <2>1, <2>4, FirstRequest
  <2>5. CASE ExecRead(p)
    <3>1. /\ Answer(p, "ok") /\ lock' = lock /\ Head(ops[p]).kind = "read"
          /\ snapshot'[p] \in {snapshot[p], "fresh"}
      BY <1>0, <2>5 DEF ExecRead, Pending, TypeOK
    <3>2. \A t \in Tasks : stage[p][t] # "read" => reply'[p][t] = reply[p][t]
      <4> HIDE DEF Tasks
      <4> QED BY <2>3, <2>4, <3>1
    <3>3. \A t \in {"pump", "writer"} : Commits(p, t) => Commits(p, t)'
      BY <2>1, <3>2 DEF Commits
    <3>4. stage[p]["main"] = "commit" => reply'[p]["main"] = reply[p]["main"]
      BY <3>2
    <3>5. Recording(p) => Recording(p)'
      BY <2>1 DEF Recording
    <3> QED BY <1>0, <2>1, <2>2, <2>s, <3>1, <3>3, <3>4, <3>5 DEF LockOK
  <2>6. CASE ExecWrite(p)
    <3>1. /\ Answer(p, "ok") /\ lock' = p /\ snapshot' = snapshot /\ snapshot[p] # "stale"
          /\ Head(ops[p]).kind = "write"
      BY <1>0, <2>6 DEF ExecWrite, Pending, TypeOK
    <3>2. Head(ops[p]) = ops[p][1] /\ 1 \in DOMAIN ops[p] /\ Head(ops[p]) \in Requests
      BY <1>0, <2>1, FirstRequest
    <3>3. ASSUME NEW t \in Tasks, stage[p][t] = "write", reply[p][t] = "none"
          PROVE  Commits(p, t)'
      <4>1. reply'[p][t] \in {"ok", "none"}
        BY <2>3, <3>1, <3>3
      <4> QED BY <2>1, <3>3, <4>1 DEF Commits
    <3>4. ASSUME phase[p] = "running"
          PROVE  Commits(p, "pump")' \/ Commits(p, "writer")' \/ Recording(p)'
      <4>1. Recording(p) => Recording(p)'
        BY <2>1 DEF Recording
      <4>2. CASE Head(ops[p]).by \in Tasks
        <5>1. Head(ops[p]).by # "main"
          BY <1>0, <2>4, <3>1, <3>4 DEF PhaseOK
        <5>2. Head(ops[p]).by \in {"pump", "writer"}
          BY <4>2, <5>1
        <5> HIDE DEF Tasks
        <5> QED BY <2>4, <3>1, <3>3, <4>2, <5>2
      <4>3. CASE Head(ops[p]).by = "nobody"
        <5>1. Recording(p) \/ \E j \in DOMAIN ops[p] : ops[p][j].kind = "write" /\ ops[p][j].by = "writer"
          BY <1>0, <3>1, <3>2, <3>4, <4>3 DEF AbandonedOK
        <5>2. ASSUME NEW j \in DOMAIN ops[p], ops[p][j].kind = "write", ops[p][j].by = "writer"
              PROVE  Commits(p, "writer")'
          <6>1. stage[p]["writer"] = "write" /\ reply[p]["writer"] = "none"
            BY <1>0, <5>2 DEF RequestsOK
          <6> HIDE DEF Tasks
          <6> QED BY <1>0, <3>3, <6>1
        <5> QED BY <4>1, <5>1, <5>2
      <4> QED BY <3>2, <4>2, <4>3 DEF Requests
    <3>5. ASSUME phase[p] \in {"starting", "patching"} PROVE stage[p]["main"] # "commit"
      <4>1. Head(ops[p]).by = "main"
        BY <1>0, <3>2, <3>5 DEF LockOK
      <4> QED BY <2>4, <3>1, <4>1
    <3> QED BY <2>s, <2>1, <2>2, <3>1, <3>4, <3>5 DEF LockOK
  <2>7. CASE ExecBusy(p)
    <3>1. lock' = lock /\ snapshot' = snapshot /\ lock # p
      BY <1>0, <2>7 DEF ExecBusy, LockOK
    <3> QED BY <2>1, <2>2, <2>s, <3>1 DEF LockOK
  <2>8. CASE ExecCommit(p)
    <3>1. lock' # p
      BY <1>0, <2>8, FreeAssumption DEF ExecCommit
    <3> QED BY <2>1, <2>2, <2>s, <3>1 DEF LockOK
  <2> QED BY <1>6, <2>5, <2>6, <2>7, <2>8 DEF Executes
<1>7. CASE Lookup(p) \/ (LookedUp(p) /\ stage'[p]["pump"] # "forward")
  <2>1. /\ UNCHANGED <<lock, snapshot, queue>> /\ phase' = phase /\ phase[p] = "running"
        /\ stage[p]["pump"] \in {"rest", "read"}
        /\ stage'[p]["writer"] = stage[p]["writer"] /\ reply'[p]["writer"] = reply[p]["writer"]
    <3>1. CASE Lookup(p)
      BY <1>0, <3>1 DEF Lookup, PumpAt, Await, TypeOK
    <3>2. CASE LookedUp(p)
      BY <1>0, <3>2 DEF LookedUp, PumpGoes, PumpAt, Moves, TypeOK
    <3> QED BY <1>7, <3>1, <3>2
  <2>2. /\ ~Commits(p, "pump") /\ (Commits(p, "writer") => Commits(p, "writer")')
        /\ (Recording(p) => Recording(p)')
    BY <2>1 DEF Commits, Recording
  <2> QED BY <1>0, <2>1, <2>2 DEF LockOK
<1>8. CASE Forward(p) \/ (LookedUp(p) /\ stage'[p]["pump"] = "forward") \/ NoLabel(p)
           \/ UpsertEnds(p) \/ BudgetEnds(p)
  <2>1. /\ UNCHANGED <<lock, snapshot>> /\ phase' = phase /\ phase[p] = "running"
        /\ stage'[p]["pump"] = "forward"
    <3>1. CASE Forward(p) \/ NoLabel(p) \/ UpsertEnds(p)
      BY <1>0, <3>1 DEF Forward, NoLabel, UpsertEnds, PumpGoes, PumpAt, Moves, TypeOK
    <3>2. CASE LookedUp(p) /\ stage'[p]["pump"] = "forward"
      BY <1>0, <3>2 DEF LookedUp, PumpGoes, PumpAt
    <3>3. CASE BudgetEnds(p)
      BY <1>0, <3>3 DEF BudgetEnds, PumpAt, Moves, TypeOK
    <3> QED BY <1>8, <3>1, <3>2, <3>3
  <2> QED BY <1>0, <2>1 DEF LockOK, Recording
<1>9. CASE Upsert(p) \/ Upserted(p)
  <2>1. /\ UNCHANGED <<lock, snapshot>> /\ phase' = phase /\ phase[p] = "running"
        /\ stage'[p]["pump"] \in {"write", "commit"} /\ reply'[p]["pump"] = "none"
    BY <1>0, <1>9 DEF Upsert, Upserted, PumpAt, Await, TypeOK
  <2> QED BY <1>0, <2>1 DEF LockOK, Commits
<1>10. CASE Record(p) \/ Overflows(p)
  <2>1. /\ UNCHANGED <<lock, snapshot>> /\ phase' = phase /\ phase[p] = "running"
    BY <1>0, <1>10 DEF Record, Overflows, PumpAt, TypeOK
  <2>2. queue'[p] # {}
    BY <1>0, <1>10, Recorded
  <2> QED BY <1>0, <2>1, <2>2 DEF LockOK, Recording
<1>11. CASE Take(p) \/ Inserted(p)
  <2>1. /\ UNCHANGED <<lock, snapshot>> /\ phase' = phase
        /\ phase[p] \notin {"starting", "patching", "spawning"}
        /\ stage'[p]["writer"] \in {"write", "commit"} /\ reply'[p]["writer"] = "none"
    BY <1>0, <1>11 DEF Take, Inserted, WriterAt, Await, TypeOK
  <2> QED BY <1>0, <2>1 DEF LockOK, Commits
<1>12. CASE Flushed(p) \/ Dropped(p)
  <2>1. /\ UNCHANGED <<lock, snapshot, queue>> /\ phase' = phase
        /\ phase[p] \notin {"starting", "patching", "spawning"}
        /\ stage'[p]["pump"] = stage[p]["pump"] /\ reply'[p]["pump"] = reply[p]["pump"]
        /\ ~Commits(p, "writer")
    BY <1>0, <1>12 DEF Flushed, Dropped, WriterAt, BatchEnds, Moves, TypeOK, Commits
  <2>2. (Commits(p, "pump") => Commits(p, "pump")') /\ (Recording(p) => Recording(p)')
    BY <2>1 DEF Commits, Recording
  <2> QED BY <1>0, <2>1, <2>2 DEF LockOK
<1> QED BY <1>1, <1>2, <1>3, <1>4, <1>5, <1>6, <1>7, <1>8, <1>9, <1>10, <1>11, <1>12,
           <1>13, <1>14
        DEF SoundSteps, Main, Pump, Writer

\* The first request is executed, and the others keep their order.
LEMMA AbandonedShift ==
    ASSUME TypeOK, NEW p \in Proxies, AbandonedOK(p), ops[p] # <<>>,
           ops'[p] = Tail(ops[p]), UNCHANGED process
    PROVE  AbandonedOK(p)'
<1>1. /\ DOMAIN ops[p] = 1..Len(ops[p]) /\ Len(ops[p]) \in Nat
      /\ DOMAIN ops'[p] = 1..(Len(ops[p]) - 1)
      /\ \A i \in 1..(Len(ops[p]) - 1) : ops'[p][i] = ops[p][i + 1]
  BY DEF TypeOK
<1>2. Recording(p) => Recording(p)'
  BY DEF Recording
<1>3. ASSUME NEW i \in DOMAIN ops'[p], phase'[p] = "running", ops'[p][i].kind = "write",
             ops'[p][i].by = "nobody"
      PROVE  \/ Recording(p)'
             \/ \E j \in DOMAIN ops'[p] :
                  i < j /\ ops'[p][j].kind = "write" /\ ops'[p][j].by = "writer"
  <2>1. i + 1 \in DOMAIN ops[p] /\ ops'[p][i] = ops[p][i + 1]
    BY <1>1, <1>3
  <2>2. \/ Recording(p)
        \/ \E j \in DOMAIN ops[p] :
              i + 1 < j /\ ops[p][j].kind = "write" /\ ops[p][j].by = "writer"
    BY <1>3, <2>1 DEF AbandonedOK
  <2>3. ASSUME NEW j \in DOMAIN ops[p], i + 1 < j, ops[p][j].kind = "write",
               ops[p][j].by = "writer"
        PROVE  j - 1 \in DOMAIN ops'[p] /\ i < j - 1 /\ ops'[p][j - 1] = ops[p][j]
    <3>1. j - 1 \in 1..(Len(ops[p]) - 1) /\ i < j - 1 /\ (j - 1) + 1 = j
      BY <1>1, <1>3, <2>3
    <3> QED BY <1>1, <3>1
  <2> QED BY <1>2, <2>2, <2>3
<1> QED BY <1>3 DEF AbandonedOK

\* A request is added at the end.
LEMMA AbandonedAppend ==
    ASSUME TypeOK, NEW p \in Proxies, AbandonedOK(p), NEW kind, NEW rows, NEW t \in Tasks,
           ops'[p] = Append(ops[p], Request(kind, rows, t)), phase'[p] = phase[p],
           (Recording(p) => Recording(p)') \/ (kind = "write" /\ t = "writer")
    PROVE  AbandonedOK(p)'
<1> DEFINE o == Request(kind, rows, t)
<1>o. o.by = t /\ o.kind = kind /\ t # "nobody"
  BY DEF Request
<1> HIDE DEF o
<1>1. /\ DOMAIN ops[p] = 1..Len(ops[p]) /\ Len(ops[p]) \in Nat
      /\ DOMAIN ops'[p] = 1..(Len(ops[p]) + 1)
      /\ \A i \in 1..Len(ops[p]) : ops'[p][i] = ops[p][i]
      /\ ops'[p][Len(ops[p]) + 1] = o
  BY DEF TypeOK, o
<1>2. ASSUME NEW i \in DOMAIN ops'[p], phase'[p] = "running", ops'[p][i].kind = "write",
             ops'[p][i].by = "nobody"
      PROVE  \/ Recording(p)'
             \/ \E j \in DOMAIN ops'[p] :
                  i < j /\ ops'[p][j].kind = "write" /\ ops'[p][j].by = "writer"
  <2>1. i \in DOMAIN ops[p] /\ ops'[p][i] = ops[p][i]
    BY <1>1, <1>2, <1>o
  <2>2. \/ Recording(p)
        \/ \E j \in DOMAIN ops[p] :
              i < j /\ ops[p][j].kind = "write" /\ ops[p][j].by = "writer"
    BY <1>2, <2>1 DEF AbandonedOK
  <2>3. i < Len(ops[p]) + 1 /\ Len(ops[p]) + 1 \in DOMAIN ops'[p]
    BY <1>1, <2>1
  <2>4. ASSUME NEW j \in DOMAIN ops[p], i < j, ops[p][j].kind = "write",
               ops[p][j].by = "writer"
        PROVE  j \in DOMAIN ops'[p] /\ ops'[p][j] = ops[p][j]
    BY <1>1, <2>4
  <2> QED BY <1>1, <1>o, <2>2, <2>3, <2>4
<1> QED BY <1>2 DEF AbandonedOK

LEMMA AbandonedStep ==
    ASSUME IInv, NEW p \in Proxies, faults[p] = 0, Steps(p), SoundSteps(p)
    PROVE  AbandonedOK(p)'
<1>0. /\ TypeOK /\ PhaseOK(p) /\ RequestsOK(p) /\ BatchOK(p) /\ LockOK(p) /\ AbandonedOK(p)
      /\ "main" \in Tasks /\ "pump" \in Tasks /\ "writer" \in Tasks
      /\ ops[p] \in Seq(Requests)
  BY DEF IInv, SoundOK, TypeOK
<1>1. CASE StartSession(p) \/ MainWritten(p) \/ MainFailed(p) \/ Spawn(p) \/ SpawnFails(p)
           \/ EndSession(p) \/ Raise(p) \/ Stop(p) \/ Close(p) \/ Die(p)
  <2>1. phase'[p] # "running"
    BY <1>0, <1>1 DEF StartSession, MainWritten, MainFailed, Spawn, SpawnFails, EndSession, Raise,
                      Stop, Close, Die, PhaseOK, TypeOK
  <2> QED BY <2>1 DEF AbandonedOK
<1>2. CASE MainCommitted(p)
  <2>1. CASE phase[p] \in {"starting", "patching"}
    <3>1. NoRequest(p, "main")
      <4> HIDE DEF Tasks
      <4> QED BY <1>0, <1>2, NothingAwaited DEF MainCommitted
    <3>2. \A i \in DOMAIN ops[p] : ops[p][i].by = "main"
      BY <1>0, <2>1 DEF LockOK
    <3>3. ops' = ops
      BY <1>2 DEF MainCommitted
    <3> QED BY <3>1, <3>2, <3>3 DEF NoRequest, AbandonedOK
  <2>2. CASE phase[p] \notin {"starting", "patching"}
    <3>1. phase'[p] # "running"
      BY <1>0, <1>2, <2>2 DEF MainCommitted, TypeOK
    <3> QED BY <3>1 DEF AbandonedOK
  <2> QED BY <2>1, <2>2
<1>3. CASE Executes(p)
  <2>1. UNCHANGED process /\ ops[p] # <<>> /\ ops'[p] = Tail(ops[p])
    BY <1>0, <1>3 DEF Executes, ExecRead, ExecWrite, ExecBusy, ExecCommit, Answer, Answers, Pending, TypeOK
  <2> QED BY <1>0, <2>1, AbandonedShift
<1>4. CASE Lookup(p) \/ Upsert(p) \/ Upserted(p) \/ Inserted(p)
  <2>1. /\ phase' = phase /\ queue' = queue
        /\ stage[p]["pump"] = "forward" => stage'[p]["pump"] = "forward"
    BY <1>0, <1>4 DEF Lookup, Upsert, Upserted, Inserted, Await, PumpAt, TypeOK
  <2>2. Recording(p) => Recording(p)'
    BY <2>1 DEF Recording
  <2>3. \/ ops'[p] = Append(ops[p], Request("read", {}, "pump"))
        \/ ops'[p] = Append(ops[p], Request("write", {}, "pump"))
        \/ ops'[p] = Append(ops[p], Request("commit", {}, "pump"))
        \/ ops'[p] = Append(ops[p], Request("commit", {}, "writer"))
    BY <1>0, <1>4 DEF Lookup, Upsert, Upserted, Inserted, Await, TypeOK
  <2> HIDE DEF Tasks
  <2> QED BY <1>0, <2>1, <2>2, <2>3, AbandonedAppend
<1>5. CASE Take(p)
  <2>1. phase' = phase /\ ops'[p] = Append(ops[p], Request("write", queue[p], "writer"))
    BY <1>0, <1>5 DEF Take, Await, TypeOK
  <2> HIDE DEF Tasks
  <2> QED BY <1>0, <2>1, AbandonedAppend
<1>6. ASSUME Recording(p)' PROVE AbandonedOK(p)'
  BY <1>6 DEF AbandonedOK
<1>7. CASE Forward(p) \/ NoLabel(p) \/ UpsertEnds(p) \/ BudgetEnds(p) \/ Record(p)
           \/ Overflows(p) \/ (LookedUp(p) /\ stage'[p]["pump"] = "forward")
  <2>1. stage'[p]["pump"] = "forward" \/ queue'[p] # {}
    <3>1. CASE Forward(p) \/ NoLabel(p) \/ UpsertEnds(p) \/ BudgetEnds(p)
      BY <1>0, <3>1 DEF Forward, NoLabel, UpsertEnds, BudgetEnds, PumpGoes, Moves, TypeOK
    <3>2. CASE Record(p) \/ Overflows(p)
      BY <1>0, <3>2, Recorded
    <3>3. CASE LookedUp(p) /\ stage'[p]["pump"] = "forward"
      BY <3>3
    <3> QED BY <1>7, <3>1, <3>2, <3>3
  <2> QED BY <1>6, <2>1 DEF Recording
<1>8. CASE Flushed(p) \/ Dropped(p) \/ (LookedUp(p) /\ stage'[p]["pump"] # "forward")
  <2>1. /\ UNCHANGED <<phase, queue, ops>>
        /\ stage[p]["pump"] = "forward" => stage'[p]["pump"] = "forward"
    BY <1>0, <1>8 DEF Flushed, Dropped, LookedUp, PumpGoes, PumpAt, BatchEnds, Moves, TypeOK
  <2>2. Recording(p) => Recording(p)'
    BY <2>1 DEF Recording
  <2> QED BY <1>0, <2>1, <2>2 DEF AbandonedOK
<1>9. CASE FlushAgain(p)
  BY <1>0, <1>9 DEF FlushAgain, WriterAt, PhaseOK
<1> QED BY <1>1, <1>2, <1>3, <1>4, <1>5, <1>7, <1>8, <1>9 DEF SoundSteps, Main, Pump, Writer

-------------------------------------------------------------------------------
(* The theorems.                                                           *)

\* Every step preserves the invariant.
LEMMA NextIInv == IInv /\ [Next]_vars => IInv'
<1> SUFFICES ASSUME IInv, [Next]_vars PROVE IInv'
  OBVIOUS
<1>1. CASE \E q \in Proxies : Steps(q)
  <2> PICK q \in Proxies : Steps(q)
    BY <1>1
  <2>0. TypeOK
    BY DEF IInv
  <2>1. TypeOK'
    BY <2>0, TypeStep
  <2>2. RequestsOK(q)' /\ PhaseOK(q)' /\ FreshOK(q)'
    BY RequestsStep, PhaseStep, FreshStep
  <2>3. ASSUME faults'[q] = 0 PROVE SoundOK(q)'
    <3>1. SoundSteps(q) /\ faults[q] = 0
      BY <2>0, <2>3, SoundStays
    <3>2. RowsOK(q)'
      BY <3>1, RowsStep
    <3>3. BatchOK(q)'
      BY <3>1, BatchStep
    <3>4. AloneOK(q)'
      BY <3>1, AloneStep
    <3>5. LockOK(q)'
      BY <3>1, LockStep
    <3>6. AbandonedOK(q)'
      BY <3>1, AbandonedStep
    <3> QED BY <3>2, <3>3, <3>4, <3>5, <3>6 DEF SoundOK
  <2>4. \A p \in Proxies \ {q} :
            /\ RequestsOK(p)' /\ PhaseOK(p)' /\ FreshOK(p)'
            /\ faults'[p] = 0 => SoundOK(p)'
    BY OthersKeep
  <2> QED BY <2>1, <2>2, <2>3, <2>4 DEF IInv
<1>2. CASE UNCHANGED vars
  <2>1. TypeOK'
    BY <1>2 DEF IInv, TypeOK
  <2>2. ASSUME NEW p \in Proxies
        PROVE  /\ RequestsOK(p)' /\ PhaseOK(p)' /\ FreshOK(p)'
               /\ faults'[p] = 0 => SoundOK(p)'
    <3>1. /\ RequestsOK(p) /\ PhaseOK(p) /\ FreshOK(p)
          /\ faults[p] = 0 => SoundOK(p)
      BY DEF IInv
    <3>2. RequestsOK(p)' /\ PhaseOK(p)'
      BY <1>2, <3>1 DEF RequestsOK, PhaseOK
    <3>3. FreshOK(p)'
      BY <1>2, <3>1 DEF FreshOK, RequestsFresh, Used, Repeated
    <3>4. ASSUME faults[p] = 0 PROVE SoundOK(p)'
      BY <1>2, <3>1, <3>4
         DEF SoundOK, RowsOK, BatchOK, AloneOK, IsAlone, LockOK, AbandonedOK, Commits, Recording
    <3> QED BY <1>2, <3>2, <3>3, <3>4
  <2> QED BY <2>1, <2>2 DEF IInv
<1> QED BY <1>1, <1>2 DEF Next, Steps, AllGone

\* The requests, rows and locks of all proxies are as the invariant says, in
\* every state that any number of them on one file can reach, with any number
\* of statements that fail.
THEOREM Invariance == Spec => []IInv
  BY InitIInv, NextIInv, PTL DEF Spec

\* What a proxy of which no statement fails by itself, and whose shutdown ends
\* in time, reports as dropped is what is not in the file, whatever fails or
\* dies elsewhere; and alone with the file its flushes drop nothing:
\* EventBuffer._run(), record() and insert_events().
THEOREM OthersCostSoundProxiesReportedRows == Spec => []ReportIsExact
<1>1. IInv => ReportIsExact
  <2> SUFFICES ASSUME IInv, NEW p \in Proxies, faults[p] = 0
               PROVE  /\ (lost[p] \cup dropped[p]) \cap (table \cup tx[p]) = {}
                      /\ phase[p] = "closed" =>
                            ({p} \X (1..frames[p])) \subseteq lost[p] \cup dropped[p] \cup table
                      /\ alone[p] => lost[p] = {} /\ snapshot[p] # "stale"
    BY DEF ReportIsExact
  <2>1. RowsOK(p) /\ BatchOK(p) /\ AloneOK(p) /\ PhaseOK(p)
    BY DEF IInv, SoundOK
  <2>2. phase[p] = "closed" => queue[p] = {} /\ batch[p] = {}
    BY <2>1 DEF PhaseOK, BatchOK
  <2> QED BY <2>1, <2>2 DEF RowsOK, AloneOK
<1> QED BY <1>1, Invariance, PTL

\* Somebody is at work who gives the write lock back: classify() cancelled
\* between the statement and the commit of upsert_classifier_cache(), in a
\* proxy of which no statement failed in the middle.
THEOREM AbandonedLockIsTemporary == Spec => []LockIsOnItsWayBack
<1>1. IInv => LockIsOnItsWayBack
  <2> SUFFICES ASSUME IInv, NEW p \in Proxies, lock = p, faults[p] = 0
               PROVE  \/ phase[p] \in {"starting", "patching", "draining", "ending", "closing"}
                      \/ ops[p] # <<>> \/ \E t \in Tasks : InWrite(p, t)
                      \/ stage[p]["pump"] = "forward" \/ queue[p] # {}
    BY DEF LockIsOnItsWayBack
  <2>1. TypeOK /\ LockOK(p) /\ PhaseOK(p) /\ "pump" \in Tasks /\ "writer" \in Tasks
    BY DEF IInv, SoundOK
  <2>2. phase[p] \notin Gone /\ phase[p] \notin {"spawning", "cancelling"}
    BY <2>1 DEF PhaseOK, LockOK
  <2>3. CASE phase[p] = "running"
    <3>1. \A t \in Tasks : Commits(p, t) => InWrite(p, t)
      BY DEF Commits, InWrite
    <3> HIDE DEF Tasks
    <3> QED BY <2>1, <2>3, <3>1 DEF LockOK, Recording
  <2>4. CASE phase[p] # "running"
    BY <2>1, <2>2, <2>4 DEF TypeOK, Gone
  <2> QED BY <2>3, <2>4
<1> QED BY <1>1, Invariance, PTL

-------------------------------------------------------------------------------
(* The proxies implement the writers that Follow's viewer assumes.         *)
(*                                                                         *)
(* Only the owner of the lock has rows in a transaction, none of which is  *)
(* in the table already, so that the rows of the table and those of the    *)
(* transactions can be counted apart.                                      *)

TxInv ==
    \A p \in Proxies : (tx[p] # {} => lock = p) /\ tx[p] \cap table = {}

\* Transactions exclude each other and hold what is not in the table.
LEMMA TransactionsAreApart == ASSUME IInv PROVE TxInv
BY DEF IInv, FreshOK, TxInv

\* What a step of p does to the file: nothing, a write, or the transaction's end.
LEMMA FileStep ==
    ASSUME IInv, NEW p \in Proxies, Steps(p)
    PROVE  \/ UNCHANGED <<tx, lock, table>>
           \/ /\ lock \in {Free, p} /\ lock' = p /\ table' = table
              /\ \E rows \in SUBSET AllRows :
                    /\ tx' = [tx EXCEPT ![p] = tx[p] \cup rows]
                    /\ rows \cap table = {}
           \/ /\ tx' = [tx EXCEPT ![p] = {}]
              /\ lock' = IF lock = p THEN Free ELSE lock
              /\ table' \in {table, table \cup tx[p]}
<1>1. TypeOK /\ RequestsOK(p) /\ FreshOK(p) /\ RequestsFresh(p)
  BY DEF IInv, FreshOK
<1>2. CASE Thread(p)
  <2>1. ops[p] # <<>>
    BY <1>2, ThreadAnswers
  <2>2. Head(ops[p]) = ops[p][1] /\ 1 \in DOMAIN ops[p] /\ Head(ops[p]) \in Requests
    BY <1>1, <2>1, FirstRequest
  <2>3. Head(ops[p]).rows \subseteq AllRows /\ Head(ops[p]).rows \cap table = {}
    BY <1>1, <2>2 DEF Requests, RequestsFresh
  <2> QED BY <1>1, <1>2, <2>3, ThreadFile
<1>3. CASE Close(p) \/ Die(p)
  BY <1>3 DEF Close, Die, RollBack
<1>4. CASE ~(Thread(p) \/ Close(p) \/ Die(p))
  BY <1>4 DEF Steps, StartSession, Main, MainWritten, MainCommitted, MainFailed, Spawn, SpawnFails,
     EndSession, Raise, Stop, ShutdownTimeout, Lookup, Forward, PumpGoes, Pump, LookedUp, NoLabel,
     Upsert, Upserted, UpsertEnds, Record, Overflows, BudgetEnds, Writer, Take, Inserted, Flushed,
     Dropped, FlushAgain
<1> QED BY <1>2, <1>3, <1>4

\* Finitely many proxies record finitely many rows.
LEMMA RowsAreFinite == IsFiniteSet(Proxies) => IsFiniteSet(Rows)
<1> SUFFICES ASSUME IsFiniteSet(Proxies) PROVE IsFiniteSet(Rows)
  OBVIOUS
<1> DEFINE f == [p \in Proxies |-> {p} \X (1..(2 * MaxFrames[p]))]
           T == {{p} \X (1..(2 * MaxFrames[p])) : p \in Proxies}
<1>1. f \in Surjection(Proxies, T)
  BY DEF Surjection
<1>2. IsFiniteSet(T)
  <2> HIDE DEF f, T
  <2> QED BY <1>1, FS_Surjection
<1>3. ASSUME NEW p \in Proxies PROVE IsFiniteSet({p} \X (1..(2 * MaxFrames[p])))
  <2>1. 2 * MaxFrames[p] \in Int /\ 1 \in Int
    BY FramesAssumption
  <2>2. IsFiniteSet(1..(2 * MaxFrames[p]))
    BY ONLY <2>1, FS_Interval
  <2>3. IsFiniteSet({p})
    BY FS_Singleton
  <2> QED BY <2>2, <2>3, FS_Product
<1>4. \A t \in T : IsFiniteSet(t)
  BY <1>3
<1>5. IsFiniteSet(UNION T)
  <2> HIDE DEF T
  <2> QED BY <1>2, <1>4, FS_UNION
<1> QED BY <1>5 DEF Rows

\* If all transactions but one are empty, it is that one's rows that count.
LEMMA OneTransaction ==
    ASSUME NEW f, NEW p \in Proxies, \A q \in Proxies \ {p} : f[q] = {}
    PROVE  UNION {f[q] \cap Rows : q \in Proxies} = f[p] \cap Rows
OBVIOUS

LEMMA NoTransaction ==
    ASSUME NEW f, \A q \in Proxies : f[q] = {}
    PROVE  UNION {f[q] \cap Rows : q \in Proxies} = {}
OBVIOUS

\* A step of a proxy is a step of a writer of Follow, or none.
LEMMA StepRefines ==
    ASSUME IsFiniteSet(Proxies), IInv, TxInv, TxInv', NEW p \in Proxies, Steps(p)
    PROVE  \/ Log!Insert(p) \/ Log!Finish(p)
           \/ UNCHANGED <<tx, lock, table>>
<1> DEFINE Sum(f) == UNION {f[q] \cap Rows : q \in Proxies}
<1>1. tx \in [Proxies -> SUBSET AllRows] /\ Free \notin Proxies /\ IsFiniteSet(Rows)
  BY FreeAssumption, RowsAreFinite DEF IInv, TypeOK
<1>2. \A q \in Proxies \ {p} : lock \in {Free, p} => tx[q] = {}
  BY <1>1 DEF TxInv
<1>3. lock \in {Free, p} => Sum(tx) = tx[p] \cap Rows
  BY <1>2, OneTransaction
<1>4. /\ IsFiniteSet(table \cap Rows) /\ Cardinality(table \cap Rows) \in Nat
      /\ IsFiniteSet(tx[p] \cap Rows) /\ Cardinality(tx[p] \cap Rows) \in Nat
      /\ Cardinality(Rows) \in Nat
  BY <1>1, FS_Intersection, FS_CardinalityType
<1>5. ASSUME lock \in {Free, p}, lock' = p, table' = table, NEW rows \in SUBSET AllRows,
             tx' = [tx EXCEPT ![p] = tx[p] \cup rows], rows \cap table = {}
      PROVE  Log!Insert(p)
  <2>1. \A q \in Proxies : tx'[q] = IF q = p THEN tx[p] \cup rows ELSE tx[q]
    BY <1>1, <1>5
  <2>2. Sum(tx') = (tx[p] \cup rows) \cap Rows
    <3>1. \A q \in Proxies \ {p} : tx'[q] = {}
      BY <1>2, <1>5, <2>1
    <3> QED BY <2>1, <3>1, OneTransaction
  <2> DEFINE a == Cardinality(table \cap Rows)
             b == Cardinality(tx[p] \cap Rows)
             c == Cardinality((tx[p] \cup rows) \cap Rows)
  <2>3. c \in Nat /\ b <= c
    <3>1. tx[p] \cap Rows \in SUBSET ((tx[p] \cup rows) \cap Rows)
      OBVIOUS
    <3>2. IsFiniteSet((tx[p] \cup rows) \cap Rows)
      BY <1>1, FS_Intersection
    <3> QED BY <3>1, <3>2, FS_Subset, FS_CardinalityType
  <2>4. a + c <= Cardinality(Rows)
    <3> DEFINE S == table \cap Rows
               T == (tx[p] \cup rows) \cap Rows
    <3>1. S \cap T = {}
      BY <1>5 DEF TxInv
    <3>2. IsFiniteSet(S) /\ IsFiniteSet(T) /\ S \cup T \in SUBSET Rows
      BY <1>1, FS_Intersection
    <3>3. Cardinality(S \cup T) = Cardinality(S) + Cardinality(T) - Cardinality(S \cap T)
      <4> HIDE DEF S, T
      <4> QED BY <3>2, FS_Union
    <3>4. Cardinality(S \cap T) = 0
      <4> HIDE DEF S, T
      <4> QED BY <3>1, FS_EmptySet
    <3>5. Cardinality(S \cup T) <= Cardinality(Rows)
      <4> HIDE DEF S, T
      <4> QED BY <1>1, <3>2, FS_Subset
    <3>6. Cardinality(S) + Cardinality(T) <= Cardinality(Rows)
      <4>1. Cardinality(S) \in Nat /\ Cardinality(T) \in Nat
        <5> HIDE DEF S, T
        <5> QED BY <3>2, FS_CardinalityType
      <4> HIDE DEF S, T
      <4> QED BY <3>3, <3>4, <3>5, <4>1
    <3> QED BY <3>6
  <2>5. \E n \in 0..(Cardinality(Rows) - a - b) : c = b + n
    <3>1. a \in Nat /\ b \in Nat /\ Cardinality(Rows) \in Nat
      BY <1>4
    <3> HIDE DEF a, b, c
    <3>2. c - b \in 0..(Cardinality(Rows) - a - b) /\ c = b + (c - b)
      BY <2>3, <2>4, <3>1
    <3> QED BY <3>2
  <2>6. /\ Sum(tx) = tx[p] \cap Rows
        /\ Cardinality(Sum(tx)) = b /\ Cardinality(Sum(tx')) = c
    BY <1>3, <1>5, <2>2
  <2> QED BY <1>5, <2>5, <2>6 DEF Log!Insert, Log!viewer, Log!Free
<1>6. ASSUME lock = p, lock' = Free, tx' = [tx EXCEPT ![p] = {}],
             table' \in {table, table \cup tx[p]}
      PROVE  Log!Finish(p)
  <2>1. \A q \in Proxies : tx'[q] = {}
    BY <1>1, <1>2, <1>6
  <2>2. Sum(tx') = {} /\ Sum(tx) = tx[p] \cap Rows
    BY <1>3, <1>6, <2>1, NoTransaction
  <2>3. Cardinality(Sum(tx')) = 0
    BY <2>2, FS_EmptySet
  <2>4. Cardinality((table \cup tx[p]) \cap Rows) =
            Cardinality(table \cap Rows) + Cardinality(tx[p] \cap Rows)
    <3> DEFINE S == table \cap Rows
               T == tx[p] \cap Rows
    <3>1. S \cap T = {} /\ (table \cup tx[p]) \cap Rows = S \cup T
      BY DEF TxInv
    <3>2. IsFiniteSet(S) /\ IsFiniteSet(T)
      BY <1>4
    <3>3. Cardinality(S) \in Nat /\ Cardinality(T) \in Nat
      BY <1>4
    <3>4. Cardinality(S \cup T) = Cardinality(S) + Cardinality(T) - Cardinality(S \cap T)
      <4> HIDE DEF S, T
      <4> QED BY <3>2, FS_Union
    <3>5. Cardinality(S \cap T) = 0
      <4> HIDE DEF S, T
      <4> QED BY <3>1, FS_EmptySet
    <3>6. Cardinality(S \cup T) = Cardinality(S) + Cardinality(T)
      <4> HIDE DEF S, T
      <4> QED BY <3>3, <3>4, <3>5
    <3> QED BY <3>1, <3>6
  <2>5. /\ Cardinality(Sum(tx)) = Cardinality(tx[p] \cap Rows)
        /\ Cardinality(table' \cap Rows) \in
             {Cardinality(table \cap Rows),
              Cardinality(table \cap Rows) + Cardinality(tx[p] \cap Rows)}
    BY <1>6, <2>2, <2>4
  <2> QED BY <1>6, <2>3, <2>5 DEF Log!Finish, Log!viewer, Log!Free
<1>7. CASE /\ tx' = [tx EXCEPT ![p] = {}]
           /\ lock' = IF lock = p THEN Free ELSE lock
           /\ table' \in {table, table \cup tx[p]}
  <2>1. CASE lock = p
    BY <1>6, <1>7, <2>1
  <2>2. CASE lock # p
    <3>1. tx[p] = {}
      BY <2>2 DEF TxInv
    <3>2. tx' = tx /\ table' = table /\ lock' = lock
      BY <1>1, <1>7, <2>2, <3>1
    <3> QED BY <3>2
  <2> QED BY <2>1, <2>2
<1> QED BY <1>5, <1>7, FileStep

\* Any number of proxies on one file, with their cancelled, failing and dying
\* transactions, write it as the viewer of Follow assumes: one at a time, and
\* what one has written comes into view at once or not at all.
THEOREM ProxiesAreWriters ==
    ASSUME IsFiniteSet(Proxies)
    PROVE  Spec => ImplementsWriters
<1>1. Init => Log!Init
  <2> SUFFICES ASSUME Init PROVE Log!Init
    OBVIOUS
  <2>1. table \cap Rows = {} /\ \A q \in Proxies : tx[q] = {}
    BY DEF Init
  <2>2. UNION {tx[q] \cap Rows : q \in Proxies} = {}
    BY <2>1, NoTransaction
  <2>3. Cardinality(table \cap Rows) = 0 /\ Cardinality(UNION {tx[q] \cap Rows : q \in Proxies}) = 0
    BY <2>1, <2>2, FS_EmptySet
  <2>4. Cardinality(Rows) \in Nat
    BY RowsAreFinite, FS_CardinalityType
  <2>5. lock = Free
    BY DEF Init
  <2> QED BY <2>3, <2>4, <2>5 DEF Log!Init, Log!Free
<1>2. IInv /\ TxInv /\ TxInv' /\ [Next]_vars =>
        [Log!Write]_(Log!written)
  <2> SUFFICES ASSUME IInv, TxInv, TxInv', [Next]_vars
               PROVE  \/ \E w \in Proxies : Log!Insert(w) \/ Log!Finish(w)
                      \/ UNCHANGED <<tx, lock, table>>
    BY DEF Log!Write, Log!written
  <2>1. CASE \E p \in Proxies : Steps(p)
    BY <2>1, StepRefines
  <2>2. CASE UNCHANGED vars
    BY <2>2
  <2> QED BY <2>1, <2>2 DEF Next, Steps, AllGone
<1>3. IInv => TxInv
  BY TransactionsAreApart
<1> QED BY <1>1, <1>2, <1>3, Invariance, PTL
        DEF Spec, Log!WritersSpec, ImplementsWriters
===============================================================================
