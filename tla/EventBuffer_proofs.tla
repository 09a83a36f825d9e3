-------------------------- MODULE EventBuffer_proofs --------------------------
(***************************************************************************)
(* Proofs about EventBuffer for every queue size, batch size, number of    *)
(* events and set of faults.                                               *)
(*                                                                         *)
(* TypeOK is not inductive: a wake-up may exceed the batch size unless the *)
(* batch is empty while the writer waits, and Stop is the last element of  *)
(* the queue only because nobody records once shutdown() has put it there. *)
(* TypeInv adds these two facts.                                           *)
(*                                                                         *)
(* The results are the types, the order of the log, that no accepted event *)
(* is lost without a report or stored more than twice, that the session    *)
(* ends last, and that the log implements AuditLog.                        *)
(***************************************************************************)
EXTENDS EventBuffer, FiniteSetTheorems, SequenceTheorems, WellFoundedInduction, TLAPS

BatchEmptyAtGet == writer = "get" => batch = <<>>

NoStopYet ==
    proxy \in Running \cup {"stopping"} => \A i \in DOMAIN queue : queue[i] # Stop

TypeInv == TypeOK /\ BatchEmptyAtGet /\ NoStopYet

-------------------------------------------------------------------------------
(* How the parts of an action keep the types of what they write.           *)

\* A submitted operation goes to the end of the request queue, and the queue
\* keeps its type.
LEMMA SubmitType ==
    ASSUME ChannelOK, NEW kind \in {"insert", "upsert", "end", "commit"},
           NEW rows \in Seq(Nat), Rows(rows), NEW by \in Users,
           Submit(kind, rows, by), offered' = offered
    PROVE  /\ ChannelOK'
           /\ Len(ops') = Len(ops) + 1
           /\ \A i \in 1..Len(ops) : ops'[i] = ops[i]
           /\ ops'[Len(ops) + 1] = Op(kind, rows, by)
<1> DEFINE op == Op(kind, rows, by)
<1>1. op \in Request
  BY DEF Op, Request
<1>2. ops \in Seq(Request) /\ ops' = Append(ops, op)
  BY DEF ChannelOK, Submit
<1>3. /\ ops' \in Seq(Request) /\ Len(ops') = Len(ops) + 1
      /\ \A i \in 1..Len(ops) : ops'[i] = ops[i]
      /\ ops'[Len(ops) + 1] = op
  <2> HIDE DEF op
  <2> QED BY <1>1, <1>2
<1>4. (\A i \in DOMAIN ops : Rows(ops[i].rows))'
  <2>1. op.rows = rows
    BY DEF Op
  <2>2. \A i \in 1..Len(ops) : \A j \in DOMAIN (ops'[i].rows) : ops'[i].rows[j] \in 1..offered'
    BY <1>2, <1>3 DEF ChannelOK, Rows, Row
  <2> QED BY <1>2, <1>3, <2>1, <2>2 DEF Rows, Row
<1>5. reply' \in [Users -> {"none", "ok", "err"}]
  BY DEF ChannelOK, Submit
<1> QED
  <2> HIDE DEF op
  <2>1. ChannelOK'
    BY <1>3, <1>4, <1>5 DEF ChannelOK
  <2> QED BY <1>3, <2>1 DEF op

\* Orphaned requests keep everything but the one who waits for them.
LEMMA OrphanedType ==
    ASSUME ChannelOK, NEW by \in Users
    PROVE  /\ Orphaned(by) \in Seq(Request)
           /\ Len(Orphaned(by)) = Len(ops)
           /\ \A i \in 1..Len(ops) :
                /\ Orphaned(by)[i].rows = ops[i].rows
                /\ Orphaned(by)[i].kind = ops[i].kind
                /\ Orphaned(by)[i].by = IF ops[i].by = by THEN "nobody" ELSE ops[i].by
<1>1. ops \in Seq(Request) /\ DOMAIN ops = 1..Len(ops) /\ Len(ops) \in Nat
  BY DEF ChannelOK
<1>2. \A i \in 1..Len(ops) : ops[i] \in Request
  BY <1>1
<1>3. \A i \in 1..Len(ops) :
        /\ Orphaned(by)[i] \in Request
        /\ Orphaned(by)[i].rows = ops[i].rows
        /\ Orphaned(by)[i].kind = ops[i].kind
        /\ Orphaned(by)[i].by = IF ops[i].by = by THEN "nobody" ELSE ops[i].by
  BY <1>1, <1>2 DEF Orphaned, Request
<1>4. Orphaned(by) \in [1..Len(ops) -> Request]
  BY <1>1, <1>3 DEF Orphaned
<1> QED BY <1>1, <1>3, <1>4

\* The thread's answer takes the first request and keeps the types.
LEMMA AnswerType ==
    ASSUME ChannelOK, ops # <<>>, NEW result \in {"ok", "err"}, Answer(result),
           offered' = offered
    PROVE  /\ ChannelOK'
           /\ Head(ops) \in Request /\ Rows(Head(ops).rows)
           /\ Head(ops) = ops[1]
           /\ Len(ops') = Len(ops) - 1
           /\ \A i \in 1..Len(ops') : ops'[i] = ops[i + 1]
<1>1. /\ ops \in Seq(Request) /\ Len(ops) \in Nat \ {0} /\ DOMAIN ops = 1..Len(ops)
      /\ ops' = Tail(ops)
  BY DEF ChannelOK, Answer
<1>2. /\ ops' \in Seq(Request) /\ Len(ops') = Len(ops) - 1
      /\ \A i \in 1..Len(ops') : ops'[i] = ops[i + 1]
      /\ Head(ops) = ops[1] /\ ops[1] \in Request
  BY <1>1
<1>3. (\A i \in DOMAIN ops : Rows(ops[i].rows))'
  BY <1>1, <1>2 DEF ChannelOK, Rows, Row
<1>4. reply' \in [Users -> {"none", "ok", "err"}]
  BY DEF ChannelOK, Answer
<1>5. Rows(ops[1].rows)
  BY <1>1 DEF ChannelOK
<1> QED BY <1>2, <1>3, <1>4, <1>5 DEF ChannelOK

-------------------------------------------------------------------------------
(* Type correctness.                                                       *)

\* record() keeps the types: an event gets a fresh number, and the queue a
\* new element only while it has room and no Stop.
LEMMA RecordType == TypeInv /\ Record => TypeInv'
<1> SUFFICES ASSUME TypeInv, Record PROVE TypeInv'
  OBVIOUS
<1> USE DEF TypeInv, TypeOK
<1>1. /\ offered \in Nat /\ offered' = offered + 1 /\ proxy \in Running /\ proxy' = proxy
      /\ 1..offered \subseteq 1..offered' /\ offered' \in 1..offered'
      /\ UNCHANGED <<task, channel, db, upserts>>
  BY DEF Record, QueueOK
<1>2. QueueOK' /\ NoStopYet'
  <2>1. CASE Enqueue
    <3>1. /\ queue \in Seq(Nat \cup {Stop}) /\ queue' = Append(queue, offered')
          /\ Len(queue) < QueueMax
      BY <2>1 DEF Enqueue, QueueOK
    <3>2. /\ queue' \in Seq(Nat \cup {Stop}) /\ Len(queue') = Len(queue) + 1
          /\ \A i \in 1..Len(queue) : queue'[i] = queue[i]
          /\ queue'[Len(queue) + 1] = offered'
      BY <1>1, <3>1
    <3>3. /\ \A i \in 1..Len(queue) : queue[i] # Stop /\ queue[i] \in 1..offered
          /\ offered' # Stop
      BY <1>1, <3>1, StopAssumption DEF QueueOK, NoStopYet, Row
    <3>4. \A i \in DOMAIN queue' : queue'[i] # Stop /\ queue'[i] \in 1..offered'
      BY <1>1, <3>1, <3>2, <3>3
    <3>5. accepted' \subseteq 1..offered' /\ dropped' \in 0..offered'
      BY <1>1, <2>1 DEF Enqueue, QueueOK
    <3> QED BY <1>1, <3>1, <3>2, <3>4, <3>5, SizesAssumption DEF QueueOK, NoStopYet, Row
  <2>2. CASE CountDrop
    BY <1>1, <2>2 DEF CountDrop, QueueOK, NoStopYet, Row
  <2> QED BY <2>1, <2>2 DEF Record
<1>3. TaskOK' /\ BatchEmptyAtGet'
  BY <1>1 DEF TaskOK, BatchEmptyAtGet, task, Rows, Row
<1>4. ProxyOK'
  BY <1>1 DEF ProxyOK
<1>5. ChannelOK'
  BY <1>1 DEF ChannelOK, channel, Rows, Row
<1>6. DbOK'
  BY <1>1 DEF DbOK, db, Rows, Row
<1> QED BY <1>2, <1>3, <1>4, <1>5, <1>6

\* What a wake-up of the writer takes from the queue: at most a batch of
\* events from its front, and Stop only when nothing else is left.
LEMMA TakeParts ==
    ASSUME QueueOK, queue # <<>>
    PROVE  /\ TakeCount \in 0..Len(queue) /\ TakeCount <= BatchSize
           /\ \A i \in 1..TakeCount : queue[i] # Stop
           /\ SubSeq(queue, 1, TakeCount) \in Seq(Nat)
           /\ Len(SubSeq(queue, 1, TakeCount)) = TakeCount
           /\ \A i \in 1..TakeCount : SubSeq(queue, 1, TakeCount)[i] = queue[i]
           /\ TakeCount = 0 => SeesStop
           /\ SeesStop => Len(queue) = TakeCount + 1 /\ queue[Len(queue)] = Stop
<1>1. /\ queue \in Seq(Nat \cup {Stop})
      /\ \A i \in 1..Len(queue) : queue[i] \in Nat \cup {Stop}
  BY DEF QueueOK
<1>2. Len(queue) \in Nat \ {0} /\ BatchSize \in Nat \ {0}
  BY <1>1, SizesAssumption
<1>3. \A i \in 1..Len(queue) : queue[i] = Stop => i = Len(queue)
  BY <1>1 DEF QueueOK
<1> DEFINE Goal ==
      /\ TakeCount \in 0..Len(queue) /\ TakeCount <= BatchSize
      /\ \A i \in 1..TakeCount : queue[i] # Stop
      /\ TakeCount = 0 => SeesStop
      /\ SeesStop => Len(queue) = TakeCount + 1 /\ queue[Len(queue)] = Stop
<1>4. ASSUME queue[Len(queue)] = Stop PROVE Goal
  <2>1. StopQueued /\ Available = Len(queue) - 1
    BY <1>4 DEF StopQueued, Available
  <2>2. CASE Len(queue) - 1 < BatchSize
    <3>1. TakeCount = Len(queue) - 1 /\ SeesStop
      BY <2>1, <2>2 DEF TakeCount, SeesStop
    <3>2. /\ TakeCount \in 0..Len(queue) /\ TakeCount <= BatchSize
          /\ Len(queue) = TakeCount + 1
      BY <1>2, <2>2, <3>1
    <3>3. \A i \in 1..TakeCount : i \in 1..Len(queue) /\ i # Len(queue)
      BY <1>2, <3>2
    <3>4. \A i \in 1..TakeCount : queue[i] # Stop
      BY <1>3, <3>3
    <3> QED BY <1>4, <3>1, <3>2, <3>4
  <2>3. CASE ~(Len(queue) - 1 < BatchSize)
    <3>1. TakeCount = BatchSize /\ ~SeesStop
      BY <2>1, <2>3 DEF TakeCount, SeesStop
    <3>2. TakeCount \in 1..Len(queue) /\ TakeCount <= BatchSize /\ TakeCount # 0
      BY <1>2, <2>3, <3>1
    <3>3. \A i \in 1..TakeCount : i \in 1..Len(queue) /\ i # Len(queue)
      BY <1>2, <2>3, <3>1
    <3>4. \A i \in 1..TakeCount : queue[i] # Stop
      BY <1>3, <3>3
    <3>5. TakeCount \in 0..Len(queue)
      BY <1>2, <3>2
    <3> QED BY <3>1, <3>2, <3>4, <3>5
  <2> QED BY <2>2, <2>3
<1>5. ASSUME queue[Len(queue)] # Stop PROVE Goal
  <2>1. Available = Len(queue) /\ ~SeesStop
    BY <1>5 DEF StopQueued, Available, SeesStop
  <2>2. TakeCount \in 1..Len(queue) /\ TakeCount <= BatchSize
    BY <1>2, <2>1 DEF TakeCount
  <2>3. TakeCount \in 0..Len(queue) /\ TakeCount # 0
    BY <1>2, <2>2
  <2>4. \A i \in 1..TakeCount : i \in 1..Len(queue)
    BY <1>2, <2>2
  <2>5. \A i \in 1..TakeCount : queue[i] # Stop
    BY <1>3, <1>5, <2>4
  <2> QED BY <2>1, <2>2, <2>3, <2>5
<1>6. Goal
  BY <1>4, <1>5
<1>7. \A i \in 1..TakeCount : i \in 1..Len(queue)
  BY <1>2, <1>6
<1>8. \A i \in 1..TakeCount : queue[i] \in Nat
  BY <1>1, <1>6, <1>7
<1>9. /\ SubSeq(queue, 1, TakeCount) \in Seq(Nat)
      /\ Len(SubSeq(queue, 1, TakeCount)) = TakeCount
      /\ \A i \in 1..TakeCount : SubSeq(queue, 1, TakeCount)[i] = queue[i]
  <2> DEFINE n == TakeCount
             q == SubSeq(queue, 1, n)
  <2>1. n \in 0..Len(queue) /\ \A i \in 1..n : queue[i] \in Nat
    BY <1>6, <1>8
  <2> HIDE DEF n
  <2>2. q \in Seq(Nat \cup {Stop}) /\ Len(q) = n /\ \A i \in 1..n : q[i] = queue[i]
    BY <1>1, <1>2, <2>1
  <2>3. \A i \in 1..Len(q) : q[i] \in Nat
    BY <2>1, <2>2
  <2>4. q \in Seq(Nat)
    <3> HIDE DEF q
    <3>1. q = [i \in 1..Len(q) |-> q[i]] /\ Len(q) \in Nat
      BY <2>2
    <3>2. q \in [1..Len(q) -> Nat]
      BY <2>3, <3>1
    <3> QED BY <3>1, <3>2
  <2> QED BY <2>2, <2>4 DEF n
<1> QED BY <1>6, <1>9

\* The writer's wake-up keeps the types.
LEMMA TakeType == TypeInv /\ Take => TypeInv'
<1> SUFFICES ASSUME TypeInv, Take PROVE TypeInv'
  OBVIOUS
<1> USE DEF TypeInv, TypeOK
<1> DEFINE n == TakeCount
           taken == SubSeq(queue, 1, TakeCount)
<1>1. /\ writer = "get" /\ batch = <<>> /\ queue # <<>>
      /\ queue \in Seq(Nat \cup {Stop}) /\ Len(queue) \in Nat
  BY DEF Take, BatchEmptyAtGet, QueueOK
<1>2. /\ n \in 0..Len(queue) /\ n <= BatchSize
      /\ \A i \in 1..n : queue[i] # Stop
      /\ taken \in Seq(Nat) /\ Len(taken) = n
      /\ \A i \in 1..n : taken[i] = queue[i]
  BY <1>1, TakeParts
<1>3. batch' = taken
  <2>1. batch' = batch \o taken
    BY DEF Take
  <2> HIDE DEF taken
  <2> QED BY <1>1, <1>2, <2>1
<1>4. \A i \in 1..n : queue[i] \in 1..offered
  <2> HIDE DEF n
  <2>1. \A i \in 1..n : i \in DOMAIN queue
    BY <1>1, <1>2
  <2> QED BY <1>2, <2>1 DEF QueueOK, Row
<1>5. Rows(batch') /\ batch' \in Seq(Nat) /\ Len(batch') <= BatchSize
  <2> HIDE DEF n, taken
  <2> QED BY <1>2, <1>3, <1>4 DEF Rows, Row
<1>6. /\ offered' = offered /\ dropped' = dropped /\ accepted' = accepted
      /\ flushed' = flushed /\ failed' = failed /\ cancelled' = cancelled
      /\ proxy' = proxy /\ upserts' = upserts
      /\ UNCHANGED db
  BY DEF Take
<1>7. QueueOK' /\ NoStopYet'
  <2>1. CASE SeesStop
    <3>1. queue' = <<>>
      BY <2>1 DEF Take
    <3>2. /\ queue' \in Seq(Nat \cup {Stop}) /\ Len(queue') <= QueueMax
          /\ DOMAIN queue' = {}
      BY <3>1, SizesAssumption
    <3>3. QueueOK'
      BY <1>6, <3>2 DEF QueueOK
    <3> QED BY <3>2, <3>3 DEF NoStopYet
  <2>2. CASE ~SeesStop
    <3> DEFINE q == SubSeq(queue, n + 1, Len(queue))
    <3>1. queue' = q
      BY <2>2 DEF Take
    <3>2. /\ q \in Seq(Nat \cup {Stop}) /\ Len(q) = Len(queue) - n
          /\ \A i \in 1..Len(q) : q[i] = queue[i + n]
      <4> HIDE DEF n
      <4> QED BY <1>1, <1>2
    <3> HIDE DEF n, q
    <3>3. \A i \in 1..Len(q) : i + n \in 1..Len(queue) /\ (i + n = Len(queue) => i = Len(q))
      BY <1>1, <1>2, <3>2
    <3>4. Len(q) <= QueueMax
      BY <1>1, <1>2, <3>2, SizesAssumption DEF QueueOK
    <3>5. \A i \in 1..Len(q) : /\ q[i] # Stop => q[i] \in 1..offered
                               /\ q[i] = Stop => i = Len(q)
      BY SMTT(30), <1>1, <3>2, <3>3 DEF QueueOK, Row
    <3>6. proxy \in Running \cup {"stopping"} => \A i \in 1..Len(q) : q[i] # Stop
      BY <1>1, <3>2, <3>3 DEF NoStopYet
    <3>7. QueueOK'
      BY <1>6, <3>1, <3>2, <3>4, <3>5 DEF QueueOK, Row
    <3>8. NoStopYet'
      BY <1>6, <3>1, <3>2, <3>6 DEF NoStopYet
    <3> QED BY <3>7, <3>8
  <2> QED BY <2>1, <2>2
<1>8. (writer' = "done" /\ UNCHANGED channel)
      \/ (writer' = "insert" /\ Submit("insert", batch', "writer"))
  BY DEF Take
<1>9. TaskOK' /\ BatchEmptyAtGet'
  <2>1. stopping' \in BOOLEAN
    BY DEF Take, SeesStop, StopQueued
  <2> QED BY <1>5, <1>6, <1>8, <2>1 DEF TaskOK, BatchEmptyAtGet, Rows, Row
<1>10. ChannelOK'
  <2>1. CASE UNCHANGED channel
    BY <1>6, <2>1 DEF ChannelOK, channel, Rows, Row
  <2>2. CASE Submit("insert", batch', "writer")
    <3>1. batch' \in Seq(Nat) /\ Rows(batch')
      BY <1>5
    <3>2. Rows(taken)
      BY <1>3, <3>1
    <3> QED BY <1>2, <1>3, <1>6, <2>2, <3>2, SubmitType DEF Users
  <2> QED BY <1>8, <2>1, <2>2
<1>11. ProxyOK' /\ DbOK'
  BY <1>6 DEF ProxyOK, DbOK, db, Rows, Row
<1> QED BY <1>7, <1>9, <1>10, <1>11

\* The writer's other steps, with the end of a flush.
LEMMA WriterType == TypeInv /\ (Inserted \/ Committed \/ FlushFailed) => TypeInv'
<1> SUFFICES ASSUME TypeInv, Inserted \/ Committed \/ FlushFailed PROVE TypeInv'
  OBVIOUS
<1> USE DEF TypeInv, TypeOK
<1>1. /\ UNCHANGED <<buffer, proxy, db, upserts>>
      /\ offered' = offered /\ queue' = queue
      /\ stopping' = stopping /\ cancelled' = cancelled
  BY DEF Inserted, Committed, FlushFailed, EndFlush, buffer
<1>2. QueueOK' /\ NoStopYet' /\ ProxyOK' /\ DbOK'
  BY <1>1 DEF QueueOK, NoStopYet, ProxyOK, DbOK, buffer, db, Rows, Row
<1>3. \A i \in DOMAIN batch : batch[i] \in 1..offered
  BY DEF TaskOK, Rows, Row
<1>4. Range(batch) \subseteq 1..offered
  BY <1>3 DEF Range
<1>5. CASE Inserted
  <2>1. /\ writer' = "commit" /\ batch' = batch /\ flushed' = flushed /\ failed' = failed
        /\ Submit("commit", <<>>, "writer")
    BY <1>5 DEF Inserted
  <2>2. TaskOK' /\ BatchEmptyAtGet'
    BY <1>1, <2>1 DEF TaskOK, BatchEmptyAtGet, Rows, Row
  <2>3. <<>> \in Seq(Nat) /\ Rows(<<>>)
    BY DEF Rows
  <2>4. ChannelOK'
    BY <1>1, <2>1, <2>3, SubmitType DEF Users
  <2> QED BY <1>2, <2>2, <2>4
<1>6. CASE Committed \/ FlushFailed
  <2>1. /\ batch' = <<>> /\ writer' \in {"get", "done"} /\ UNCHANGED channel
        /\ flushed' \subseteq flushed \cup Range(batch)
        /\ failed' \subseteq failed \cup Range(batch)
    BY <1>6 DEF Committed, FlushFailed, EndFlush
  <2>2. flushed' \subseteq 1..offered' /\ failed' \subseteq 1..offered'
    BY <1>1, <1>4, <2>1 DEF TaskOK
  <2>3. Rows(batch)' /\ batch' \in Seq(Nat) /\ Len(batch') <= BatchSize
    BY <2>1, SizesAssumption DEF Rows
  <2>4. TaskOK' /\ BatchEmptyAtGet'
    BY <1>1, <2>1, <2>2, <2>3 DEF TaskOK, BatchEmptyAtGet
  <2>5. ChannelOK'
    BY <1>1, <2>1 DEF ChannelOK, channel, Rows, Row
  <2> QED BY <1>2, <2>4, <2>5
<1> QED BY <1>5, <1>6

\* The thread moves rows from the requests to the transaction and from there
\* to the table.
LEMMA ThreadType == TypeInv /\ Thread => TypeInv'
<1> SUFFICES ASSUME TypeInv, Thread PROVE TypeInv'
  OBVIOUS
<1> USE DEF TypeInv, TypeOK
<1>1. /\ UNCHANGED <<buffer, task, proxy, upserts>> /\ offered' = offered
      /\ ops # <<>> /\ \E result \in {"ok", "err"} : Answer(result)
  BY DEF Thread, ExecWrite, ExecRowFails, ExecRollsBack, ExecCommit, ExecCommitFails,
         buffer
<1>2. QueueOK' /\ NoStopYet' /\ ProxyOK' /\ TaskOK' /\ BatchEmptyAtGet'
  BY <1>1 DEF QueueOK, NoStopYet, ProxyOK, TaskOK, BatchEmptyAtGet, buffer, task, Rows, Row
<1>3. ChannelOK' /\ Head(ops) \in Request /\ Rows(Head(ops).rows)
  BY <1>1, AnswerType
<1> DEFINE rows == Head(ops).rows
<1>4. /\ rows \in Seq(Nat) /\ \A i \in DOMAIN rows : rows[i] \in 1..offered
      /\ tx \in Seq(Nat) /\ \A i \in DOMAIN tx : tx[i] \in 1..offered
      /\ table \in Seq(Nat) /\ \A i \in DOMAIN table : table[i] \in 1..offered
  BY <1>3 DEF Request, DbOK, Rows, Row
<1>5. DbOK'
  <2>1. ASSUME NEW k \in 0..Len(rows), tx' = tx \o SubSeq(rows, 1, k),
               inTx' = TRUE, table' = table,
               session' \in {"open", "written", "ended"}
        PROVE  DbOK'
    <3> HIDE DEF rows
    <3>1. /\ SubSeq(rows, 1, k) \in Seq(Nat)
          /\ \A i \in DOMAIN SubSeq(rows, 1, k) : SubSeq(rows, 1, k)[i] \in 1..offered
      BY <1>4
    <3>2. tx' \in Seq(Nat) /\ \A i \in DOMAIN tx' : tx'[i] \in 1..offered
      BY <1>4, <2>1, <3>1
    <3> QED BY <1>1, <1>4, <2>1, <3>2 DEF DbOK, Rows, Row
  <2>2. CASE ExecWrite
    <3>1. /\ tx' = tx \o rows /\ inTx' = TRUE /\ table' = table
          /\ session' \in {"open", "written", "ended"}
      BY <2>2 DEF ExecWrite, DbOK
    <3> HIDE DEF rows
    <3>2. tx' \in Seq(Nat) /\ \A i \in DOMAIN tx' : tx'[i] \in 1..offered
      BY <1>4, <3>1
    <3> QED BY <1>1, <1>4, <3>1, <3>2 DEF DbOK, Rows, Row
  <2>3. CASE ExecRowFails
    <3>1. /\ \E k \in 0..Len(rows) : tx' = tx \o SubSeq(rows, 1, k)
          /\ inTx' = TRUE /\ table' = table
          /\ session' \in {"open", "written", "ended"}
      BY <2>3 DEF ExecRowFails, DbOK
    <3> QED BY <2>1, <3>1
  <2>4. CASE ExecRollsBack
    <3>1. /\ tx' = <<>> /\ inTx' = FALSE /\ table' = table
          /\ session' \in {"open", "written", "ended"}
      BY <2>4 DEF ExecRollsBack, UndoneSession, DbOK
    <3>2. tx' \in Seq(Nat) /\ DOMAIN tx' = {}
      BY <3>1
    <3> QED BY <1>1, <1>4, <3>1, <3>2 DEF DbOK, Rows, Row
  <2>5. CASE ExecCommit
    <3>1. /\ tx' = <<>> /\ inTx' = FALSE /\ table' = table \o tx
          /\ session' \in {"open", "written", "ended"}
      BY <2>5 DEF ExecCommit, DbOK
    <3>2. table' \in Seq(Nat) /\ \A i \in DOMAIN table' : table'[i] \in 1..offered
      BY <1>4, <3>1
    <3>3. tx' \in Seq(Nat) /\ DOMAIN tx' = {}
      BY <3>1
    <3> QED BY <1>1, <3>1, <3>2, <3>3 DEF DbOK, Rows, Row
  <2>6. CASE ExecCommitFails
    BY <1>1, <2>6 DEF ExecCommitFails, DbOK, db, Rows, Row
  <2> QED BY <2>2, <2>3, <2>4, <2>5, <2>6 DEF Thread
<1> QED BY <1>2, <1>3, <1>5

\* The cache writes of the pumps use the connection and nothing else.
LEMMA UpsertType ==
    TypeInv /\ (Upsert \/ Upserted \/ UpsertCommitted \/ UpsertCancelled) => TypeInv'
<1> SUFFICES ASSUME TypeInv, Upsert \/ Upserted \/ UpsertCommitted \/ UpsertCancelled
             PROVE  TypeInv'
  OBVIOUS
<1> USE DEF TypeInv, TypeOK
<1>1. /\ UNCHANGED <<buffer, task, db>> /\ offered' = offered /\ queue' = queue
      /\ proxy \in Running /\ proxy' \in Running /\ upserts' \in Nat
  BY DEF Upsert, Upserted, UpsertCommitted, UpsertCancelled, Running, ProxyOK, buffer
<1>2. QueueOK' /\ NoStopYet' /\ TaskOK' /\ BatchEmptyAtGet' /\ ProxyOK' /\ DbOK'
  BY <1>1 DEF QueueOK, NoStopYet, TaskOK, BatchEmptyAtGet, ProxyOK, DbOK,
              buffer, task, db, Rows, Row
<1>3. ChannelOK'
  <2>1. CASE UNCHANGED channel
    BY <1>1, <2>1 DEF ChannelOK, channel, Rows, Row
  <2>2. ASSUME NEW kind \in {"upsert", "commit"}, Submit(kind, <<>>, "proxy")
        PROVE  ChannelOK'
    <3>1. <<>> \in Seq(Nat) /\ Rows(<<>>)
      BY DEF Rows
    <3> QED BY <1>1, <2>2, <3>1, SubmitType DEF Users
  <2>3. CASE UpsertCancelled
    <3>1. ops' = Orphaned("proxy") /\ reply' = reply
      BY <2>3 DEF UpsertCancelled
    <3> QED BY <1>1, <3>1, OrphanedType DEF ChannelOK, Users, Rows, Row
  <2> QED BY <2>1, <2>2, <2>3 DEF Upsert, Upserted, UpsertCommitted, channel
<1> QED BY <1>2, <1>3

\* Shutting down adds Stop to the queue, once, and may send the writer's batch
\* a second time.
LEMMA ShutdownType ==
    TypeInv /\ (BeginShutdown \/ Shutdown \/ ShutdownTimeout \/ Closed) => TypeInv'
<1> SUFFICES ASSUME TypeInv, BeginShutdown \/ Shutdown \/ ShutdownTimeout \/ Closed
             PROVE  TypeInv'
  OBVIOUS
<1> USE DEF TypeInv, TypeOK
<1>1. offered' = offered
  BY DEF BeginShutdown, Shutdown, PutStop, WriterJoined, SessionWritten,
         SessionCommitted, CloseStorage, ShutdownTimeout, Closed, buffer, vars
<1>2. <<>> \in Seq(Nat) /\ Rows(<<>>)
  BY DEF Rows
<1>3. CASE BeginShutdown \/ Closed
  <2>1. /\ UNCHANGED <<buffer, task, channel, db, upserts>>
        /\ proxy' \in {"stopping", "closed"} /\ (proxy' = "stopping" => proxy = "running")
    BY <1>3 DEF BeginShutdown, Closed, vars
  <2>2. QueueOK' /\ ProxyOK' /\ NoStopYet'
    BY <1>1, <2>1 DEF QueueOK, NoStopYet, ProxyOK, Running, buffer, Row
  <2>3. TaskOK' /\ BatchEmptyAtGet'
    BY <1>1, <2>1 DEF TaskOK, BatchEmptyAtGet, task, Rows, Row
  <2>4. ChannelOK' /\ DbOK'
    BY <1>1, <2>1 DEF ChannelOK, DbOK, channel, db, Rows, Row
  <2> QED BY <2>2, <2>3, <2>4
<1>4. CASE PutStop
  <2>1. /\ UNCHANGED <<dropped, offered, accepted, task, channel, db, upserts>>
        /\ proxy = "stopping" /\ proxy' = "waiting"
        /\ Len(queue) < QueueMax /\ queue' = Append(queue, Stop)
    BY <1>4 DEF PutStop
  <2>2. queue \in Seq(Nat \cup {Stop}) /\ Len(queue) \in Nat
    BY DEF QueueOK
  <2>3. /\ queue' \in Seq(Nat \cup {Stop}) /\ Len(queue') = Len(queue) + 1
        /\ \A i \in 1..Len(queue) : queue'[i] = queue[i]
        /\ queue'[Len(queue) + 1] = Stop
    BY <2>1, <2>2
  <2>4. \A i \in 1..Len(queue) : queue[i] # Stop /\ queue[i] \in 1..offered
    BY <2>1, <2>2 DEF NoStopYet, QueueOK, Row
  <2>5. QueueOK'
    <3>1. \A i \in DOMAIN queue' : /\ queue'[i] # Stop => queue'[i] \in 1..offered
                                   /\ queue'[i] = Stop => i = Len(queue')
      BY <2>2, <2>3, <2>4
    <3>2. Len(queue') <= QueueMax
      BY <2>1, <2>2, <2>3, SizesAssumption
    <3> QED BY <2>1, <2>3, <3>1, <3>2 DEF QueueOK, Row
  <2> QED BY <2>1, <2>5 DEF NoStopYet, TaskOK, BatchEmptyAtGet, ProxyOK, ChannelOK,
              DbOK, Running, task, channel, db, Rows, Row
<1>5. CASE WriterJoined \/ SessionWritten \/ SessionCommitted
  <2>1. /\ UNCHANGED <<buffer, task, db, upserts>>
        /\ proxy' \in {"ending", "endcommit", "closing"}
        /\ \/ UNCHANGED channel
           \/ \E kind \in {"end", "commit"} : Submit(kind, <<>>, "proxy")
    BY <1>5 DEF WriterJoined, SessionWritten, SessionCommitted
  <2>2. ChannelOK'
    <3>1. CASE UNCHANGED channel
      BY <1>1, <3>1 DEF ChannelOK, channel, Rows, Row
    <3>2. ASSUME NEW kind \in {"end", "commit"}, Submit(kind, <<>>, "proxy")
          PROVE  ChannelOK'
      BY <1>1, <1>2, <3>2, SubmitType DEF Users
    <3> QED BY <2>1, <3>1, <3>2
  <2> QED BY <1>1, <2>1, <2>2 DEF QueueOK, NoStopYet, TaskOK, BatchEmptyAtGet, ProxyOK,
              DbOK, Running, buffer, task, db, Rows, Row
<1>6. CASE CloseStorage
  <2>1. /\ UNCHANGED <<table, buffer, task, channel, upserts>> /\ proxy' = "closed"
        /\ tx' = <<>> /\ inTx' = FALSE /\ session' \in {"open", "written", "ended"}
    BY <1>6 DEF CloseStorage, UndoneSession, DbOK
  <2>2. DbOK'
    <3>1. tx' \in Seq(Nat) /\ DOMAIN tx' = {}
      BY <2>1
    <3> QED BY <1>1, <2>1, <3>1 DEF DbOK, Rows, Row
  <2> QED BY <1>1, <2>1, <2>2 DEF QueueOK, NoStopYet, TaskOK, BatchEmptyAtGet, ProxyOK,
              ChannelOK, Running, buffer, task, channel, Rows, Row
<1>7. CASE ShutdownTimeout
  <2>1. /\ UNCHANGED <<buffer, proxy, db, upserts>> /\ CancelWriter
        /\ cancelled' = TRUE /\ batch' = batch
        /\ stopping' = stopping /\ flushed' = flushed /\ failed' = failed
        /\ writer' = IF batch = <<>> THEN "done" ELSE "insert"
    BY <1>7 DEF ShutdownTimeout, CancelWriter
  <2>2. QueueOK' /\ NoStopYet' /\ TaskOK' /\ BatchEmptyAtGet' /\ ProxyOK' /\ DbOK'
    BY <1>1, <2>1 DEF QueueOK, NoStopYet, TaskOK, BatchEmptyAtGet, ProxyOK, DbOK,
                      buffer, db, Rows, Row
  <2>3. ChannelOK'
    <3>1. CASE batch = <<>>
      BY <1>1, <2>1, <3>1 DEF CancelWriter, ChannelOK, channel, Rows, Row
    <3>2. CASE batch # <<>>
      <4> DEFINE op == Op("insert", batch, "writer")
                 rest == Orphaned("writer")
      <4>1. /\ ops' = Append(rest, op)
            /\ reply' = [reply EXCEPT !["writer"] = "none"]
        BY <2>1, <3>2 DEF CancelWriter
      <4>2. op \in Request /\ op.rows = batch
        BY DEF Op, Request, TaskOK, Users
      <4>3. /\ rest \in Seq(Request) /\ Len(rest) = Len(ops)
            /\ \A i \in 1..Len(ops) : rest[i].rows = ops[i].rows
        BY OrphanedType DEF Users
      <4>4. \A i \in 1..Len(ops) : Rows(ops[i].rows)
        BY DEF ChannelOK
      <4> HIDE DEF op, rest
      <4>5. /\ ops' \in Seq(Request) /\ Len(ops') = Len(rest) + 1
            /\ \A i \in 1..Len(rest) : ops'[i] = rest[i]
            /\ ops'[Len(rest) + 1] = op
        BY <4>1, <4>2, <4>3
      <4>6. \A i \in 1..Len(ops') : ops'[i].rows = batch \/
                \E j \in 1..Len(ops) : ops'[i].rows = ops[j].rows
        BY <4>2, <4>3, <4>5
      <4>7. (\A i \in DOMAIN ops : Rows(ops[i].rows))'
        BY <1>1, <4>4, <4>5, <4>6 DEF TaskOK, Rows, Row
      <4>8. reply' \in [Users -> {"none", "ok", "err"}]
        BY <4>1 DEF ChannelOK
      <4> QED BY <4>5, <4>7, <4>8 DEF ChannelOK
    <3> QED BY <3>1, <3>2
  <2> QED BY <2>2, <2>3
<1> QED BY <1>3, <1>4, <1>5, <1>6, <1>7 DEF Shutdown

\* TypeInv is an inductive invariant.
THEOREM TypeInvariance == Spec => []TypeInv
<1>1. Init => TypeInv
  <2> SUFFICES ASSUME Init PROVE TypeInv
    OBVIOUS
  <2>1. Len(<<>>) = 0 /\ DOMAIN <<>> = {} /\ <<>> \in Seq(Nat)
        /\ <<>> \in Seq(Nat \cup {Stop}) /\ <<>> \in Seq(Request)
    OBVIOUS
  <2>2. QueueOK /\ ProxyOK /\ NoStopYet
    BY <2>1, SizesAssumption DEF Init, QueueOK, ProxyOK, NoStopYet, Running
  <2>3. TaskOK /\ BatchEmptyAtGet
    <3>1. batch \in Seq(Nat) /\ Rows(batch) /\ Len(batch) <= BatchSize
      BY <2>1, SizesAssumption DEF Init, Rows
    <3> QED BY <3>1 DEF Init, TaskOK, BatchEmptyAtGet
  <2>4. ChannelOK /\ DbOK
    BY <2>1 DEF Init, ChannelOK, DbOK, Rows
  <2> QED BY <2>2, <2>3, <2>4 DEF TypeInv, TypeOK
<1>2. TypeInv /\ [Next]_vars => TypeInv'
  <2> SUFFICES ASSUME TypeInv, [Next]_vars PROVE TypeInv'
    OBVIOUS
  <2>1. CASE Next
    BY <2>1, RecordType, TakeType, WriterType, ThreadType, UpsertType, ShutdownType
       DEF Next, Writer, CacheWrite
  <2>2. CASE UNCHANGED vars
    BY <2>2 DEF TypeInv, TypeOK, QueueOK, TaskOK, ProxyOK, ChannelOK, DbOK,
       BatchEmptyAtGet, NoStopYet, Rows, Row, vars, buffer, task, channel, db
  <2> QED BY <2>1, <2>2
<1> QED BY <1>1, <1>2, PTL DEF Spec

\* Every state has the types the runs check, for every queue and batch size.
THEOREM TypeCorrect == Spec => []TypeOK
<1>1. TypeInv => TypeOK
  BY DEF TypeInv
<1> QED BY <1>1, TypeInvariance, PTL

-------------------------------------------------------------------------------
(* The order of the log.                                                   *)
(*                                                                         *)
(* An event travels from the queue to a request, from there to the open    *)
(* transaction and on to the table.  Each of the four holds its events in  *)
(* order, and each is behind the next.  This stays true because at most    *)
(* one request carries rows: the writer's own, and the writer takes from   *)
(* the queue only when the thread has answered it.                         *)

Inc(s) ==
    \A i, j \in DOMAIN s : i < j /\ s[i] # Stop /\ s[j] # Stop => s[i] < s[j]

Before(s, t) ==
    \A i \in DOMAIN s, j \in DOMAIN t : s[i] # Stop /\ t[j] # Stop => s[i] < t[j]

RowsInOrder ==
    /\ Inc(table) /\ Inc(tx) /\ Inc(queue)
    /\ Before(table, tx) /\ Before(table, queue) /\ Before(tx, queue)
    /\ \A k \in DOMAIN ops :
        /\ Inc(ops[k].rows)
        /\ Before(table, ops[k].rows) /\ Before(tx, ops[k].rows)
        /\ Before(ops[k].rows, queue)

OneWriterRequest ==
    /\ \A k \in DOMAIN ops :
        /\ ops[k].by = "writer" => reply["writer"] = "none" /\ ops[k].kind = writer
        /\ ops[k].rows # <<>> => ops[k].by = "writer"
    /\ \A k, l \in DOMAIN ops : ops[k].by = "writer" /\ ops[l].by = "writer" => k = l

OrderInv == ~cancelled => RowsInOrder /\ OneWriterRequest

Items == Nat \cup {Stop}

\* Appending what comes later keeps a sequence in order.
LEMMA IncConcat ==
    ASSUME NEW s \in Seq(Items), NEW t \in Seq(Items), Inc(s), Inc(t), Before(s, t)
    PROVE  Inc(s \o t)
<1> DEFINE u == s \o t
<1>1. /\ Len(s) \in Nat /\ Len(t) \in Nat /\ DOMAIN s = 1..Len(s) /\ DOMAIN t = 1..Len(t)
      /\ DOMAIN u = 1..(Len(s) + Len(t))
      /\ \A i \in 1..Len(s) : u[i] = s[i]
      /\ \A i \in DOMAIN u : i > Len(s) => i - Len(s) \in 1..Len(t) /\ u[i] = t[i - Len(s)]
  OBVIOUS
<1> HIDE DEF u
<1>2. SUFFICES ASSUME NEW i \in DOMAIN u, NEW j \in DOMAIN u, i < j,
                      u[i] # Stop, u[j] # Stop
               PROVE  u[i] < u[j]
  BY DEF Inc, u
<1>3. CASE j <= Len(s)
  BY <1>1, <1>2, <1>3 DEF Inc
<1>4. CASE i <= Len(s) /\ j > Len(s)
  BY <1>1, <1>2, <1>4 DEF Before
<1>5. CASE i > Len(s)
  BY <1>1, <1>2, <1>5 DEF Inc
<1> QED BY <1>1, <1>2, <1>3, <1>4, <1>5

\* Two sequences that precede a third do so when they are joined.
LEMMA BeforeConcatLeft ==
    ASSUME NEW s \in Seq(Items), NEW t \in Seq(Items), NEW u \in Seq(Items),
           Before(s, u), Before(t, u)
    PROVE  Before(s \o t, u)
<1>1. \A i \in DOMAIN (s \o t) : \/ i \in DOMAIN s /\ (s \o t)[i] = s[i]
                                 \/ i - Len(s) \in DOMAIN t /\ (s \o t)[i] = t[i - Len(s)]
  OBVIOUS
<1> QED BY <1>1 DEF Before

\* A sequence that precedes two others precedes their concatenation.
LEMMA BeforeConcatRight ==
    ASSUME NEW s \in Seq(Items), NEW t \in Seq(Items), NEW u \in Seq(Items),
           Before(u, s), Before(u, t)
    PROVE  Before(u, s \o t)
<1>1. \A i \in DOMAIN (s \o t) : \/ i \in DOMAIN s /\ (s \o t)[i] = s[i]
                                 \/ i - Len(s) \in DOMAIN t /\ (s \o t)[i] = t[i - Len(s)]
  OBVIOUS
<1> QED BY <1>1 DEF Before

\* A contiguous part of a sequence inherits its order and its position.
LEMMA PartInherits ==
    ASSUME NEW s \in Seq(Items), NEW m \in 1..(Len(s) + 1), NEW n \in 0..Len(s)
    PROVE  LET p == SubSeq(s, m, n) IN
           /\ Inc(s) => Inc(p)
           /\ \A u \in Seq(Items) : /\ Before(u, s) => Before(u, p)
                                    /\ Before(s, u) => Before(p, u)
<1> DEFINE p == SubSeq(s, m, n)
<1>1. /\ DOMAIN p \subseteq Nat
      /\ \A i \in DOMAIN p : i + m - 1 \in DOMAIN s /\ p[i] = s[i + m - 1]
  OBVIOUS
<1> HIDE DEF p
<1>2. ASSUME Inc(s) PROVE Inc(p)
  <2>1. SUFFICES ASSUME NEW i \in DOMAIN p, NEW j \in DOMAIN p, i < j,
                        p[i] # Stop, p[j] # Stop
                 PROVE  p[i] < p[j]
    BY DEF Inc
  <2>2. i + m - 1 < j + m - 1
    BY <1>1, <2>1
  <2> QED BY <1>1, <1>2, <2>1, <2>2 DEF Inc
<1>3. \A u \in Seq(Items) : /\ Before(u, s) => Before(u, p)
                            /\ Before(s, u) => Before(p, u)
  BY <1>1 DEF Before
<1> QED BY <1>2, <1>3 DEF p

\* The sequences of a well-typed state, as the lemmas above want them.
LEMMA SequencesTyped ==
    ASSUME TypeOK
    PROVE  /\ table \in Seq(Items) /\ tx \in Seq(Items) /\ queue \in Seq(Items)
           /\ \A k \in DOMAIN ops : ops[k].rows \in Seq(Nat) /\ ops[k].rows \in Seq(Items)
           /\ ops \in Seq(Request) /\ Len(ops) \in Nat /\ DOMAIN ops = 1..Len(ops)
<1>1. Seq(Nat) \subseteq Seq(Items)
  <2>1. \A s \in Seq(Nat) : s \in Seq(Items)
    BY DEF Items
  <2> QED BY <2>1
<1>2. ops \in Seq(Request) /\ Len(ops) \in Nat /\ DOMAIN ops = 1..Len(ops)
  BY DEF TypeOK, ChannelOK
<1>3. \A k \in DOMAIN ops : ops[k].rows \in Seq(Nat)
  <2>1. \A k \in DOMAIN ops : ops[k] \in Request
    BY <1>2
  <2> QED BY <2>1 DEF Request
<1> QED BY <1>1, <1>2, <1>3 DEF TypeOK, QueueOK, DbOK, Items

\* A new event is behind everything recorded before it.
LEMMA RecordOrder == TypeInv /\ OrderInv /\ Record => OrderInv'
<1> SUFFICES ASSUME TypeInv, OrderInv, Record, ~cancelled' PROVE (RowsInOrder /\ OneWriterRequest)'
  BY DEF OrderInv
<1>1. /\ UNCHANGED <<task, proxy, channel, db, upserts>> /\ TypeOK
      /\ RowsInOrder /\ OneWriterRequest /\ offered \in Nat /\ offered' = offered + 1
  BY DEF Record, OrderInv, TypeInv, TypeOK, QueueOK, task
<1>2. OneWriterRequest'
  BY <1>1 DEF OneWriterRequest, channel, task
<1>3. CASE CountDrop
  BY <1>1, <1>2, <1>3 DEF CountDrop, RowsInOrder, db, channel
<1>4. CASE Enqueue
  <2>1. queue' = Append(queue, offered') /\ queue \in Seq(Items) /\ offered' \in Items
    BY <1>1, <1>4, SequencesTyped DEF Enqueue, Items
  <2>2. /\ DOMAIN queue' = 1..(Len(queue) + 1) /\ Len(queue) \in Nat /\ DOMAIN queue = 1..Len(queue)
        /\ \A i \in 1..Len(queue) : queue'[i] = queue[i]
        /\ queue'[Len(queue) + 1] = offered'
    BY <2>1
  <2>3. \A i \in DOMAIN queue : queue[i] # Stop => queue[i] \in 1..offered
    BY <1>1 DEF TypeOK, QueueOK, Row
  <2>4. Inc(queue')
    BY <1>1, <2>2, <2>3 DEF Inc, RowsInOrder
  <2>5. ASSUME NEW s, \A i \in DOMAIN s : s[i] \in 1..offered, Before(s, queue)
        PROVE  Before(s, queue')
    BY <1>1, <2>2, <2>5 DEF Before
  <2>6. Before(table, queue') /\ Before(tx, queue')
    BY <1>1, <2>5 DEF RowsInOrder, TypeOK, DbOK, Rows, Row
  <2>7. \A k \in DOMAIN ops : Before(ops[k].rows, queue')
    BY <1>1, <2>5 DEF RowsInOrder, TypeOK, ChannelOK, Rows, Row
  <2> QED BY <1>1, <2>4, <2>6, <2>7, <1>2 DEF RowsInOrder, db, channel
<1> QED BY <1>2, <1>3, <1>4 DEF Record

\* Stop carries no order, so its arrival changes none.
LEMMA PutStopOrder == TypeInv /\ OrderInv /\ PutStop => OrderInv'
<1> SUFFICES ASSUME TypeInv, OrderInv, PutStop, ~cancelled' PROVE (RowsInOrder /\ OneWriterRequest)'
  BY DEF OrderInv
<1>1. /\ UNCHANGED <<task, channel, db, upserts>> /\ TypeOK
      /\ RowsInOrder /\ OneWriterRequest
      /\ queue' = Append(queue, Stop) /\ queue \in Seq(Items) /\ Stop \in Items
  BY SequencesTyped DEF PutStop, OrderInv, TypeInv, task, Items
<1>2. /\ DOMAIN queue' = 1..(Len(queue) + 1) /\ Len(queue) \in Nat /\ DOMAIN queue = 1..Len(queue)
      /\ \A i \in 1..Len(queue) : queue'[i] = queue[i]
      /\ queue'[Len(queue) + 1] = Stop
  BY <1>1
<1>3. Inc(queue')
  BY <1>1, <1>2 DEF Inc, RowsInOrder
<1>4. ASSUME NEW s, Before(s, queue) PROVE Before(s, queue')
  BY <1>2, <1>4 DEF Before
<1> QED BY <1>1, <1>3, <1>4 DEF RowsInOrder, OneWriterRequest, db, channel, task

\* A request without rows, or the writer's only request, goes to the end.
LEMMA SubmitOrder ==
    ASSUME TypeOK, OneWriterRequest, NEW kind \in {"insert", "upsert", "end", "commit"},
           NEW rows \in Seq(Nat), Rows(rows), NEW by \in Users, Submit(kind, rows, by),
           offered' = offered,
           by = "writer" => /\ \A k \in DOMAIN ops : ops[k].by # "writer"
                            /\ writer' = kind,
           by # "writer" => rows = <<>> /\ writer' = writer
    PROVE  /\ OneWriterRequest'
           /\ DOMAIN ops' = 1..(Len(ops) + 1)
           /\ \A k \in 1..Len(ops) : ops'[k] = ops[k]
           /\ ops'[Len(ops) + 1].rows = rows
<1>1. /\ Len(ops') = Len(ops) + 1 /\ \A i \in 1..Len(ops) : ops'[i] = ops[i]
      /\ ops'[Len(ops) + 1] = Op(kind, rows, by)
      /\ ChannelOK'
  BY SubmitType DEF TypeOK
<1>2. /\ Len(ops) \in Nat /\ DOMAIN ops = 1..Len(ops)
      /\ DOMAIN ops' = 1..(Len(ops) + 1)
  BY <1>1 DEF TypeOK, ChannelOK
<1>3. /\ ops'[Len(ops) + 1].rows = rows /\ ops'[Len(ops) + 1].by = by
      /\ ops'[Len(ops) + 1].kind = kind
  BY <1>1 DEF Op
<1>4. reply'[by] = "none" /\ (by # "writer" => reply'["writer"] = reply["writer"])
  BY DEF Submit, TypeOK, ChannelOK, Users
<1>5. OneWriterRequest'
  <2>1. CASE by = "writer"
    BY <1>1, <1>2, <1>3, <1>4, <2>1 DEF OneWriterRequest
  <2>2. CASE by # "writer"
    BY <1>1, <1>2, <1>3, <1>4, <2>2 DEF OneWriterRequest
  <2> QED BY <2>1, <2>2
<1> QED BY <1>1, <1>2, <1>3, <1>5

\* The writer moves a batch from the front of the queue into its request.
LEMMA TakeOrder == TypeInv /\ OrderInv /\ Take => OrderInv'
<1> SUFFICES ASSUME TypeInv, OrderInv, Take, ~cancelled' PROVE (RowsInOrder /\ OneWriterRequest)'
  BY DEF OrderInv
<1> DEFINE n == TakeCount
           taken == SubSeq(queue, 1, n)
           rest == IF SeesStop THEN <<>> ELSE SubSeq(queue, n + 1, Len(queue))
<1>1. /\ TypeOK /\ QueueOK /\ writer = "get" /\ batch = <<>> /\ queue # <<>>
      /\ RowsInOrder /\ OneWriterRequest /\ UNCHANGED db /\ offered' = offered
      /\ queue' = rest /\ batch' = batch \o taken
      /\ (writer' = "done" /\ UNCHANGED channel)
         \/ (writer' = "insert" /\ Submit("insert", batch', "writer"))
  BY DEF Take, OrderInv, TypeInv, TypeOK, BatchEmptyAtGet
<1>2. /\ n \in 0..Len(queue) /\ taken \in Seq(Nat)
      /\ \A i \in 1..n : taken[i] = queue[i] /\ queue[i] # Stop
      /\ Len(taken) = n
  BY <1>1, TakeParts
<1>3. batch' = taken
  <2> HIDE DEF taken
  <2> QED BY <1>1, <1>2
<1>4. /\ queue \in Seq(Items) /\ Len(queue) \in Nat /\ DOMAIN queue = 1..Len(queue)
      /\ table \in Seq(Items) /\ tx \in Seq(Items)
      /\ \A k \in DOMAIN ops : ops[k].rows \in Seq(Items)
      /\ Len(ops) \in Nat /\ DOMAIN ops = 1..Len(ops)
  BY <1>1, SequencesTyped
<1>5. \A k \in DOMAIN ops : ops[k].by # "writer"
  <2>1. \A k \in DOMAIN ops : ops[k] \in Request
    BY <1>1, SequencesTyped
  <2>2. \A k \in DOMAIN ops : ops[k].kind # "get"
    BY <2>1 DEF Request
  <2> QED BY <1>1, <2>2 DEF OneWriterRequest
<1>6. /\ Inc(rest)
      /\ \A u \in Seq(Items) : Before(u, queue) => Before(u, rest)
  <2>1. CASE SeesStop
    BY <2>1 DEF Inc, Before
  <2>2. CASE ~SeesStop
    <3>1. n + 1 \in 1..(Len(queue) + 1) /\ Len(queue) \in 0..Len(queue)
      BY <1>2, <1>4
    <3> QED BY <1>1, <1>4, <2>2, <3>1, PartInherits DEF RowsInOrder
  <2> QED BY <2>1, <2>2
<1>7. /\ Inc(taken)
      /\ \A u \in Seq(Items) : Before(u, queue) => Before(u, taken)
  <2>1. 1 \in 1..(Len(queue) + 1) /\ n \in 0..Len(queue)
    BY <1>2, <1>4
  <2> QED BY <1>1, <1>4, <2>1, PartInherits DEF RowsInOrder
<1>8. Before(taken, rest)
  <2>1. CASE SeesStop
    BY <2>1 DEF Before
  <2>2. CASE ~SeesStop
    <3>1. /\ DOMAIN rest = 1..(Len(queue) - n)
          /\ \A i \in DOMAIN rest : n + i \in DOMAIN queue /\ rest[i] = queue[n + i]
      <4>1. rest = SubSeq(queue, n + 1, Len(queue))
        BY <2>2
      <4> HIDE DEF rest, n
      <4> QED BY SMTT(30), <1>2, <1>4, <4>1
    <3>2. \A i \in DOMAIN taken : i \in 1..n /\ i \in DOMAIN queue /\ taken[i] = queue[i]
      <4> HIDE DEF taken, n
      <4> QED BY <1>2, <1>4
    <3> HIDE DEF taken, rest, n
    <3>3. \A i \in DOMAIN taken, j \in DOMAIN rest : i < n + j
      BY <1>2, <1>4, <3>1, <3>2
    <3> QED BY <1>1, <3>1, <3>2, <3>3 DEF Before, Inc, RowsInOrder
  <2> QED BY <2>1, <2>2
<1>9. CASE writer' = "done" /\ UNCHANGED channel
  <2>1. OneWriterRequest'
    BY <1>1, <1>5, <1>9 DEF OneWriterRequest, channel
  <2>2. RowsInOrder'
    <3> HIDE DEF rest, taken, n
    <3> QED BY <1>1, <1>4, <1>6, <1>9 DEF RowsInOrder, channel, db
  <2> QED BY <2>1, <2>2
<1>10. CASE writer' = "insert" /\ Submit("insert", batch', "writer")
  <2>1. Rows(taken)
    <3> HIDE DEF taken
    <3>1. TypeInv'
      BY TakeType
    <3> QED BY <1>1, <1>3, <3>1 DEF TypeInv, TypeOK, TaskOK, Rows, Row
  <2> HIDE DEF rest, taken, n
  <2>2. /\ OneWriterRequest'
        /\ DOMAIN ops' = 1..(Len(ops) + 1)
        /\ \A k \in 1..Len(ops) : ops'[k] = ops[k]
        /\ ops'[Len(ops) + 1].rows = taken
    BY <1>1, <1>2, <1>3, <1>5, <1>10, <2>1, SubmitOrder DEF Users
  <2>3. \A k \in DOMAIN ops' : \/ ops'[k].rows = taken
                               \/ k \in DOMAIN ops /\ ops'[k] = ops[k]
    BY <1>4, <2>2
  <2>4. Before(table, taken) /\ Before(tx, taken)
    BY <1>1, <1>4, <1>7 DEF RowsInOrder
  <2>5. Before(table, rest) /\ Before(tx, rest)
        /\ \A k \in DOMAIN ops : Before(ops[k].rows, rest)
    BY <1>1, <1>4, <1>6 DEF RowsInOrder
  <2>6. \A k \in DOMAIN ops' :
        /\ Inc(ops'[k].rows)
        /\ Before(table, ops'[k].rows) /\ Before(tx, ops'[k].rows)
        /\ Before(ops'[k].rows, rest)
    BY <1>1, <1>7, <1>8, <2>3, <2>4, <2>5 DEF RowsInOrder
  <2> QED BY <1>1, <1>6, <2>2, <2>5, <2>6 DEF RowsInOrder, db
<1> QED BY <1>1, <1>9, <1>10

\* The thread moves the first request's rows, or a part of them, behind those
\* of the transaction, and the transaction's rows behind those of the table.
LEMMA ThreadOrder == TypeInv /\ OrderInv /\ Thread => OrderInv'
<1> SUFFICES ASSUME TypeInv, OrderInv, Thread, ~cancelled' PROVE (RowsInOrder /\ OneWriterRequest)'
  BY DEF OrderInv
<1>1. /\ UNCHANGED <<buffer, task, proxy, upserts>> /\ offered' = offered
      /\ ops # <<>> /\ TypeOK /\ ChannelOK /\ RowsInOrder /\ OneWriterRequest
  BY DEF Thread, ExecWrite, ExecRowFails, ExecRollsBack, ExecCommit, ExecCommitFails,
         buffer, task, OrderInv, TypeInv, TypeOK
<1>2. PICK result \in {"ok", "err"} : Answer(result)
  BY DEF Thread, ExecWrite, ExecRowFails, ExecRollsBack, ExecCommit, ExecCommitFails
<1>3. /\ Head(ops) = ops[1] /\ Len(ops') = Len(ops) - 1 /\ ChannelOK'
      /\ \A i \in 1..Len(ops') : ops'[i] = ops[i + 1]
  BY <1>1, <1>2, AnswerType
<1>4. /\ Len(ops) \in Nat /\ DOMAIN ops = 1..Len(ops) /\ 1 \in DOMAIN ops
      /\ DOMAIN ops' = 1..(Len(ops) - 1)
      /\ \A i \in DOMAIN ops' : i + 1 \in DOMAIN ops /\ i + 1 # 1 /\ ops'[i] = ops[i + 1]
  BY <1>1, <1>3 DEF ChannelOK
<1> DEFINE r == ops[1].rows
<1>5. /\ table \in Seq(Items) /\ tx \in Seq(Items) /\ queue \in Seq(Items)
      /\ r \in Seq(Items) /\ queue' = queue
  BY <1>1, <1>4, SequencesTyped DEF buffer
\* Only one request has rows.
<1>6. \A i \in DOMAIN ops' : r # <<>> => ops'[i].rows = <<>>
  BY <1>1, <1>4 DEF OneWriterRequest
<1>7. OneWriterRequest'
  <2>1. ASSUME NEW i \in DOMAIN ops', ops'[i].by = "writer"
        PROVE  reply'["writer"] = "none" /\ ops'[i].kind = writer'
    <3>1. ops[i + 1].by = "writer" /\ i + 1 \in DOMAIN ops /\ i + 1 # 1
      BY <1>4, <2>1
    <3>2. ops[1].by # "writer"
      BY <1>1, <1>4, <3>1 DEF OneWriterRequest
    <3>3. reply'["writer"] = reply["writer"]
      BY <1>2, <1>3, <3>2 DEF Answer, Users
    <3> QED BY <1>1, <1>4, <3>1, <3>3 DEF OneWriterRequest, task
  <2>2. \A i \in DOMAIN ops' : ops'[i].rows # <<>> => ops'[i].by = "writer"
    BY <1>1, <1>4 DEF OneWriterRequest
  <2>3. \A i, j \in DOMAIN ops' : ops'[i].by = "writer" /\ ops'[j].by = "writer" => i = j
    <3>1. \A i, j \in DOMAIN ops' : i + 1 = j + 1 => i = j
      BY <1>4
    <3> QED BY <1>1, <1>4, <3>1 DEF OneWriterRequest
  <2> QED BY <2>1, <2>2, <2>3 DEF OneWriterRequest
\* The requests that remain.
<1>8. \A i \in DOMAIN ops' :
        /\ Inc(ops'[i].rows) /\ Before(ops'[i].rows, queue)
        /\ Before(table, ops'[i].rows) /\ Before(tx, ops'[i].rows)
        /\ ops'[i].rows \in Seq(Items)
  BY <1>1, <1>4, SequencesTyped DEF RowsInOrder
\* Some of the first request's rows join the transaction.
<1>9. ASSUME NEW p \in Seq(Items), tx' = tx \o p, table' = table, Inc(p),
             Before(table, p), Before(tx, p), Before(p, queue),
             p = <<>> \/ r # <<>>
      PROVE  RowsInOrder'
  <2>1. Inc(tx') /\ Before(table, tx') /\ Before(tx', queue)
    BY <1>1, <1>5, <1>9, IncConcat, BeforeConcatLeft, BeforeConcatRight DEF RowsInOrder
  <2>2. \A i \in DOMAIN ops' : Before(tx', ops'[i].rows)
    <3>1. CASE p = <<>>
      <4>1. tx' = tx
        BY <1>5, <1>9, <3>1
      <4> QED BY <1>8, <4>1
    <3>2. CASE r # <<>>
      BY <1>6, <3>2 DEF Before
    <3> QED BY <1>9, <3>1, <3>2
  <2> HIDE DEF r
  <2> QED BY <1>1, <1>5, <1>8, <1>9, <2>1, <2>2 DEF RowsInOrder
<1>10. CASE ExecWrite
  <2>1. tx' = tx \o r /\ table' = table
    BY <1>3, <1>10 DEF ExecWrite
  <2>2. Inc(r) /\ Before(table, r) /\ Before(tx, r) /\ Before(r, queue)
    BY <1>1, <1>4 DEF RowsInOrder
  <2> QED BY <1>5, <1>7, <1>9, <2>1, <2>2
<1>11. CASE ExecRowFails
  <2>1. PICK k \in 0..Len(r) : tx' = tx \o SubSeq(r, 1, k) /\ table' = table
    BY <1>3, <1>11 DEF ExecRowFails
  <2> DEFINE p == SubSeq(r, 1, k)
  <2>2. p \in Seq(Items) /\ (p = <<>> \/ r # <<>>)
    <3> HIDE DEF r
    <3> QED BY <1>5
  <2>3. Inc(r) /\ Before(table, r) /\ Before(tx, r) /\ Before(r, queue)
    BY <1>1, <1>4 DEF RowsInOrder
  <2>4. Inc(p) /\ Before(table, p) /\ Before(tx, p) /\ Before(p, queue)
    <3>1. 1 \in 1..(Len(r) + 1)
      BY <1>5
    <3> HIDE DEF r
    <3> QED BY <1>5, <2>3, <3>1, PartInherits
  <2> QED BY <1>7, <1>9, <2>1, <2>2, <2>4
<1>12. CASE ExecRollsBack
  <2>1. tx' = <<>> /\ table' = table
    BY <1>12 DEF ExecRollsBack
  <2>2. Inc(tx') /\ Before(table', tx') /\ Before(tx', queue')
        /\ \A i \in DOMAIN ops' : Before(tx', ops'[i].rows)
    BY <2>1 DEF Inc, Before
  <2> QED BY <1>1, <1>5, <1>7, <1>8, <2>1, <2>2 DEF RowsInOrder
<1>13. CASE ExecCommit
  <2>1. tx' = <<>> /\ table' = table \o tx
    BY <1>13 DEF ExecCommit
  <2>2. Inc(tx') /\ Before(table', tx') /\ Before(tx', queue')
        /\ \A i \in DOMAIN ops' : Before(tx', ops'[i].rows)
    BY <2>1 DEF Inc, Before
  <2>3. Inc(table') /\ Before(table', queue')
    BY <1>1, <1>5, <2>1, IncConcat, BeforeConcatLeft DEF RowsInOrder
  <2>4. \A i \in DOMAIN ops' : Before(table', ops'[i].rows)
    BY <1>5, <1>8, <2>1, BeforeConcatLeft
  <2> QED BY <1>1, <1>5, <1>7, <1>8, <2>2, <2>3, <2>4 DEF RowsInOrder
<1>14. CASE ExecCommitFails
  <2>1. tx' = tx /\ table' = table
    BY <1>14 DEF ExecCommitFails, db
  <2> QED BY <1>1, <1>5, <1>7, <1>8, <2>1 DEF RowsInOrder
<1> QED BY <1>10, <1>11, <1>12, <1>13, <1>14 DEF Thread

\* The other submitters send requests without rows, and cancelling them only
\* makes a request anonymous.
LEMMA OthersOrder ==
    ASSUME TypeInv, OrderInv,
           \/ Inserted \/ Committed \/ FlushFailed
           \/ Upsert \/ Upserted \/ UpsertCommitted \/ UpsertCancelled
           \/ BeginShutdown \/ WriterJoined \/ SessionWritten \/ SessionCommitted
           \/ CloseStorage \/ Closed
    PROVE  OrderInv'
<1> SUFFICES ASSUME ~cancelled' PROVE (RowsInOrder /\ OneWriterRequest)'
  BY DEF OrderInv
<1>1. /\ queue' = queue /\ table' = table /\ (tx' = tx \/ tx' = <<>>)
      /\ offered' = offered /\ cancelled' = cancelled
  BY DEF Inserted, Committed, FlushFailed, EndFlush, Upsert, Upserted, UpsertCommitted,
         UpsertCancelled, BeginShutdown, WriterJoined, SessionWritten, SessionCommitted,
         CloseStorage, Closed, buffer, task, db, vars
<1>2. TypeOK /\ ChannelOK /\ RowsInOrder /\ OneWriterRequest
  BY <1>1 DEF OrderInv, TypeInv, TypeOK
<1>3. /\ Len(ops) \in Nat /\ DOMAIN ops = 1..Len(ops)
      /\ <<>> \in Seq(Nat) /\ Rows(<<>>)
  BY <1>2 DEF ChannelOK, Rows
\* It is enough that every request kept its rows or has none.
<1>4. ASSUME \A k \in DOMAIN ops' :
                \/ ops'[k].rows = <<>>
                \/ \E l \in DOMAIN ops : ops'[k].rows = ops[l].rows
      PROVE  RowsInOrder'
  <2>1. Inc(tx') /\ Before(table, tx') /\ Before(tx', queue)
        /\ \A u : Before(tx, u) => Before(tx', u)
    BY <1>1, <1>2 DEF RowsInOrder, Inc, Before
  <2>2. \A u : Inc(<<>>) /\ Before(u, <<>>) /\ Before(<<>>, u)
    BY DEF Inc, Before
  <2>3. ASSUME NEW k \in DOMAIN ops'
        PROVE  /\ Inc(ops'[k].rows) /\ Before(table, ops'[k].rows)
               /\ Before(tx', ops'[k].rows) /\ Before(ops'[k].rows, queue)
    <3>1. CASE ops'[k].rows = <<>>
      BY <2>2, <3>1
    <3>2. ASSUME NEW l \in DOMAIN ops, ops'[k].rows = ops[l].rows
          PROVE  /\ Inc(ops'[k].rows) /\ Before(table, ops'[k].rows)
                 /\ Before(tx', ops'[k].rows) /\ Before(ops'[k].rows, queue)
      BY <1>2, <2>1, <3>2 DEF RowsInOrder
    <3> QED BY <1>4, <3>1, <3>2
  <2> QED BY <1>1, <1>2, <2>1, <2>3 DEF RowsInOrder
\* A request without rows.
<1>5. ASSUME NEW kind \in {"upsert", "end", "commit"}, NEW by \in Users,
             Submit(kind, <<>>, by),
             by = "writer" => reply["writer"] # "none" /\ writer' = kind,
             by # "writer" => writer' = writer
      PROVE  RowsInOrder' /\ OneWriterRequest'
  <2>1. by = "writer" => \A k \in DOMAIN ops : ops[k].by # "writer"
    BY <1>2, <1>5 DEF OneWriterRequest
  <2>2. /\ OneWriterRequest'
        /\ DOMAIN ops' = 1..(Len(ops) + 1)
        /\ \A k \in 1..Len(ops) : ops'[k] = ops[k]
        /\ ops'[Len(ops) + 1].rows = <<>>
    BY <1>1, <1>2, <1>3, <1>5, <2>1, SubmitOrder
  <2>3. \A k \in DOMAIN ops' : k = Len(ops) + 1 \/ k \in 1..Len(ops)
    BY <1>3, <2>2
  <2>4. \A k \in DOMAIN ops' :
                \/ ops'[k].rows = <<>>
                \/ \E l \in DOMAIN ops : ops'[k].rows = ops[l].rows
    BY <1>3, <2>2, <2>3
  <2> QED BY <1>4, <2>2, <2>4
\* No request at all.
<1>6. ASSUME UNCHANGED channel,
             writer' = writer \/ reply["writer"] # "none"
      PROVE  RowsInOrder' /\ OneWriterRequest'
  <2>1. OneWriterRequest'
    BY <1>2, <1>6 DEF OneWriterRequest, channel
  <2> QED BY <1>4, <1>6, <2>1 DEF channel
<1>7. CASE Inserted
  BY <1>5, <1>7 DEF Inserted, Users
<1>8. CASE Committed \/ FlushFailed
  BY <1>6, <1>8 DEF Committed, FlushFailed, channel
<1>9. CASE Upsert \/ Upserted \/ UpsertCommitted
  BY <1>5, <1>6, <1>9 DEF Upsert, Upserted, UpsertCommitted, Users, task
<1>10. CASE UpsertCancelled
  <2>1. ops' = Orphaned("proxy") /\ reply' = reply /\ writer' = writer
    BY <1>10 DEF UpsertCancelled, task
  <2>2. /\ Len(Orphaned("proxy")) = Len(ops) /\ Orphaned("proxy") \in Seq(Request)
        /\ \A i \in 1..Len(ops) :
            /\ Orphaned("proxy")[i].rows = ops[i].rows
            /\ Orphaned("proxy")[i].kind = ops[i].kind
            /\ Orphaned("proxy")[i].by = IF ops[i].by = "proxy" THEN "nobody" ELSE ops[i].by
    BY <1>2, OrphanedType DEF Users
  <2>3. /\ DOMAIN ops' = DOMAIN ops
        /\ \A i \in DOMAIN ops : /\ ops'[i].rows = ops[i].rows /\ ops'[i].kind = ops[i].kind
                                 /\ ops'[i].by = "writer" <=> ops[i].by = "writer"
    BY <1>3, <2>1, <2>2
  <2>4. OneWriterRequest'
    BY <1>2, <2>1, <2>3 DEF OneWriterRequest
  <2> QED BY <1>4, <2>3, <2>4
<1>11. CASE WriterJoined \/ SessionWritten
  BY <1>5, <1>6, <1>11 DEF WriterJoined, SessionWritten, Users, task
<1>12. CASE BeginShutdown \/ SessionCommitted \/ CloseStorage \/ Closed
  BY <1>6, <1>12 DEF BeginShutdown, SessionCommitted, CloseStorage, Closed, channel, task, vars
<1> QED BY <1>7, <1>8, <1>9, <1>10, <1>11, <1>12

\* Events stay in order on their way to the table until the writer is
\* cancelled, if it ever is.
THEOREM OrderInvariance == Spec => []OrderInv
<1>1. Init => OrderInv
  BY DEF Init, OrderInv, RowsInOrder, OneWriterRequest, Inc, Before
<1>2. TypeInv /\ OrderInv /\ [Next]_vars => OrderInv'
  <2> SUFFICES ASSUME TypeInv, OrderInv, [Next]_vars PROVE OrderInv'
    OBVIOUS
  <2>1. CASE ShutdownTimeout
    BY <2>1 DEF ShutdownTimeout, CancelWriter, OrderInv
  <2>2. CASE UNCHANGED vars
    BY <2>2 DEF OrderInv, RowsInOrder, OneWriterRequest, vars, buffer, task, channel, db
  <2> QED BY <2>1, <2>2, RecordOrder, PutStopOrder, TakeOrder, ThreadOrder, OthersOrder
          DEF Next, Writer, CacheWrite, Shutdown
<1> QED BY <1>1, <1>2, TypeInvariance, PTL DEF Spec

\* Rows reach the log in the order of the record() calls and never twice,
\* whatever fails, as long as the writer task is not cancelled.
THEOREM LogInOrderOnce == Spec => []InOrderOnce
<1>1. TypeInv /\ OrderInv => InOrderOnce
  <2> SUFFICES ASSUME TypeInv, OrderInv, ~cancelled,
                      NEW i \in DOMAIN (table \o tx), NEW j \in DOMAIN (table \o tx), i < j
               PROVE  (table \o tx)[i] < (table \o tx)[j]
    BY DEF InOrderOnce
  <2>1. TypeOK /\ RowsInOrder
    BY DEF TypeInv, OrderInv
  <2>2. table \in Seq(Nat) /\ tx \in Seq(Nat)
    BY <2>1 DEF TypeOK, DbOK
  <2>3. Inc(table \o tx)
    BY <2>1, SequencesTyped, IncConcat DEF RowsInOrder
  <2>4. (table \o tx)[i] \in Nat /\ (table \o tx)[j] \in Nat
    BY SMTT(30), <2>2
  <2> QED BY <2>3, <2>4, StopAssumption DEF Inc
<1> QED BY <1>1, TypeInvariance, OrderInvariance, PTL
-------------------------------------------------------------------------------
(* Nothing is lost silently.                                               *)
(*                                                                         *)
(* The writer's batch is the link: until the thread has answered, its rows *)
(* are in the writer's request, which is the last one of all, and after    *)
(* the insert they are in the transaction, out of which only a commit may  *)
(* take them.  That is so if SQLite never rolls back by itself, and also   *)
(* if it does but nobody else writes in between.                           *)

Unshared == "rollback" \notin Faults \/ MaxUpserts = 0

\* The writer awaits one request at a time, also after it was cancelled.
RequestOK ==
    /\ \A k \in DOMAIN ops :
        ops[k].by = "writer" =>
            /\ reply["writer"] = "none" /\ ops[k].kind = writer
            /\ writer = "insert" => ops[k].rows = batch
    /\ \A k, l \in DOMAIN ops : ops[k].by = "writer" /\ ops[l].by = "writer" => k = l

\* Without cache writes its requests are the last ones, and between the insert
\* and the commit there are no others.
AloneOK ==
    MaxUpserts = 0 =>
        /\ proxy \notin {"upsert", "upsertcommit"}
        /\ \A k \in DOMAIN ops : ops[k].by = "writer" => k = Len(ops)
        /\ writer \in {"insert", "commit"} /\ reply["writer"] = "ok" => ops = <<>>
        /\ writer = "commit" => \A k \in DOMAIN ops : ops[k].by = "writer"

\* What the thread has inserted is in the transaction until it is committed.
BatchOK ==
    /\ writer \in {"insert", "commit"} /\ reply["writer"] = "ok" =>
        Range(batch) \subseteq Range(table) \cup Range(tx)
    /\ writer = "commit" /\ reply["writer"] = "none" =>
        Range(batch) \subseteq Range(table) \cup Range(tx)
    /\ writer = "commit" /\ reply["writer"] = "ok" => Range(batch) \subseteq Range(table)

\* The writer ends with the queue empty or by cancellation, and the session
\* after the writer.
EndOK ==
    /\ writer = "done" => batch = <<>> /\ (stopping \/ cancelled)
    /\ writer \in {"insert", "commit"} => batch # <<>>
    /\ stopping => queue = <<>> /\ proxy \notin Running \cup {"stopping"}
    /\ proxy \in {"ending", "endcommit", "closing", "closed"} => writer = "done"

Accounted ==
    /\ accepted \subseteq Range(table) \cup failed \cup Range(queue) \cup Range(batch)
    /\ Cardinality(accepted) + dropped = offered
    /\ flushed \subseteq Range(table)

Kept == RequestOK /\ AloneOK /\ BatchOK /\ EndOK /\ Accounted

KeptInv == Unshared => Kept

\* The elements of what is put together from two sequences.
LEMMA RangeConcat ==
    ASSUME NEW S, NEW s \in Seq(S), NEW t \in Seq(S)
    PROVE  Range(s \o t) = Range(s) \cup Range(t)
<1>1. \A i \in DOMAIN s : i \in DOMAIN (s \o t) /\ (s \o t)[i] = s[i]
  OBVIOUS
<1>2. \A i \in DOMAIN t : i + Len(s) \in DOMAIN (s \o t) /\ (s \o t)[i + Len(s)] = t[i]
  OBVIOUS
<1>3. \A i \in DOMAIN (s \o t) : \/ i \in DOMAIN s /\ (s \o t)[i] = s[i]
                                 \/ i - Len(s) \in DOMAIN t /\ (s \o t)[i] = t[i - Len(s)]
  OBVIOUS
<1>4. \A x \in Range(s \o t) : x \in Range(s) \cup Range(t)
  BY <1>3 DEF Range
<1>5. \A x \in Range(s) : x \in Range(s \o t)
  BY <1>1 DEF Range
<1>6. \A x \in Range(t) : x \in Range(s \o t)
  <2> SUFFICES ASSUME NEW i \in DOMAIN t PROVE t[i] \in Range(s \o t)
    BY DEF Range
  <2>1. i + Len(s) \in DOMAIN (s \o t) /\ (s \o t)[i + Len(s)] = t[i]
    BY <1>2
  <2> QED BY <2>1 DEF Range
<1> QED BY <1>4, <1>5, <1>6

\* What Range of a sequence's end, or of a part of it, contains.
LEMMA RangeAppend ==
    ASSUME NEW S, NEW s \in Seq(S), NEW x \in S
    PROVE  Range(Append(s, x)) = Range(s) \cup {x}
<1> DEFINE u == Append(s, x)
<1>1. /\ DOMAIN u = 1..(Len(s) + 1) /\ DOMAIN s = 1..Len(s) /\ Len(s) \in Nat
      /\ \A i \in 1..Len(s) : u[i] = s[i]
      /\ u[Len(s) + 1] = x
  OBVIOUS
<1> HIDE DEF u
<1>2. \A i \in DOMAIN u : i \in DOMAIN s \/ i = Len(s) + 1
  BY <1>1
<1>3. \A y \in Range(u) : y \in Range(s) \cup {x}
  BY <1>1, <1>2 DEF Range
<1>4. \A y \in Range(s) \cup {x} : y \in Range(u)
  <2>1. \A i \in DOMAIN s : i \in DOMAIN u
    BY <1>1
  <2>2. Len(s) + 1 \in DOMAIN u
    BY <1>1
  <2> QED BY <1>1, <2>1, <2>2 DEF Range
<1> QED BY <1>3, <1>4 DEF u

LEMMA RangePart ==
    ASSUME NEW S, NEW s \in Seq(S), NEW m \in 1..(Len(s) + 1), NEW n \in 0..Len(s)
    PROVE  Range(SubSeq(s, m, n)) \subseteq Range(s)
<1> DEFINE p == SubSeq(s, m, n)
<1>1. \A i \in DOMAIN p : i + m - 1 \in DOMAIN s /\ p[i] = s[i + m - 1]
  OBVIOUS
<1> HIDE DEF p
<1>2. Range(p) \subseteq Range(s)
  BY <1>1 DEF Range
<1> QED BY <1>2 DEF p

\* The requests have their types.
LEMMA RequestTypes ==
    ASSUME TypeOK
    PROVE  /\ ops \in Seq(Request) /\ Len(ops) \in Nat /\ DOMAIN ops = 1..Len(ops)
           /\ \A k \in DOMAIN ops :
                /\ ops[k] \in Request /\ ops[k].rows \in Seq(Nat)
                /\ ops[k].kind \notin {"get", "done"}
<1>1. ops \in Seq(Request)
  BY DEF TypeOK, ChannelOK
<1>2. Len(ops) \in Nat /\ DOMAIN ops = 1..Len(ops) /\ \A k \in DOMAIN ops : ops[k] \in Request
  BY <1>1
<1>3. \A q \in Request : q.rows \in Seq(Nat) /\ q.kind \notin {"get", "done"}
  BY DEF Request
<1> QED BY <1>1, <1>2, <1>3

\* The empty sequence has no elements.
LEMMA RangeEmpty == Range(<<>>) = {}
BY DEF Range

\* A request at the end of the queue is the writer's only one, if it is one.
LEMMA SubmitKept ==
    ASSUME TypeOK, RequestOK, NEW kind \in {"insert", "upsert", "end", "commit"},
           NEW rows \in Seq(Nat), NEW by \in Users, Submit(kind, rows, by),
           by = "writer" =>
              /\ \A k \in DOMAIN ops : ops[k].by # "writer"
              /\ writer' = kind /\ (kind = "insert" => rows = batch'),
           by # "writer" => writer' = writer /\ batch' = batch
    PROVE  /\ RequestOK'
           /\ DOMAIN ops' = 1..(Len(ops) + 1) /\ Len(ops') = Len(ops) + 1
           /\ \A k \in 1..Len(ops) : ops'[k] = ops[k]
           /\ ops'[Len(ops) + 1].by = by
           /\ by # "writer" => reply'["writer"] = reply["writer"]
           /\ by = "writer" => reply'["writer"] = "none"
<1>1. ops \in Seq(Request) /\ reply \in [Users -> {"none", "ok", "err"}]
  BY DEF TypeOK, ChannelOK
<1>2. Op(kind, rows, by) \in Request
  BY DEF Op, Request
<1>3. ops' = Append(ops, Op(kind, rows, by)) /\ reply' = [reply EXCEPT ![by] = "none"]
  BY DEF Submit
<1>4. /\ DOMAIN ops' = 1..(Len(ops) + 1) /\ Len(ops') = Len(ops) + 1 /\ Len(ops) \in Nat
      /\ DOMAIN ops = 1..Len(ops)
      /\ \A k \in 1..Len(ops) : ops'[k] = ops[k]
      /\ ops'[Len(ops) + 1] = Op(kind, rows, by)
  BY <1>1, <1>2, <1>3
<1>5. /\ ops'[Len(ops) + 1].by = by /\ ops'[Len(ops) + 1].kind = kind
      /\ ops'[Len(ops) + 1].rows = rows
  BY <1>4 DEF Op
<1>6. /\ by # "writer" => reply'["writer"] = reply["writer"]
      /\ by = "writer" => reply'["writer"] = "none"
  BY <1>1, <1>3 DEF Users
<1>7. \A k \in DOMAIN ops' : k \in DOMAIN ops \/ k = Len(ops) + 1
  BY <1>4
<1>8. RequestOK'
  BY ZenonT(60), <1>4, <1>5, <1>6, <1>7 DEF RequestOK
<1> QED BY <1>4, <1>5, <1>6, <1>8

\* The writer gets its answer from its own request.
LEMMA AnswerKept ==
    ASSUME TypeOK, RequestOK, AloneOK, ops # <<>>, NEW result \in {"ok", "err"},
           Answer(result), UNCHANGED <<task, proxy>>
    PROVE  /\ RequestOK' /\ AloneOK'
           /\ Head(ops).by = "writer" =>
                /\ reply["writer"] = "none" /\ reply'["writer"] = result
                /\ Head(ops).kind = writer
                /\ writer = "insert" => Head(ops).rows = batch
           /\ Head(ops).by # "writer" => reply'["writer"] = reply["writer"]
<1>1. ops \in Seq(Request) /\ reply \in [Users -> {"none", "ok", "err"}]
  BY DEF TypeOK, ChannelOK
<1>2. /\ Len(ops) \in Nat /\ DOMAIN ops = 1..Len(ops) /\ 1 \in DOMAIN ops /\ Head(ops) = ops[1]
      /\ ops' = Tail(ops) /\ Len(ops') = Len(ops) - 1 /\ DOMAIN ops' = 1..(Len(ops) - 1)
      /\ \A k \in DOMAIN ops' : k + 1 \in DOMAIN ops /\ ops'[k] = ops[k + 1]
      /\ Len(ops) = 1 => ops' = <<>>
  BY <1>1 DEF Answer
<1>3. reply'["writer"] = IF Head(ops).by = "writer" THEN result ELSE reply["writer"]
  BY DEF Answer, Users
<1>4. writer' = writer /\ batch' = batch /\ proxy' = proxy
  BY DEF task
<1>5. Head(ops).by = "writer" =>
        /\ reply["writer"] = "none" /\ Head(ops).kind = writer
        /\ writer = "insert" => Head(ops).rows = batch
        /\ \A k \in DOMAIN ops' : ops'[k].by # "writer"
  BY <1>2 DEF RequestOK
<1>6. RequestOK'
  <2>1. \A k \in DOMAIN ops' : ops'[k].by = "writer" =>
          /\ reply'["writer"] = "none" /\ ops'[k].kind = writer'
          /\ writer' = "insert" => ops'[k].rows = batch'
    BY <1>2, <1>3, <1>4, <1>5 DEF RequestOK
  <2>2. \A k, l \in DOMAIN ops' : ops'[k].by = "writer" /\ ops'[l].by = "writer" => k = l
    <3> SUFFICES ASSUME NEW k \in DOMAIN ops', NEW l \in DOMAIN ops',
                        ops'[k].by = "writer", ops'[l].by = "writer"
                 PROVE  k = l
      OBVIOUS
    <3>1. k + 1 = l + 1
      BY <1>2 DEF RequestOK
    <3> QED BY <1>2, <3>1
  <2> QED BY <2>1, <2>2 DEF RequestOK
<1>7. AloneOK'
  <2> SUFFICES ASSUME MaxUpserts = 0
               PROVE  /\ proxy \notin {"upsert", "upsertcommit"}
                      /\ \A k \in DOMAIN ops' : ops'[k].by = "writer" => k = Len(ops')
                      /\ writer \in {"insert", "commit"} /\ reply'["writer"] = "ok" => ops' = <<>>
                      /\ writer = "commit" => \A k \in DOMAIN ops' : ops'[k].by = "writer"
    BY <1>4 DEF AloneOK
  <2>1. \A k \in DOMAIN ops' : ops'[k].by = "writer" => k = Len(ops')
    BY <1>2 DEF AloneOK
  <2>2. writer \in {"insert", "commit"} /\ reply'["writer"] = "ok" => ops' = <<>>
    BY <1>2, <1>3 DEF AloneOK
  <2> QED BY <1>2, <2>1, <2>2 DEF AloneOK
<1> QED BY <1>3, <1>5, <1>6, <1>7

\* record() puts the event into the queue or counts it.
LEMMA RecordKept == TypeInv /\ Kept /\ Record => Kept'
<1> SUFFICES ASSUME TypeInv, Kept, Record PROVE Kept'
  OBVIOUS
<1>1. /\ UNCHANGED <<writer, batch, stopping, cancelled, flushed, failed, proxy, ops, reply,
                     tx, table>>
      /\ offered' = offered + 1 /\ proxy \in Running /\ ~stopping
  BY DEF Record, task, channel, db, Kept, EndOK, TypeInv, TypeOK, TaskOK
<1>2. RequestOK' /\ AloneOK' /\ BatchOK' /\ EndOK'
  BY <1>1 DEF Kept, RequestOK, AloneOK, BatchOK, EndOK
<1>3. /\ accepted \subseteq 1..offered /\ offered \in Nat /\ dropped \in Nat
      /\ queue \in Seq(Items)
  BY DEF TypeInv, TypeOK, QueueOK, Items
<1>4. IsFiniteSet(accepted) /\ Cardinality(accepted) \in Nat
  <2>1. IsFiniteSet(1..offered)
    BY <1>3, FS_Interval
  <2>2. IsFiniteSet(accepted)
    BY <1>3, <2>1, FS_Subset
  <2> QED BY <2>2, FS_CardinalityType
<1>5. CASE Enqueue
  <2>1. /\ queue' = Append(queue, offered') /\ dropped' = dropped
        /\ accepted' = accepted \cup {offered'}
    BY <1>5 DEF Enqueue
  <2>2. offered' \notin accepted
    BY <1>1, <1>3
  <2>3. Cardinality(accepted') = Cardinality(accepted) + 1
    BY <1>4, <2>1, <2>2, FS_AddElement
  <2>4. Range(queue) \subseteq Range(queue') /\ offered' \in Range(queue')
    <3>1. /\ \A i \in DOMAIN queue : i \in DOMAIN queue' /\ queue'[i] = queue[i]
          /\ Len(queue) + 1 \in DOMAIN queue' /\ queue'[Len(queue) + 1] = offered'
      BY <1>3, <2>1
    <3> QED BY <3>1 DEF Range
  <2>5. accepted' \subseteq Range(table) \cup failed \cup Range(queue') \cup Range(batch)
    BY <2>1, <2>4 DEF Kept, Accounted
  <2> QED BY <1>1, <1>2, <1>3, <1>4, <2>1, <2>3, <2>5 DEF Kept, Accounted
<1>6. CASE CountDrop
  <2>1. dropped' = dropped + 1 /\ UNCHANGED <<queue, accepted>>
    BY <1>6 DEF CountDrop
  <2> QED BY <1>1, <1>2, <1>3, <1>4, <2>1 DEF Kept, Accounted
<1> QED BY <1>5, <1>6 DEF Record

\* A wake-up splits the queue into the batch and the rest, except for Stop.
LEMMA TakeSplits ==
    ASSUME TypeInv, Take
    PROVE  /\ Range(batch') \cup Range(queue') \subseteq Range(queue)
           /\ \A e \in accepted : e \in Range(queue) => e \in Range(batch') \cup Range(queue')
<1> DEFINE n == TakeCount
           taken == SubSeq(queue, 1, n)
<1>1. /\ queue # <<>> /\ batch' = batch \o taken
      /\ queue' = IF SeesStop THEN <<>> ELSE SubSeq(queue, n + 1, Len(queue))
  BY DEF Take
<1>2. /\ QueueOK /\ queue \in Seq(Items) /\ batch = <<>> /\ accepted \subseteq Nat
      /\ Stop \notin Nat /\ Len(queue) \in Nat /\ DOMAIN queue = 1..Len(queue)
  BY StopAssumption DEF Take, TypeInv, BatchEmptyAtGet, TypeOK, QueueOK, Items
<1>3. /\ n \in 0..Len(queue) /\ taken \in Seq(Nat) /\ Len(taken) = n
      /\ \A i \in 1..n : taken[i] = queue[i]
      /\ SeesStop => Len(queue) = n + 1 /\ queue[Len(queue)] = Stop
      /\ n + 1 \in 1..(Len(queue) + 1) /\ 1 \in 1..(Len(queue) + 1)
      /\ Len(queue) \in 0..Len(queue)
  BY <1>1, <1>2, TakeParts
<1>4. batch' = taken
  <2>1. batch' = batch \o taken /\ batch = <<>> /\ taken \in Seq(Nat)
    BY <1>1, <1>2, <1>3
  <2> HIDE DEF taken
  <2> QED BY <2>1
<1>5. Range(batch') \cup Range(queue') \subseteq Range(queue)
  <2>1. Range(taken) \subseteq Range(queue)
    BY <1>2, <1>3, RangePart
  <2>2. Range(SubSeq(queue, n + 1, Len(queue))) \subseteq Range(queue)
    <3> HIDE DEF n
    <3> QED BY <1>2, <1>3, RangePart
  <2> QED BY <1>1, <1>4, <2>1, <2>2, RangeEmpty
<1>6. ASSUME NEW e \in accepted, e \in Range(queue)
      PROVE  e \in Range(batch') \cup Range(queue')
  <2>1. PICK i \in 1..Len(queue) : e = queue[i]
    BY <1>2, <1>6 DEF Range
  <2>2. CASE i <= n
    <3>1. i \in DOMAIN taken /\ taken[i] = e
      BY <1>3, <2>1, <2>2
    <3> QED BY <1>4, <3>1 DEF Range
  <2>3. CASE i > n
    <3>1. ~SeesStop
      <4>1. e # Stop
        BY <1>2, <1>6
      <4>2. SeesStop => i = Len(queue) /\ queue[Len(queue)] = Stop
        <5>1. /\ SeesStop => Len(queue) = n + 1 /\ queue[Len(queue)] = Stop
              /\ n \in 0..Len(queue) /\ Len(queue) \in Nat
          BY <1>2, <1>3
        <5> HIDE DEF n
        <5> QED BY <2>1, <2>3, <5>1
      <4> QED BY <2>1, <4>1, <4>2
    <3>2. i - n \in DOMAIN queue' /\ queue'[i - n] = e
      <4>1. queue' = SubSeq(queue, n + 1, Len(queue)) /\ n \in 0..Len(queue)
        BY <1>1, <1>3, <3>1
      <4> HIDE DEF n
      <4> QED BY <1>2, <2>1, <2>3, <4>1
    <3> QED BY <3>2 DEF Range
  <2> QED BY <1>3, <2>1, <2>2, <2>3
<1> QED BY <1>5, <1>6

\* A wake-up moves events from the queue into the batch.
LEMMA TakeKept == TypeInv /\ Kept /\ Take => Kept'
<1> SUFFICES ASSUME TypeInv, Kept, Take PROVE Kept'
  OBVIOUS
<1> DEFINE n == TakeCount
           taken == SubSeq(queue, 1, n)
<1>1. /\ writer = "get" /\ queue # <<>> /\ stopping' = SeesStop /\ batch' = batch \o taken
      /\ queue' = IF SeesStop THEN <<>> ELSE SubSeq(queue, n + 1, Len(queue))
      /\ IF n = 0 THEN writer' = "done" /\ UNCHANGED channel
                  ELSE writer' = "insert" /\ Submit("insert", batch', "writer")
      /\ UNCHANGED <<cancelled, flushed, failed, dropped, offered, accepted, proxy, tx, table>>
  BY DEF Take, db
<1>2. /\ TypeOK /\ QueueOK /\ queue \in Seq(Items) /\ batch = <<>>
      /\ accepted \subseteq Nat /\ Stop \notin Nat
  BY <1>1, StopAssumption DEF TypeInv, BatchEmptyAtGet, TypeOK, QueueOK, Items
<1>3. /\ n \in 0..Len(queue) /\ taken \in Seq(Nat) /\ Len(taken) = n
      /\ \A i \in 1..n : taken[i] = queue[i]
      /\ n = 0 => SeesStop
      /\ SeesStop => Len(queue) = n + 1 /\ queue[Len(queue)] = Stop
  BY <1>1, <1>2, TakeParts
<1>4. batch' = taken
  BY <1>1, <1>2, <1>3
<1>5. \A k \in DOMAIN ops : ops[k].by # "writer"
  BY <1>1, <1>2, RequestTypes DEF Kept, RequestOK
<1>6. EndOK'
  <2>1. SeesStop => queue' = <<>> /\ proxy \notin Running \cup {"stopping"}
    <3>1. SeesStop => Len(queue) \in DOMAIN queue
      BY <1>2, <1>3
    <3> QED BY <1>1, <1>3, <3>1 DEF TypeInv, NoStopYet
  <2>2. n = 0 <=> batch' = <<>>
    BY <1>3, <1>4
  <2>3. proxy \notin {"ending", "endcommit", "closing", "closed"}
    BY <1>1 DEF Kept, EndOK
  <2> QED BY <1>1, <1>3, <2>1, <2>2, <2>3 DEF EndOK
<1>7. Accounted'
  <2>1. \A e \in accepted : e \in Range(queue) => e \in Range(batch') \cup Range(queue')
    BY TakeSplits
  <2>2. Range(batch) = {}
    BY <1>2, RangeEmpty
  <2> QED BY <1>1, <2>1, <2>2 DEF Kept, Accounted
<1>8. RequestOK' /\ AloneOK' /\ BatchOK'
  <2>1. CASE n = 0
    BY <1>1, <1>5, <2>1 DEF Kept, RequestOK, AloneOK, BatchOK, channel
  <2>2. CASE n # 0
    <3>1. writer' = "insert" /\ Submit("insert", batch', "writer") /\ batch' \in Seq(Nat)
      BY <1>1, <1>3, <1>4, <2>2
    <3>2. /\ RequestOK' /\ reply'["writer"] = "none"
          /\ DOMAIN ops' = 1..(Len(ops) + 1) /\ Len(ops') = Len(ops) + 1
          /\ \A k \in 1..Len(ops) : ops'[k] = ops[k]
      BY <1>2, <1>5, <3>1, SubmitKept DEF Kept, Users
    <3>3. DOMAIN ops = 1..Len(ops) /\ Len(ops) \in Nat
      BY <1>2 DEF TypeOK, ChannelOK
    <3>4. AloneOK'
      BY <1>1, <1>5, <3>1, <3>2, <3>3 DEF Kept, AloneOK
    <3> QED BY <3>1, <3>2, <3>4 DEF BatchOK
  <2> QED BY <2>1, <2>2
<1> QED BY <1>6, <1>7, <1>8 DEF Kept

\* The writer goes on with the answer of the thread.
LEMMA WriterKept == TypeInv /\ Kept /\ (Inserted \/ Committed \/ FlushFailed) => Kept'
<1> SUFFICES ASSUME TypeInv, Kept, Inserted \/ Committed \/ FlushFailed PROVE Kept'
  OBVIOUS
<1>1. /\ UNCHANGED <<buffer, proxy, db, stopping, cancelled>>
      /\ writer \in {"insert", "commit"} /\ reply["writer"] \in {"ok", "err"}
  BY DEF Inserted, Committed, FlushFailed, EndFlush
<1>2. UNCHANGED <<queue, dropped, offered, accepted, tx, table>>
  BY <1>1 DEF buffer, db
<1>3. \A k \in DOMAIN ops : ops[k].by # "writer"
  BY <1>1 DEF Kept, RequestOK
<1>4. CASE Inserted
  <2>1. /\ writer = "insert" /\ reply["writer"] = "ok" /\ writer' = "commit"
        /\ Submit("commit", <<>>, "writer") /\ UNCHANGED <<batch, flushed, failed>>
    BY <1>4 DEF Inserted
  <2>2. TypeOK /\ DOMAIN ops = 1..Len(ops) /\ Len(ops) \in Nat /\ <<>> \in Seq(Nat)
    BY DEF TypeInv, TypeOK, ChannelOK
  <2>3. /\ RequestOK' /\ reply'["writer"] = "none"
        /\ DOMAIN ops' = 1..(Len(ops) + 1) /\ Len(ops') = Len(ops) + 1
        /\ \A k \in 1..Len(ops) : ops'[k] = ops[k]
        /\ ops'[Len(ops) + 1].by = "writer"
    BY <1>3, <2>1, <2>2, SubmitKept DEF Kept, Users
  <2>4. AloneOK'
    <3> SUFFICES ASSUME MaxUpserts = 0
                 PROVE  /\ proxy' \notin {"upsert", "upsertcommit"}
                        /\ \A k \in DOMAIN ops' : ops'[k].by = "writer" /\ k = Len(ops')
      BY <2>1, <2>3 DEF AloneOK
    <3>1. ops = <<>> /\ proxy \notin {"upsert", "upsertcommit"}
      BY <2>1 DEF Kept, AloneOK
    <3>2. Len(ops) = 0
      BY <3>1
    <3> QED BY <1>1, <2>3, <3>1, <3>2
  <2>5. BatchOK' /\ EndOK' /\ Accounted'
    BY <1>1, <1>2, <2>1, <2>3 DEF Kept, BatchOK, EndOK, Accounted
  <2> QED BY <2>3, <2>4, <2>5 DEF Kept
<1>5. CASE Committed \/ FlushFailed
  <2>1. /\ UNCHANGED channel /\ batch' = <<>>
        /\ writer' = IF stopping \/ cancelled THEN "done" ELSE "get"
    BY <1>5 DEF Committed, FlushFailed, EndFlush
  <2>2. UNCHANGED <<ops, reply>>
    BY <2>1 DEF channel
  <2>3. RequestOK' /\ AloneOK' /\ BatchOK'
    BY <1>1, <1>3, <2>1, <2>2 DEF Kept, RequestOK, AloneOK, BatchOK
  <2>4. EndOK'
    BY <1>1, <1>2, <2>1 DEF Kept, EndOK
  <2>5. Range(batch') = {}
    BY <2>1, RangeEmpty
  <2>6. Accounted'
    <3>1. CASE Committed
      <4>1. /\ flushed' = flushed \cup Range(batch) /\ failed' = failed
            /\ Range(batch) \subseteq Range(table)
        BY <3>1 DEF Committed, Kept, BatchOK
      <4> QED BY <1>2, <2>5, <4>1 DEF Kept, Accounted
    <3>2. CASE FlushFailed
      <4>1. failed' = failed \cup Range(batch) /\ flushed' = flushed
        BY <3>2 DEF FlushFailed
      <4> QED BY <1>2, <2>5, <4>1 DEF Kept, Accounted
    <3> QED BY <1>5, <3>1, <3>2
  <2> QED BY <2>3, <2>4, <2>6 DEF Kept
<1> QED BY <1>4, <1>5

\* The thread executes a request, or fails.
LEMMA ThreadKept == Unshared /\ TypeInv /\ Kept /\ Thread => Kept'
<1> SUFFICES ASSUME Unshared, TypeInv, Kept, Thread PROVE Kept'
  OBVIOUS
<1>1. /\ UNCHANGED <<buffer, task, proxy, upserts>>
      /\ ops # <<>> /\ \E result \in {"ok", "err"} : Answer(result)
  BY DEF Thread, ExecWrite, ExecRowFails, ExecRollsBack, ExecCommit, ExecCommitFails
<1>2. /\ UNCHANGED <<queue, dropped, offered, accepted, writer, batch, stopping, cancelled,
                     flushed, failed, proxy>>
      /\ TypeOK
  BY <1>1 DEF buffer, task, TypeInv
<1> DEFINE first == Head(ops)
<1>3. /\ RequestOK' /\ AloneOK'
      /\ first.by = "writer" =>
            /\ reply["writer"] = "none" /\ first.kind = writer
            /\ writer = "insert" => first.rows = batch
      /\ first.by # "writer" => reply'["writer"] = reply["writer"]
      /\ \A result \in {"ok", "err"} :
            Answer(result) /\ first.by = "writer" => reply'["writer"] = result
  BY <1>1, <1>2, AnswerKept DEF Kept
<1>4. EndOK'
  BY <1>2 DEF Kept, EndOK
<1>5. /\ tx \in Seq(Nat) /\ table \in Seq(Nat) /\ first.rows \in Seq(Nat)
      /\ first = ops[1] /\ 1 \in DOMAIN ops
  <2>1. 1 \in DOMAIN ops /\ first = ops[1]
    BY <1>1, <1>2, RequestTypes
  <2> QED BY <1>2, <2>1, RequestTypes DEF TypeOK, DbOK
<1>6. Range(table) \subseteq Range(table')
  <2>1. CASE ExecCommit
    BY <1>5, <2>1, RangeConcat DEF ExecCommit
  <2>2. CASE ~ExecCommit
    BY <2>2 DEF Thread, ExecWrite, ExecRowFails, ExecRollsBack, ExecCommitFails, db
  <2> QED BY <2>1, <2>2
<1>7. Accounted'
  BY <1>2, <1>6 DEF Kept, Accounted
<1>8. BatchOK'
  <2>1. CASE ExecWrite
    <3>1. tx' = tx \o first.rows /\ table' = table /\ first.kind # "commit" /\ Answer("ok")
      BY <2>1 DEF ExecWrite
    <3>2. Range(tx') = Range(tx) \cup Range(first.rows)
      BY <1>5, <3>1, RangeConcat
    <3> QED BY <1>2, <1>3, <3>1, <3>2 DEF Kept, BatchOK
  <2>2. CASE ExecRowFails
    <3>1. PICK k \in 0..Len(first.rows) : tx' = tx \o SubSeq(first.rows, 1, k)
      BY <2>2 DEF ExecRowFails
    <3>2. table' = table /\ Answer("err") /\ first.kind # "commit"
      BY <2>2 DEF ExecRowFails
    <3>3. SubSeq(first.rows, 1, k) \in Seq(Nat)
      <4> DEFINE rows == first.rows
      <4> HIDE DEF rows
      <4>1. k \in 0..Len(rows) /\ rows \in Seq(Nat)
        BY <1>5 DEF rows
      <4>2. SubSeq(rows, 1, k) \in Seq(Nat)
        BY <4>1
      <4> QED BY <4>2 DEF rows
    <3>4. Range(tx) \subseteq Range(tx')
      <4> DEFINE part == SubSeq(first.rows, 1, k)
      <4>1. part \in Seq(Nat) /\ tx' = tx \o part
        BY <3>1, <3>3
      <4> HIDE DEF part
      <4> QED BY <1>5, <4>1, RangeConcat
    <3> QED BY <1>2, <1>3, <3>2, <3>4 DEF Kept, BatchOK
  <2>3. CASE ExecCommit
    <3>1. table' = table \o tx /\ first.kind = "commit" /\ Answer("ok")
      BY <2>3 DEF ExecCommit
    <3>2. Range(table') = Range(table) \cup Range(tx)
      BY <1>5, <3>1, RangeConcat
    <3> QED BY <1>2, <1>3, <3>1, <3>2 DEF Kept, BatchOK
  <2>4. CASE ExecCommitFails
    BY <1>2, <1>3, <2>4 DEF ExecCommitFails, Kept, BatchOK, db
  <2>5. CASE ExecRollsBack
    <3>1. Answer("err") /\ table' = table /\ MaxUpserts = 0
      BY <2>5 DEF ExecRollsBack, Unshared
    <3>2. writer \in {"insert", "commit"} => reply["writer"] # "ok"
      BY <1>1, <3>1 DEF Kept, AloneOK
    <3>3. writer = "commit" => first.by = "writer"
      BY <1>5, <3>1 DEF Kept, AloneOK
    <3> QED BY <1>2, <1>3, <3>1, <3>2, <3>3 DEF BatchOK
  <2> QED BY <2>1, <2>2, <2>3, <2>4, <2>5 DEF Thread
<1> QED BY <1>3, <1>4, <1>7, <1>8 DEF Kept

\* Cache writes use the connection, and do not touch what the writer awaits.
LEMMA UpsertKept ==
    TypeInv /\ Kept /\ (Upsert \/ Upserted \/ UpsertCommitted \/ UpsertCancelled) => Kept'
<1> SUFFICES ASSUME TypeInv, Kept, Upsert \/ Upserted \/ UpsertCommitted \/ UpsertCancelled
             PROVE  Kept'
  OBVIOUS
<1>1. /\ UNCHANGED <<buffer, task, db>> /\ MaxUpserts # 0
      /\ proxy \in Running /\ proxy' \in Running
  BY BoundsAssumption
     DEF Upsert, Upserted, UpsertCommitted, UpsertCancelled, Running, Kept, AloneOK, TypeInv, TypeOK, ProxyOK
<1>2. UNCHANGED <<queue, dropped, offered, accepted, writer, batch, stopping, cancelled,
                  flushed, failed, tx, table>>
  BY <1>1 DEF buffer, task, db
<1>3. AloneOK' /\ EndOK' /\ Accounted'
  BY <1>1, <1>2 DEF Kept, AloneOK, EndOK, Accounted, Running
<1>4. RequestOK' /\ reply'["writer"] = reply["writer"]
  <2>1. CASE UNCHANGED channel
    BY <1>2, <2>1 DEF Kept, RequestOK, channel
  <2>2. ASSUME NEW kind \in {"upsert", "commit"}, Submit(kind, <<>>, "proxy")
        PROVE  RequestOK' /\ reply'["writer"] = reply["writer"]
    <3>1. <<>> \in Seq(Nat) /\ TypeOK
      BY DEF TypeInv
    <3> QED BY <1>2, <2>2, <3>1, SubmitKept DEF Kept, Users
  <2>3. CASE UpsertCancelled
    <3>1. ops' = Orphaned("proxy") /\ reply' = reply
      BY <2>3 DEF UpsertCancelled
    <3>2. /\ DOMAIN ops' = DOMAIN ops
          /\ \A k \in DOMAIN ops :
                /\ ops'[k].rows = ops[k].rows /\ ops'[k].kind = ops[k].kind
                /\ ops'[k].by = "writer" <=> ops[k].by = "writer"
      BY <3>1, OrphanedType DEF TypeInv, TypeOK, ChannelOK, Users
    <3> QED BY <1>2, <3>1, <3>2 DEF Kept, RequestOK
  <2> QED BY <2>1, <2>2, <2>3 DEF Upsert, Upserted, UpsertCommitted, channel
<1>5. BatchOK'
  BY <1>2, <1>4 DEF Kept, BatchOK
<1> QED BY <1>3, <1>4, <1>5 DEF Kept

\* The timer makes the writer ask for its batch again; the old request stays.
LEMMA TimeoutKept == TypeInv /\ Kept /\ ShutdownTimeout => Kept'
<1> SUFFICES ASSUME TypeInv, Kept, ShutdownTimeout PROVE Kept'
  OBVIOUS
<1>1. /\ UNCHANGED <<queue, dropped, offered, accepted, batch, stopping, flushed, failed,
                     proxy, tx, table>>
      /\ cancelled' = TRUE /\ writer # "done" /\ proxy = "waiting"
  BY DEF ShutdownTimeout, CancelWriter, buffer, db
<1>2. /\ TypeOK /\ ops \in Seq(Request) /\ batch \in Seq(Nat)
      /\ reply \in [Users -> {"none", "ok", "err"}]
  BY DEF TypeInv, TypeOK, ChannelOK, TaskOK
<1>3. Accounted'
  BY <1>1 DEF Kept, Accounted
<1>4. CASE batch = <<>>
  <2>1. writer' = "done" /\ UNCHANGED <<ops, reply>>
    BY <1>4 DEF ShutdownTimeout, CancelWriter, channel
  <2>2. writer = "get"
    BY <1>1, <1>2, <1>4 DEF Kept, EndOK, TypeOK, TaskOK
  <2>3. \A k \in DOMAIN ops : ops[k].by # "writer"
    BY <1>2, <2>2, RequestTypes DEF Kept, RequestOK
  <2>4. RequestOK' /\ AloneOK' /\ BatchOK' /\ EndOK'
    BY <1>1, <1>4, <2>1, <2>3 DEF Kept, RequestOK, AloneOK, BatchOK, EndOK
  <2> QED BY <1>3, <2>4 DEF Kept
<1>5. CASE batch # <<>>
  <2> DEFINE again == Op("insert", batch, "writer")
  <2>1. /\ writer' = "insert" /\ ops' = Append(Orphaned("writer"), again)
        /\ reply'["writer"] = "none"
    BY <1>2, <1>5 DEF ShutdownTimeout, CancelWriter, Users
  <2>2. /\ Orphaned("writer") \in Seq(Request) /\ Len(Orphaned("writer")) = Len(ops)
        /\ Len(ops) \in Nat
        /\ \A k \in 1..Len(ops) : Orphaned("writer")[k].by # "writer"
    <3>1. ChannelOK /\ "writer" \in Users /\ Len(ops) \in Nat
      BY <1>2, RequestTypes DEF TypeOK, Users
    <3> QED BY <3>1, OrphanedType
  <2>3. again.by = "writer" /\ again.kind = "insert" /\ again.rows = batch /\ again \in Request
    BY <1>2 DEF Op, Request, Users
  <2>4. /\ DOMAIN ops' = 1..(Len(ops) + 1) /\ Len(ops') = Len(ops) + 1
        /\ \A k \in 1..Len(ops) : ops'[k].by # "writer"
        /\ ops'[Len(ops) + 1] = again
    <3> HIDE DEF again
    <3> QED BY <2>1, <2>2, <2>3
  <2>5. \A k \in DOMAIN ops' : ops'[k].by = "writer" => k = Len(ops) + 1
    BY <2>2, <2>4
  <2>6. RequestOK'
    BY <1>1, <2>1, <2>3, <2>4, <2>5 DEF RequestOK
  <2>7. AloneOK' /\ BatchOK' /\ EndOK'
    BY <1>1, <1>5, <2>1, <2>4, <2>5 DEF Kept, AloneOK, BatchOK, EndOK
  <2> QED BY <1>3, <2>6, <2>7 DEF Kept
<1> QED BY <1>4, <1>5

\* The steps of shutdown() and run_proxy wait for the writer, and only then
\* may the transaction be undone.
LEMMA ShutdownKept ==
    TypeInv /\ Kept /\ (BeginShutdown \/ Shutdown \/ Closed) => Kept'
<1> SUFFICES ASSUME TypeInv, Kept, BeginShutdown \/ Shutdown \/ Closed PROVE Kept'
  OBVIOUS
<1>1. UNCHANGED <<dropped, offered, accepted, writer, batch, stopping, cancelled,
                  flushed, failed, table>>
  BY DEF BeginShutdown, Shutdown, PutStop, WriterJoined, SessionWritten, SessionCommitted,
         CloseStorage, Closed, buffer, task, db, vars
<1>2. CASE PutStop
  <2>1. /\ proxy = "stopping" /\ proxy' = "waiting" /\ queue' = Append(queue, Stop)
        /\ UNCHANGED <<ops, reply, tx>>
    BY <1>2 DEF PutStop, channel, db
  <2>2. Range(queue) \subseteq Range(queue')
    <3>1. queue \in Seq(Items) /\ Stop \in Items
      BY DEF TypeInv, TypeOK, QueueOK, Items
    <3>2. \A i \in DOMAIN queue : i \in DOMAIN queue' /\ queue'[i] = queue[i]
      BY <2>1, <3>1
    <3> QED BY <3>2 DEF Range
  <2>3. RequestOK' /\ AloneOK' /\ BatchOK' /\ EndOK'
    BY <1>1, <2>1 DEF Kept, RequestOK, AloneOK, BatchOK, EndOK
  <2> QED BY <1>1, <2>2, <2>3 DEF Kept, Accounted
<1>3. CASE WriterJoined \/ SessionWritten \/ SessionCommitted
  <2>1. /\ UNCHANGED <<queue, tx>> /\ writer = "done"
        /\ proxy' \in {"ending", "endcommit", "closing"}
    BY <1>3 DEF WriterJoined, SessionWritten, SessionCommitted, buffer, db, Kept, EndOK
  <2>2. RequestOK' /\ reply'["writer"] = reply["writer"]
    <3>1. CASE UNCHANGED channel
      BY <1>1, <3>1 DEF Kept, RequestOK, channel
    <3>2. ASSUME NEW kind \in {"end", "commit"}, Submit(kind, <<>>, "proxy")
          PROVE  RequestOK' /\ reply'["writer"] = reply["writer"]
      <4>1. <<>> \in Seq(Nat) /\ TypeOK
        BY DEF TypeInv
      <4> QED BY <1>1, <3>2, <4>1, SubmitKept DEF Kept, Users
    <3> QED BY <1>3, <3>1, <3>2 DEF WriterJoined, SessionWritten, SessionCommitted
  <2>4. \A k \in DOMAIN ops' : ops'[k].by # "writer"
    <3>1. TypeInv'
      BY ShutdownType
    <3>2. TypeOK'
      BY <3>1 DEF TypeInv
    <3>3. ops' \in Seq(Request) /\ \A q \in Request : q.kind # "done"
      BY <3>2 DEF TypeOK, ChannelOK, Request
    <3>4. \A k \in DOMAIN ops' : ops'[k] \in Request
      BY <3>3
    <3> QED BY <1>1, <2>1, <2>2, <3>3, <3>4 DEF RequestOK
  <2>5. AloneOK' /\ BatchOK' /\ EndOK' /\ Accounted'
    BY <1>1, <2>1, <2>2, <2>4 DEF Kept, AloneOK, BatchOK, EndOK, Accounted, Running
  <2> QED BY <2>2, <2>5 DEF Kept
<1>4. CASE BeginShutdown \/ Closed
  <2>1. UNCHANGED <<queue, ops, reply, tx>>
    BY <1>4 DEF BeginShutdown, Closed, buffer, channel, db, vars
  <2>2. (proxy' = "stopping" /\ proxy = "running") \/ proxy' = proxy
    BY <1>4 DEF BeginShutdown, Closed, vars
  <2>3. AloneOK' /\ EndOK'
    BY <1>1, <2>1, <2>2 DEF Kept, AloneOK, EndOK, Running
  <2> QED BY <1>1, <2>1, <2>3 DEF Kept, RequestOK, BatchOK, Accounted
<1>5. CASE CloseStorage
  <2>1. UNCHANGED <<queue, ops, reply>> /\ proxy' = "closed" /\ writer = "done"
    BY <1>5 DEF CloseStorage, buffer, channel, Kept, EndOK
  <2>2. AloneOK' /\ EndOK' /\ BatchOK'
    BY <1>1, <2>1 DEF Kept, AloneOK, EndOK, BatchOK, Running
  <2> QED BY <1>1, <2>1, <2>2 DEF Kept, RequestOK, Accounted
<1> QED BY <1>2, <1>3, <1>4, <1>5 DEF Shutdown

\* Where each accepted event is, in every behaviour, unless SQLite rolls a
\* transaction back that the writer and a cache write share.
THEOREM KeptInvariance == Spec => []KeptInv
<1>1. Init => KeptInv
  <2> SUFFICES ASSUME Init PROVE Kept
    BY DEF KeptInv
  <2>1. Cardinality(accepted) = 0 /\ flushed = {}
    BY FS_EmptySet DEF Init
  <2>2. RequestOK /\ AloneOK /\ BatchOK /\ EndOK
    BY DEF Init, RequestOK, AloneOK, BatchOK, EndOK, Users
  <2> QED BY <2>1, <2>2 DEF Init, Kept, Accounted
<1>2. TypeInv /\ KeptInv /\ [Next]_vars => KeptInv'
  <2> SUFFICES ASSUME TypeInv, Unshared, Kept, [Next]_vars PROVE Kept'
    BY DEF KeptInv
  <2>1. CASE UNCHANGED vars
    BY <2>1 DEF Kept, RequestOK, AloneOK, BatchOK, EndOK, Accounted, vars, buffer, task,
                channel, db
  <2> QED BY <2>1, RecordKept, TakeKept, WriterKept, ThreadKept, UpsertKept, TimeoutKept,
             ShutdownKept
          DEF Next, Writer, CacheWrite
<1> QED BY <1>1, <1>2, TypeInvariance, PTL DEF Spec

\* What insert_events() returned for is in the table, although other tasks
\* write and commit on its connection in between.
THEOREM FlushedRowsStay == ASSUME Unshared PROVE Spec => []FlushedIsDurable
<1>1. KeptInv => FlushedIsDurable
  BY DEF KeptInv, Kept, Accounted, FlushedIsDurable
<1> QED BY <1>1, KeptInvariance, PTL

\* When storage is closed every accepted event is in the log, was reported as
\* lost, or was left in the queue by a cancelled writer.
THEOREM NothingIsLostSilently == ASSUME Unshared PROVE Spec => []AllAccountedFor
<1>1. KeptInv => AllAccountedFor
  <2> SUFFICES ASSUME Kept, proxy = "closed"
               PROVE  /\ accepted \subseteq Range(table) \cup failed \cup Range(queue)
                      /\ Cardinality(accepted) + dropped = offered
                      /\ ~cancelled => queue = <<>>
    BY DEF KeptInv, AllAccountedFor
  <2>1. batch = <<>> /\ (~cancelled => queue = <<>>)
    BY DEF Kept, EndOK
  <2> QED BY <2>1, RangeEmpty DEF Kept, Accounted
<1> QED BY <1>1, KeptInvariance, PTL

-------------------------------------------------------------------------------
(* What a cancelled writer stores.                                         *)
(*                                                                         *)
(* The cancellation may leave a request with rows behind and sends the     *)
(* batch once more, but the writer takes nothing from the queue after it.  *)
(* So the log consists of at most two parts, each of them in order: what   *)
(* was stored before, with the rows of the request that nobody awaits any  *)
(* more, and the second copy of the batch.                                 *)

TwoRuns(s) ==
    \E m \in 0..Len(s) : \A i, j \in DOMAIN s : i < j /\ (j <= m \/ i > m) => s[i] < s[j]

\* The requests that still bring rows.
Loaded == {k \in DOMAIN ops : ops[k].rows # <<>>}

RunsInv ==
    /\ Inc(batch)
    /\ cancelled =>
        /\ writer # "get"
        /\ TwoRuns(table \o tx)
        /\ \A k \in Loaded : Inc(ops[k].rows) /\ Inc(table \o tx)
        /\ \A k, l \in Loaded : k < l =>
            /\ Before(table \o tx, ops[k].rows)
            /\ \A m \in Loaded : m \in {k, l}

\* It does not matter which of three sequences are joined first.
LEMMA Regrouped ==
    ASSUME NEW s \in Seq(Nat), NEW t \in Seq(Nat), NEW u \in Seq(Nat)
    PROVE  (s \o t) \o u = s \o (t \o u)
BY SMTT(30), ConcatAssociative

\* Sequences of numbers that are in order are two runs when they are joined.
LEMMA RunAfterRun ==
    ASSUME NEW s \in Seq(Nat), NEW t \in Seq(Nat), Inc(s), Inc(t)
    PROVE  TwoRuns(s \o t)
<1> DEFINE u == s \o t
           m == Len(s)
<1>1. m \in 0..Len(u) /\ m \in Nat
  OBVIOUS
<1>2. \A i \in DOMAIN u : /\ i \in Nat
                          /\ i <= m => i \in DOMAIN s /\ u[i] = s[i]
                          /\ i > m => i - m \in DOMAIN t /\ u[i] = t[i - m]
  OBVIOUS
<1>3. /\ \A i \in DOMAIN s : s[i] # Stop /\ i \in Nat
      /\ \A i \in DOMAIN t : t[i] # Stop /\ i \in Nat
  BY StopAssumption
<1> HIDE DEF u, m
<1>4. ASSUME NEW i \in DOMAIN u, NEW j \in DOMAIN u, i < j, j <= m \/ i > m
      PROVE  u[i] < u[j]
  <2>1. CASE j <= m
    BY SMTT(30), <1>1, <1>2, <1>3, <1>4, <2>1 DEF Inc
  <2>2. CASE i > m
    <3>1. i - m < j - m /\ i - m \in DOMAIN t /\ j - m \in DOMAIN t
      BY <1>1, <1>2, <1>4, <2>2
    <3>2. u[i] = t[i - m] /\ u[j] = t[j - m]
      BY <1>1, <1>2, <1>4, <2>2
    <3>3. t[i - m] < t[j - m]
      BY <1>3, <3>1 DEF Inc
    <3> QED BY <3>2, <3>3
  <2> QED BY <1>4, <2>1, <2>2
<1>5. TwoRuns(u)
  BY <1>1, <1>4 DEF TwoRuns
<1> QED BY <1>5 DEF u

\* A sequence in order is one run, and what is in two runs stays so when its
\* end is cut off.
LEMMA RunIsTwo ==
    ASSUME NEW s \in Seq(Nat), Inc(s)
    PROVE  TwoRuns(s)
<1>1. Inc(<<>>) /\ <<>> \in Seq(Nat) /\ s \o <<>> = s
  BY DEF Inc
<1> QED BY <1>1, RunAfterRun

LEMMA FrontOfRuns ==
    ASSUME NEW s \in Seq(Nat), NEW t \in Seq(Nat)
    PROVE  /\ TwoRuns(s \o t) => TwoRuns(s)
           /\ Inc(s \o t) => Inc(s)
           /\ \A r : Before(s \o t, r) => Before(s, r)
<1> DEFINE u == s \o t
<1>1. /\ Len(s) \in Nat /\ DOMAIN s = 1..Len(s) /\ Len(u) >= Len(s) /\ Len(u) \in Nat
      /\ \A i \in DOMAIN s : i \in DOMAIN u /\ u[i] = s[i]
  OBVIOUS
<1> HIDE DEF u
<1>2. ASSUME TwoRuns(u) PROVE TwoRuns(s)
  <2>1. PICK m \in 0..Len(u) :
            \A i, j \in DOMAIN u : i < j /\ (j <= m \/ i > m) => u[i] < u[j]
    BY <1>2 DEF TwoRuns
  <2>2. CASE m <= Len(s)
    <3>1. m \in 0..Len(s)
      BY <1>1, <2>2
    <3> QED BY <1>1, <2>1, <3>1 DEF TwoRuns
  <2>3. CASE m > Len(s)
    <3>1. Len(s) \in 0..Len(s) /\ \A j \in DOMAIN s : j <= m
      BY <1>1, <2>3
    <3>2. \A i, j \in DOMAIN s : i < j => s[i] < s[j]
      BY <1>1, <2>1, <3>1
    <3> QED BY <3>1, <3>2 DEF TwoRuns
  <2> QED BY <1>1, <2>2, <2>3
<1>3. Inc(u) => Inc(s)
  BY <1>1 DEF Inc
<1>4. \A r : Before(u, r) => Before(s, r)
  BY <1>1 DEF Before
<1> QED BY <1>2, <1>3, <1>4 DEF u

\* In two runs nothing occurs more than twice.
LEMMA TwiceAtMost ==
    ASSUME NEW s \in Seq(Nat), TwoRuns(s), NEW e
    PROVE  Cardinality({i \in DOMAIN s : s[i] = e}) <= 2
<1>1. PICK m \in 0..Len(s) : \A i, j \in DOMAIN s : i < j /\ (j <= m \/ i > m) => s[i] < s[j]
  BY DEF TwoRuns
<1>2. \A i \in DOMAIN s : i \in Nat /\ s[i] \in Nat
  OBVIOUS
<1> DEFINE X == {i \in DOMAIN s : s[i] = e}
           low == {i \in X : i <= m}
           high == {i \in X : i > m}
<1>3. ASSUME NEW Y, Y \subseteq X,
             \A i, j \in Y : i < j => s[i] < s[j]
      PROVE  IsFiniteSet(Y) /\ Cardinality(Y) <= 1
  <2>1. \A i, j \in Y : i = j
    BY <1>2, <1>3
  <2>2. CASE Y = {}
    BY <2>2, FS_EmptySet
  <2>3. CASE Y # {}
    <3>1. PICK i : i \in Y
      BY <2>3
    <3>2. Y = {i}
      BY <2>1, <3>1
    <3>3. IsFiniteSet(Y) /\ Cardinality(Y) = 1
      BY <3>2, FS_Singleton
    <3> QED BY <3>3
  <2> QED BY <2>2, <2>3
<1>4. IsFiniteSet(low) /\ Cardinality(low) <= 1
  <2>1. \A i, j \in low : i < j => s[i] < s[j]
    BY <1>1
  <2> HIDE DEF X
  <2> QED BY <1>3, <2>1
<1>5. IsFiniteSet(high) /\ Cardinality(high) <= 1
  <2>1. \A i, j \in high : i < j => s[i] < s[j]
    BY <1>1
  <2> HIDE DEF X
  <2> QED BY <1>3, <2>1
<1>6. X = low \cup high /\ low \cap high = {}
  BY <1>1, <1>2
<1> HIDE DEF low, high
<1>7. Cardinality(X) = Cardinality(low) + Cardinality(high) - 0
  <2> HIDE DEF X
  <2>1. Cardinality(low \cup high) =
            Cardinality(low) + Cardinality(high) - Cardinality(low \cap high)
    BY <1>4, <1>5, FS_Union
  <2> QED BY <1>6, <2>1, FS_EmptySet
<1>8. Cardinality(low) \in Nat /\ Cardinality(high) \in Nat
  BY <1>4, <1>5, FS_CardinalityType
<1> QED BY <1>4, <1>5, <1>7, <1>8

\* The invariant as it is in the actions that send nothing with rows.
LEMMA RunsStutter ==
    ASSUME TypeInv, RunsInv, cancelled' = cancelled, batch' \in {batch, <<>>},
           table' = table, tx' \in {tx, <<>>},
           cancelled => writer' # "get",
           NEW n \in Nat, DOMAIN ops' = 1..n,
           \A k \in 1..n : \/ ops'[k].rows = <<>>
                           \/ k \in DOMAIN ops /\ ops'[k].rows = ops[k].rows
    PROVE  RunsInv'
<1>1. table \in Seq(Nat) /\ tx \in Seq(Nat) /\ DOMAIN ops = 1..Len(ops) /\ Len(ops) \in Nat
  BY DEF TypeInv, TypeOK, DbOK, ChannelOK
<1>2. Inc(batch')
  BY DEF RunsInv, Inc
<1>3. SUFFICES ASSUME cancelled
               PROVE  /\ TwoRuns(table \o tx')
                      /\ \A k \in Loaded' : Inc(ops'[k].rows) /\ Inc(table \o tx')
                      /\ \A k, l \in Loaded' : k < l =>
                            /\ Before(table \o tx', ops'[k].rows)
                            /\ \A m \in Loaded' : m \in {k, l}
  BY <1>2 DEF RunsInv
<1>4. Loaded' \subseteq Loaded /\ \A k \in Loaded' : ops'[k].rows = ops[k].rows
  BY DEF Loaded
<1>5. /\ TwoRuns(table \o tx) => TwoRuns(table \o tx')
      /\ Inc(table \o tx) => Inc(table \o tx')
      /\ \A r : Before(table \o tx, r) => Before(table \o tx', r)
  <2>1. CASE tx' = <<>>
    <3>1. table \o tx' = table
      BY <1>1, <2>1
    <3> QED BY <1>1, <3>1, FrontOfRuns
  <2> QED BY <2>1
<1> QED BY <1>3, <1>4, <1>5 DEF RunsInv

\* A batch comes from the front of the queue, which is in order.
LEMMA TakeRuns == TypeInv /\ OrderInv /\ RunsInv /\ Take => RunsInv'
<1> SUFFICES ASSUME TypeInv, OrderInv, RunsInv, Take PROVE RunsInv'
  OBVIOUS
<1> DEFINE n == TakeCount
           taken == SubSeq(queue, 1, n)
<1>1. /\ QueueOK /\ batch = <<>> /\ queue # <<>> /\ ~cancelled /\ ~cancelled'
      /\ queue \in Seq(Items) /\ Len(queue) \in Nat /\ batch' = batch \o taken
  BY SequencesTyped DEF Take, TypeInv, TypeOK, BatchEmptyAtGet, RunsInv
<1>2. n \in 0..Len(queue) /\ taken \in Seq(Nat)
  BY <1>1, TakeParts
<1>3. batch' = taken
  <2> HIDE DEF taken
  <2> QED BY <1>1, <1>2
<1>4. Inc(queue)
  BY <1>1 DEF OrderInv, RowsInOrder
<1>5. Inc(taken)
  <2>1. 1 \in 1..(Len(queue) + 1)
    BY <1>1
  <2> HIDE DEF n
  <2> QED BY <1>1, <1>2, <1>4, <2>1, PartInherits
<1> QED BY <1>1, <1>3, <1>5 DEF RunsInv

\* The thread puts the rows of the first request, or some of them, behind the
\* log: they follow in order, or they begin the second run.
LEMMA ThreadRuns == TypeInv /\ RunsInv /\ Thread => RunsInv'
<1> SUFFICES ASSUME TypeInv, RunsInv, Thread PROVE RunsInv'
  OBVIOUS
<1>1. /\ UNCHANGED <<batch, writer, cancelled>>
      /\ ops # <<>> /\ ops \in Seq(Request) /\ ops' = Tail(ops)
      /\ table \in Seq(Nat) /\ tx \in Seq(Nat) /\ TypeOK
  BY DEF Thread, ExecWrite, ExecRowFails, ExecRollsBack, ExecCommit, ExecCommitFails,
     Answer, task, TypeInv, TypeOK, ChannelOK, DbOK
<1>2. Inc(batch') /\ (cancelled => writer' # "get")
  BY <1>1 DEF RunsInv
<1>3. SUFFICES ASSUME cancelled PROVE RunsInv'
  BY <1>1, <1>2 DEF RunsInv
<1> DEFINE log == table \o tx
           r == ops[1].rows
<1>4. /\ Len(ops) \in Nat /\ DOMAIN ops = 1..Len(ops) /\ 1 \in DOMAIN ops /\ Head(ops) = ops[1]
      /\ DOMAIN ops' = 1..(Len(ops) - 1)
      /\ \A k \in DOMAIN ops' : k \in Nat /\ k + 1 \in DOMAIN ops /\ k + 1 > 1 /\ ops'[k] = ops[k + 1]
  BY <1>1
<1>5. \A k \in Loaded' : k \in Nat /\ k + 1 \in Loaded /\ k + 1 > 1 /\ ops'[k].rows = ops[k + 1].rows
  BY <1>4 DEF Loaded
<1>6. log \in Seq(Nat) /\ r \in Seq(Nat)
  <2>1. r \in Seq(Nat)
    BY <1>4, RequestTypes, <1>1
  <2> QED BY <1>1, <2>1
<1>7. /\ TwoRuns(log)
      /\ \A k \in Loaded : Inc(ops[k].rows) /\ Inc(log)
      /\ \A k, l \in Loaded : k < l =>
            Before(log, ops[k].rows) /\ \A m \in Loaded : m \in {k, l}
  BY <1>3 DEF RunsInv
<1>8. \A k, l \in Loaded' : k < l => \A m \in Loaded' : m \in {k, l}
  <2> SUFFICES ASSUME NEW k \in Loaded', NEW l \in Loaded', k < l, NEW m \in Loaded'
               PROVE  m \in {k, l}
    OBVIOUS
  <2>1. k + 1 < l + 1
    BY <1>5
  <2>2. m + 1 \in {k + 1, l + 1}
    BY <1>5, <1>7, <2>1
  <2> QED BY <1>5, <2>2
\* The log stays as it is or loses its end.
<1>9. ASSUME \/ table' \o tx' = log
             \/ table' \o tx' = table
      PROVE  RunsInv'
  <2>1. /\ TwoRuns(table' \o tx') /\ (Inc(log) => Inc(table' \o tx'))
        /\ \A x : Before(log, x) => Before(table' \o tx', x)
    BY <1>1, <1>7, <1>9, FrontOfRuns
  <2>2. \A k, l \in Loaded' : k < l => Before(table' \o tx', ops'[k].rows)
    <3> SUFFICES ASSUME NEW k \in Loaded', NEW l \in Loaded', k < l
                 PROVE  Before(log, ops'[k].rows)
      BY <2>1
    <3>1. k + 1 < l + 1
      BY <1>5
    <3> QED BY <1>5, <1>7, <3>1
  <2>3. \A k \in Loaded' : Inc(ops'[k].rows) /\ Inc(table' \o tx')
    BY <1>5, <1>7, <2>1
  <2> HIDE DEF log
  <2> QED BY <1>1, <1>2, <1>8, <2>1, <2>2, <2>3 DEF RunsInv
\* Rows join the log.
<1>10. ASSUME NEW p \in Seq(Nat), tx' = tx \o p, table' = table,
              p = <<>> \/ r # <<>>, Inc(r) => Inc(p), \A u : Before(u, r) => Before(u, p)
       PROVE  RunsInv'
  <2>1. table' \o tx' = log \o p
    <3>1. table \in Seq(Nat) /\ tx \in Seq(Nat) /\ p \in Seq(Nat)
      BY <1>1, <1>10
    <3>2. (table \o tx) \o p = table \o (tx \o p)
      BY <3>1, Regrouped
    <3> QED BY <1>10, <3>2
  <2>2. CASE p = <<>>
    <3>1. log \o p = log
      BY <1>6, <2>2
    <3> HIDE DEF log
    <3> QED BY <1>9, <2>1, <3>1
  <2>3. CASE r # <<>>
    <3>1. 1 \in Loaded /\ Inc(log) /\ Inc(p)
      BY <1>4, <1>7, <1>10, <2>3 DEF Loaded
    <3>2. TwoRuns(log \o p)
      <4> HIDE DEF log
      <4> QED BY <1>6, <1>10, <3>1, RunAfterRun
    <3>3. \A k \in Loaded' : Before(log, r) /\ Inc(ops'[k].rows)
      BY <1>5, <1>7, <3>1
    <3>4. \A k, l \in Loaded' : k = l
      <4> SUFFICES ASSUME NEW k \in Loaded', NEW l \in Loaded' PROVE k = l
        OBVIOUS
      <4>1. 1 < k + 1 /\ k + 1 \in Loaded /\ l + 1 \in Loaded /\ l + 1 > 1
        BY <1>5
      <4>2. l + 1 \in {1, k + 1}
        BY <1>7, <3>1, <4>1
      <4> QED BY <1>5, <4>1, <4>2
    <3>5. ASSUME NEW k \in Loaded' PROVE Inc(log \o p)
      <4>1. log \in Seq(Items) /\ p \in Seq(Items) /\ Before(log, p)
        <5>1. \A s \in Seq(Nat) : s \in Seq(Items)
          BY DEF Items
        <5> HIDE DEF log
        <5> QED BY <1>6, <1>10, <3>3, <3>5, <5>1
      <4> HIDE DEF log
      <4> QED BY <3>1, <4>1, IncConcat
    <3>6. \A k, l \in Loaded' : ~(k < l)
      BY <1>5, <3>4
    <3> HIDE DEF log
    <3> QED BY <1>1, <1>2, <2>1, <3>2, <3>3, <3>5, <3>6 DEF RunsInv
  <2> QED BY <1>10, <2>2, <2>3
<1>11. CASE ExecWrite
  <2>1. tx' = tx \o r /\ table' = table
    BY <1>4, <1>11 DEF ExecWrite
  <2>2. r = <<>> \/ r # <<>>
    OBVIOUS
  <2> HIDE DEF r
  <2> QED BY <1>6, <1>10, <2>1, <2>2
<1>12. CASE ExecRowFails
  <2>1. PICK k \in 0..Len(r) : tx' = tx \o SubSeq(r, 1, k) /\ table' = table
    BY <1>4, <1>12 DEF ExecRowFails
  <2> DEFINE p == SubSeq(r, 1, k)
  <2> HIDE DEF r
  <2>2. p \in Seq(Nat) /\ (p = <<>> \/ r # <<>>)
    BY <1>6, <2>1
  <2>3. /\ \A i \in DOMAIN p : i \in DOMAIN r /\ p[i] = r[i]
    BY <1>6, <2>1
  <2>4. (Inc(r) => Inc(p)) /\ \A u : Before(u, r) => Before(u, p)
    <3> HIDE DEF p
    <3> QED BY <2>3 DEF Inc, Before
  <2> QED BY <1>10, <2>1, <2>2, <2>4
<1>13. CASE ExecRollsBack
  <2>1. tx' = <<>> /\ table' = table
    BY <1>13 DEF ExecRollsBack
  <2>2. table' \o tx' = table
    BY <1>1, <2>1
  <2> QED BY <1>9, <2>2
<1>14. CASE ExecCommit
  <2>1. tx' = <<>> /\ table' = table \o tx
    BY <1>14 DEF ExecCommit
  <2>2. table' \o tx' = log
    BY <1>1, <2>1
  <2> QED BY <1>9, <2>2
<1>15. CASE ExecCommitFails
  BY <1>9, <1>15 DEF ExecCommitFails, db
<1> QED BY <1>11, <1>12, <1>13, <1>14, <1>15 DEF Thread

\* The cancellation sends the batch again, behind the one request with rows.
LEMMA TimeoutRuns == TypeInv /\ OrderInv /\ RunsInv /\ ShutdownTimeout => RunsInv'
<1> SUFFICES ASSUME TypeInv, OrderInv, RunsInv, ShutdownTimeout PROVE RunsInv'
  OBVIOUS
<1>1. /\ ~cancelled /\ cancelled' /\ batch' = batch /\ writer # "done"
      /\ table' = table /\ tx' = tx /\ TypeOK /\ RowsInOrder /\ OneWriterRequest
  BY DEF ShutdownTimeout, CancelWriter, db, OrderInv, TypeInv
<1>2. /\ table \in Seq(Nat) /\ tx \in Seq(Nat) /\ batch \in Seq(Nat)
      /\ ops \in Seq(Request) /\ Len(ops) \in Nat /\ DOMAIN ops = 1..Len(ops)
  BY <1>1, RequestTypes DEF TypeOK, DbOK, TaskOK
<1>3. Inc(table \o tx) /\ TwoRuns(table \o tx)
  <2>1. Inc(table \o tx)
    BY <1>1, SequencesTyped, IncConcat DEF RowsInOrder
  <2>2. table \o tx \in Seq(Nat)
    BY <1>2
  <2> QED BY <2>1, <2>2, RunIsTwo
<1>4. \A k \in Loaded : /\ Inc(ops[k].rows) /\ Before(table \o tx, ops[k].rows)
                        /\ ops[k].by = "writer"
  <2> SUFFICES ASSUME NEW k \in Loaded
               PROVE  Inc(ops[k].rows) /\ Before(table \o tx, ops[k].rows) /\ ops[k].by = "writer"
    OBVIOUS
  <2>1. k \in DOMAIN ops /\ ops[k].rows # <<>>
    BY DEF Loaded
  <2>2. /\ Inc(ops[k].rows) /\ Before(table, ops[k].rows) /\ Before(tx, ops[k].rows)
        /\ ops[k].by = "writer"
    BY <1>1, <2>1 DEF RowsInOrder, OneWriterRequest
  <2>3. ops[k].rows \in Seq(Items) /\ table \in Seq(Items) /\ tx \in Seq(Items)
    BY <1>1, <2>1, SequencesTyped
  <2> QED BY <2>2, <2>3, BeforeConcatLeft
<1>5. \A k, l \in Loaded : k = l
  BY <1>1, <1>4 DEF OneWriterRequest, Loaded
<1>6. CASE batch = <<>>
  <2>1. writer' = "done" /\ ops' = ops
    BY <1>6 DEF ShutdownTimeout, CancelWriter, channel
  <2>2. Loaded' = Loaded /\ \A k \in Loaded : k \in Nat
    BY <1>2, <2>1 DEF Loaded
  <2>3. \A k, l \in Loaded : ~(k < l)
    BY <1>5, <2>2
  <2> QED BY <1>1, <1>3, <1>4, <2>1, <2>2, <2>3 DEF RunsInv
<1>7. CASE batch # <<>>
  <2>1. writer' = "insert" /\ ops' = Append(Orphaned("writer"), Op("insert", batch, "writer"))
    BY <1>7 DEF ShutdownTimeout, CancelWriter
  <2>2. /\ Orphaned("writer") \in Seq(Request) /\ Len(Orphaned("writer")) = Len(ops)
        /\ \A i \in 1..Len(ops) : Orphaned("writer")[i].rows = ops[i].rows
    BY <1>1, OrphanedType DEF TypeOK, Users
  <2>3. Op("insert", batch, "writer") \in Request /\ Op("insert", batch, "writer").rows = batch
    BY <1>2 DEF Op, Request, Users
  <2>4. /\ DOMAIN ops' = 1..(Len(ops) + 1) /\ ops'[Len(ops) + 1].rows = batch
        /\ \A i \in 1..Len(ops) : ops'[i].rows = ops[i].rows
    BY <1>2, <2>1, <2>2, <2>3
  <2>5. \A k \in Loaded' : \/ k \in Loaded /\ k \in 1..Len(ops) /\ ops'[k].rows = ops[k].rows
                           \/ k = Len(ops) + 1 /\ ops'[k].rows = batch
    BY SMTT(30), <1>2, <2>4 DEF Loaded
  <2>6. \A k \in Loaded' : Inc(ops'[k].rows)
    BY <1>4, <2>5 DEF RunsInv
  <2>7. ASSUME NEW k \in Loaded', NEW l \in Loaded', k < l
        PROVE  Before(table \o tx, ops'[k].rows) /\ \A m \in Loaded' : m \in {k, l}
    <3>0. l \in 1..(Len(ops) + 1)
      BY <1>2, <2>5
    <3>1. k \in Loaded /\ k \in 1..Len(ops) /\ ops'[k].rows = ops[k].rows
      BY <1>2, <2>5, <2>7, <3>0
    <3>2. l = Len(ops) + 1
      BY <1>2, <1>5, <2>5, <2>7, <3>1
    <3> QED BY <1>4, <1>5, <2>5, <3>1, <3>2
  <2> QED BY <1>1, <1>3, <2>1, <2>6, <2>7 DEF RunsInv
<1> QED BY <1>6, <1>7

\* Neither Take, nor the thread, nor the timer.
Quiet ==
    \/ Record \/ Inserted \/ Committed \/ FlushFailed
    \/ Upsert \/ Upserted \/ UpsertCommitted \/ UpsertCancelled
    \/ BeginShutdown \/ PutStop \/ WriterJoined \/ SessionWritten \/ SessionCommitted
    \/ CloseStorage \/ UNCHANGED vars

\* The other actions leave the rows of the requests alone, and a request that
\* they send has none.
LEMMA QuietRows ==
    ASSUME TypeInv, Quiet
    PROVE  \E n \in Nat :
             /\ DOMAIN ops' = 1..n
             /\ \A k \in 1..n :
                    \/ ops'[k].rows = <<>>
                    \/ /\ k \in DOMAIN ops
                       /\ ops'[k].rows = ops[k].rows /\ ops'[k].kind = ops[k].kind
<1>1. /\ ops \in Seq(Request) /\ Len(ops) \in Nat /\ DOMAIN ops = 1..Len(ops)
  BY DEF TypeInv, TypeOK, ChannelOK
<1>2. \/ ops' = ops
      \/ \E kind \in {"commit", "upsert", "end"}, by \in Users :
            ops' = Append(ops, Op(kind, <<>>, by))
      \/ ops' = Orphaned("proxy")
  BY DEF Quiet, Record, Inserted, Committed, FlushFailed, Upsert, Upserted,
     UpsertCommitted, UpsertCancelled, BeginShutdown, PutStop, WriterJoined, SessionWritten,
     SessionCommitted, CloseStorage, Submit, channel, vars, Users
<1>3. ASSUME NEW kind \in {"commit", "upsert", "end"}, NEW by \in Users,
             ops' = Append(ops, Op(kind, <<>>, by))
      PROVE  /\ DOMAIN ops' = 1..(Len(ops) + 1)
             /\ \A k \in 1..(Len(ops) + 1) :
                    \/ ops'[k].rows = <<>>
                    \/ k \in DOMAIN ops /\ ops'[k] = ops[k]
  <2>1. Op(kind, <<>>, by) \in Request /\ Op(kind, <<>>, by).rows = <<>>
    BY DEF Op, Request
  <2>2. /\ DOMAIN ops' = 1..(Len(ops) + 1) /\ ops'[Len(ops) + 1].rows = <<>>
        /\ \A k \in 1..Len(ops) : ops'[k] = ops[k]
    BY <1>1, <1>3, <2>1
  <2> QED BY <1>1, <2>2
<1>4. CASE ops' = Orphaned("proxy")
  <2>1. /\ Orphaned("proxy") \in Seq(Request) /\ Len(Orphaned("proxy")) = Len(ops)
        /\ \A i \in 1..Len(ops) : /\ Orphaned("proxy")[i].rows = ops[i].rows
                                  /\ Orphaned("proxy")[i].kind = ops[i].kind
    BY OrphanedType DEF TypeInv, TypeOK, Users
  <2>2. /\ DOMAIN ops' = 1..Len(ops)
        /\ \A i \in 1..Len(ops) : ops'[i].rows = ops[i].rows /\ ops'[i].kind = ops[i].kind
    BY <1>1, <1>4, <2>1
  <2> QED BY <1>1, <2>2
<1>5. Len(ops) + 1 \in Nat
  BY <1>1
<1> QED BY <1>1, <1>2, <1>3, <1>4, <1>5

\* The other steps send nothing with rows.
LEMMA OthersRuns == TypeInv /\ RunsInv /\ Quiet => RunsInv'
<1> SUFFICES ASSUME TypeInv, RunsInv, Quiet PROVE RunsInv'
  OBVIOUS
<1>1. /\ cancelled' = cancelled /\ batch' \in {batch, <<>>} /\ table' = table
      /\ tx' \in {tx, <<>>} /\ (cancelled => writer' # "get")
  BY DEF Quiet, Record, Inserted, Committed, FlushFailed, EndFlush, Upsert, Upserted,
     UpsertCommitted, UpsertCancelled, BeginShutdown, PutStop, WriterJoined, SessionWritten,
     SessionCommitted, CloseStorage, RunsInv, buffer, task, db, vars
<1>2. PICK n \in Nat :
        /\ DOMAIN ops' = 1..n
        /\ \A k \in 1..n : \/ ops'[k].rows = <<>>
                           \/ k \in DOMAIN ops /\ ops'[k].rows = ops[k].rows
  BY QuietRows
<1> QED BY <1>1, <1>2, RunsStutter

\* The log is in two runs, whenever the writer was cancelled.
THEOREM RunsInvariance == Spec => []RunsInv
<1>1. Init => RunsInv
  BY DEF Init, RunsInv, Inc
<1>2. TypeInv /\ OrderInv /\ RunsInv /\ [Next]_vars => RunsInv'
  BY TakeRuns, ThreadRuns, TimeoutRuns, OthersRuns
  DEF Next, Writer, CacheWrite, Shutdown, Closed, Quiet
<1> QED BY <1>1, <1>2, TypeInvariance, OrderInvariance, PTL DEF Spec

\* Even a cancelled writer stores a row at most twice: the abandoned
\* executemany and the flush of its cancellation handler (storage.py, _run).
THEOREM StoredAtMostTwice == Spec => []AtMostTwice
<1>1. TypeInv /\ OrderInv /\ RunsInv => AtMostTwice
  <2> SUFFICES ASSUME TypeInv, OrderInv, RunsInv PROVE AtMostTwice
    OBVIOUS
  <2>1. table \in Seq(Nat) /\ tx \in Seq(Nat) /\ TypeOK
    BY DEF TypeInv, TypeOK, DbOK
  <2>2. TwoRuns(table)
    <3>1. CASE cancelled
      BY <2>1, <3>1, FrontOfRuns DEF RunsInv
    <3>2. CASE ~cancelled
      BY <2>1, <3>2, RunIsTwo DEF OrderInv, RowsInOrder
    <3> QED BY <3>1, <3>2
  <2> QED BY <2>1, <2>2, TwiceAtMost DEF AtMostTwice
<1> QED BY <1>1, TypeInvariance, OrderInvariance, RunsInvariance, PTL

-------------------------------------------------------------------------------
(* The end of the session.                                                 *)
(*                                                                         *)
(* When end_session() asks for its write the writer has ended, so the      *)
(* write is the last request of all, its commit finds the connection       *)
(* without any other, and nothing comes between the two.                   *)

\* The pumps and run_proxy await one request at a time.
OneRequest ==
    \A k \in DOMAIN ops : ops[k].by = "proxy" =>
        /\ reply["proxy"] = "none"
        /\ proxy \in {"upsert", "upsertcommit", "ending", "endcommit"}
        /\ \A l \in DOMAIN ops : ops[l].by = "proxy" => k = l

\* Where the write of end_session() and its commit are.
EndWrite ==
    /\ proxy = "ending" /\ reply["proxy"] = "none" =>
        /\ Len(ops) > 0
        /\ ops[Len(ops)].by = "proxy" /\ ops[Len(ops)].kind = "end"
    /\ proxy = "ending" /\ reply["proxy"] = "ok" => ops = <<>> /\ session = "written"

EndCommit ==
    /\ proxy = "endcommit" /\ reply["proxy"] = "none" =>
        /\ Len(ops) = 1 /\ ops[1].by = "proxy" /\ ops[1].kind = "commit"
        /\ session = "written"
    /\ proxy = "endcommit" /\ reply["proxy"] = "ok" => ops = <<>> /\ session = "ended"

WriterFirst == proxy \in {"ending", "endcommit", "closing", "closed"} => writer = "done"

SessionInv == WriterFirst /\ OneRequest /\ EndWrite /\ EndCommit

\* A new request of the proxy is its only one.
LEMMA SubmitSession ==
    ASSUME TypeOK, OneRequest, NEW kind \in {"insert", "upsert", "end", "commit"},
           NEW rows \in Seq(Nat), NEW by \in Users, Submit(kind, rows, by),
           by = "proxy" =>
              /\ \A k \in DOMAIN ops : ops[k].by # "proxy"
              /\ proxy' \in {"upsert", "upsertcommit", "ending", "endcommit"},
           by # "proxy" => proxy' = proxy
    PROVE  /\ OneRequest'
           /\ Len(ops') = Len(ops) + 1
           /\ ops'[Len(ops')].by = by /\ ops'[Len(ops')].kind = kind
           /\ by = "proxy" => reply'["proxy"] = "none"
<1>1. ops \in Seq(Request) /\ reply \in [Users -> {"none", "ok", "err"}]
  BY DEF TypeOK, ChannelOK
<1>2. Op(kind, rows, by) \in Request
  BY DEF Op, Request
<1>3. ops' = Append(ops, Op(kind, rows, by)) /\ reply' = [reply EXCEPT ![by] = "none"]
  BY DEF Submit
<1>4. /\ DOMAIN ops' = 1..(Len(ops) + 1) /\ Len(ops') = Len(ops) + 1 /\ Len(ops) \in Nat
      /\ DOMAIN ops = 1..Len(ops)
      /\ \A k \in 1..Len(ops) : ops'[k] = ops[k]
      /\ ops'[Len(ops) + 1] = Op(kind, rows, by)
  BY <1>1, <1>2, <1>3
<1>5. ops'[Len(ops) + 1].by = by /\ ops'[Len(ops) + 1].kind = kind
  BY <1>4 DEF Op
<1>6. /\ by # "proxy" => reply'["proxy"] = reply["proxy"]
      /\ by = "proxy" => reply'["proxy"] = "none"
  BY <1>1, <1>3 DEF Users
<1>7. \A k \in DOMAIN ops' : k \in DOMAIN ops \/ k = Len(ops) + 1
  BY <1>4
<1>8. OneRequest'
  BY <1>4, <1>5, <1>6, <1>7 DEF OneRequest
<1> QED BY <1>4, <1>5, <1>6, <1>8

\* The tasks: only the proxy's own steps reach its requests and its end.
LEMMA TasksSession ==
    TypeInv /\ SessionInv
      /\ (Record \/ Writer \/ Upsert \/ CacheWrite \/ UpsertCancelled \/ BeginShutdown
            \/ Shutdown \/ ShutdownTimeout \/ Closed)
    => SessionInv'
<1> SUFFICES ASSUME TypeInv, SessionInv,
                    \/ Record \/ Writer \/ Upsert \/ CacheWrite \/ UpsertCancelled
                    \/ BeginShutdown \/ Shutdown \/ ShutdownTimeout \/ Closed
             PROVE  SessionInv'
  OBVIOUS
<1>1. TypeOK /\ DOMAIN ops = 1..Len(ops) /\ Len(ops) \in Nat
  BY DEF TypeInv, TypeOK, ChannelOK
<1>2. reply["proxy"] # "none" \/ proxy \in {"running", "stopping", "waiting", "closing"} =>
        \A k \in DOMAIN ops : ops[k].by # "proxy"
  BY DEF SessionInv, OneRequest
\* Nothing is sent.
<1>3. ASSUME UNCHANGED <<ops, reply, session, proxy>>, writer' = writer \/ writer # "done"
      PROVE  SessionInv'
  BY <1>3 DEF SessionInv, WriterFirst, OneRequest, EndWrite, EndCommit
<1>4. ASSUME proxy' \in {"running", "stopping", "waiting", "closing", "closed"},
             \A k \in DOMAIN ops' : ops'[k].by # "proxy",
             proxy' \in {"closing", "closed"} => writer' = "done"
      PROVE  SessionInv'
  BY <1>4 DEF SessionInv, WriterFirst, OneRequest, EndWrite, EndCommit
<1>5. CASE Record \/ Closed \/ Committed \/ FlushFailed
  <2>1. UNCHANGED <<ops, reply, session, proxy>>
    BY <1>5 DEF Record, Closed, Committed, FlushFailed, channel, db, vars
  <2>2. writer' = writer \/ writer # "done"
    BY <1>5 DEF Record, Closed, Committed, FlushFailed, task, vars
  <2> QED BY <1>3, <2>1, <2>2
<1>6. CASE Take \/ Inserted
  <2>1. UNCHANGED <<session, proxy>> /\ writer # "done"
    BY <1>6 DEF Take, Inserted, db
  <2>2. CASE UNCHANGED channel
    BY <1>3, <2>1, <2>2 DEF channel
  <2>3. ASSUME NEW kind \in {"insert", "commit"}, NEW rows \in Seq(Nat),
               Submit(kind, rows, "writer")
        PROVE  SessionInv'
    <3>1. OneRequest'
      BY <1>1, <2>1, <2>3, SubmitSession DEF SessionInv, Users
    <3> QED BY <2>1, <3>1 DEF SessionInv, WriterFirst, EndWrite, EndCommit
  <2>4. CASE Take
    <3>1. UNCHANGED channel \/ Submit("insert", batch', "writer")
      BY <2>4 DEF Take
    <3>2. batch' \in Seq(Nat)
      BY <2>4, TakeType DEF TypeInv, TypeOK, TaskOK
    <3> QED BY <2>2, <2>3, <3>1, <3>2
  <2>5. CASE Inserted
    <3>1. Submit("commit", <<>>, "writer") /\ <<>> \in Seq(Nat)
      BY <2>5 DEF Inserted
    <3> QED BY <2>3, <3>1
  <2> QED BY <1>6, <2>4, <2>5
<1>7. ASSUME NEW kind \in {"upsert", "commit", "end"}, Submit(kind, <<>>, "proxy"),
             \A k \in DOMAIN ops : ops[k].by # "proxy",
             proxy' \in {"upsert", "upsertcommit", "ending", "endcommit"}
      PROVE  /\ OneRequest' /\ Len(ops') = Len(ops) + 1 /\ reply'["proxy"] = "none"
             /\ ops'[Len(ops')].by = "proxy" /\ ops'[Len(ops')].kind = kind
  <2>1. <<>> \in Seq(Nat)
    OBVIOUS
  <2> QED BY <1>1, <1>7, <2>1, SubmitSession DEF SessionInv, Users
<1>8. CASE Upsert \/ Upserted \/ UpsertCommitted
  <2>1. \A k \in DOMAIN ops : ops[k].by # "proxy"
    BY <1>2, <1>8 DEF Upsert, Upserted, UpsertCommitted
  <2>2. CASE proxy' = "running"
    <3>1. UNCHANGED channel
      BY <1>8, <2>2 DEF Upsert, Upserted, UpsertCommitted
    <3> QED BY <1>4, <2>1, <2>2, <3>1 DEF channel
  <2>3. CASE proxy' # "running"
    <3>1. /\ proxy' \in {"upsert", "upsertcommit"}
          /\ \E kind \in {"upsert", "commit"} : Submit(kind, <<>>, "proxy")
      BY <1>8, <2>3 DEF Upsert, Upserted, UpsertCommitted
    <3>2. OneRequest'
      BY <1>7, <2>1, <3>1
    <3> QED BY <3>1, <3>2 DEF SessionInv, WriterFirst, EndWrite, EndCommit
  <2> QED BY <2>2, <2>3
<1>9. CASE UpsertCancelled
  <2>1. proxy' = "running" /\ ops' = Orphaned("proxy")
    BY <1>9 DEF UpsertCancelled
  <2>2. \A k \in DOMAIN ops' : ops'[k].by # "proxy"
    BY <1>1, <2>1, OrphanedType DEF TypeOK, ChannelOK, Users
  <2> QED BY <1>4, <2>1, <2>2
<1>10. CASE BeginShutdown \/ PutStop \/ SessionCommitted \/ CloseStorage
  <2>1. ops' = ops /\ writer' = writer
    BY <1>10 DEF BeginShutdown, PutStop, SessionCommitted, CloseStorage, channel, task
  <2>2. /\ proxy' \in {"stopping", "waiting", "closing", "closed"}
        /\ proxy' \in {"closing", "closed"} => proxy \in {"endcommit", "closing"}
        /\ reply["proxy"] # "none" \/ proxy \in {"running", "stopping", "waiting", "closing"}
    BY <1>10 DEF BeginShutdown, PutStop, SessionCommitted, CloseStorage
  <2> QED BY <1>2, <1>4, <2>1, <2>2 DEF SessionInv, WriterFirst
<1>11. CASE ShutdownTimeout
  <2>1. proxy' = "waiting" /\ proxy = "waiting" /\ CancelWriter
    BY <1>11 DEF ShutdownTimeout
  <2>2. \A k \in DOMAIN ops' : ops'[k].by # "proxy"
    <3>1. CASE UNCHANGED channel
      BY <1>2, <2>1, <3>1 DEF channel
    <3>2. CASE ops' = Append(Orphaned("writer"), Op("insert", batch, "writer"))
      <4>1. /\ Orphaned("writer") \in Seq(Request) /\ Len(Orphaned("writer")) = Len(ops)
            /\ \A k \in DOMAIN ops : Orphaned("writer")[k].by \in {ops[k].by, "nobody"}
        <5>1. /\ Orphaned("writer") \in Seq(Request) /\ DOMAIN Orphaned("writer") = DOMAIN ops
              /\ \A k \in DOMAIN ops : Orphaned("writer")[k].by =
                     (IF ops[k].by = "writer" THEN "nobody" ELSE ops[k].by)
          BY <1>1, OrphanedType DEF TypeOK, ChannelOK, Users
        <5> QED BY <1>1, <5>1
      <4>2. Op("insert", batch, "writer") \in Request
        BY <1>1 DEF Op, Request, TypeOK, TaskOK, Users
      <4>3. Op("insert", batch, "writer").by = "writer"
        BY DEF Op
      <4>4. \A k \in DOMAIN ops' :
               \/ k \in DOMAIN ops /\ ops'[k] = Orphaned("writer")[k]
               \/ ops'[k] = Op("insert", batch, "writer")
        BY <1>1, <3>2, <4>1, <4>2
      <4> QED BY <1>2, <2>1, <4>1, <4>3, <4>4
    <3> QED BY <2>1, <3>1, <3>2 DEF CancelWriter
  <2> QED BY <1>4, <2>1, <2>2
<1>12. CASE WriterJoined \/ SessionWritten
  <2>1. \A k \in DOMAIN ops : ops[k].by # "proxy"
    BY <1>2, <1>12 DEF WriterJoined, SessionWritten
  <2>2. writer = "done" /\ writer' = "done" /\ session' = session
    BY <1>12 DEF WriterJoined, SessionWritten, SessionInv, WriterFirst, task, db
  <2>3. CASE WriterJoined
    <3>1. proxy' = "ending" /\ Submit("end", <<>>, "proxy")
      BY <2>3 DEF WriterJoined
    <3>2. /\ OneRequest' /\ Len(ops') = Len(ops) + 1 /\ reply'["proxy"] = "none"
          /\ ops'[Len(ops')].by = "proxy" /\ ops'[Len(ops')].kind = "end"
      BY <1>7, <2>1, <3>1
    <3> QED BY <1>1, <2>2, <3>1, <3>2 DEF SessionInv, WriterFirst, EndWrite, EndCommit
  <2>4. CASE SessionWritten /\ reply["proxy"] = "ok"
    <3>1. proxy' = "endcommit" /\ Submit("commit", <<>>, "proxy") /\ proxy = "ending"
      BY <2>4 DEF SessionWritten
    <3>2. /\ OneRequest' /\ Len(ops') = Len(ops) + 1 /\ reply'["proxy"] = "none"
          /\ ops'[Len(ops')].by = "proxy" /\ ops'[Len(ops')].kind = "commit"
      BY <1>7, <2>1, <3>1
    <3>3. ops = <<>> /\ session = "written"
      BY <2>4, <3>1 DEF SessionInv, EndWrite
    <3>4. Len(ops') = 1
      BY <3>2, <3>3
    <3> QED BY <2>2, <3>1, <3>2, <3>3, <3>4 DEF SessionInv, WriterFirst, EndWrite, EndCommit
  <2>5. CASE SessionWritten /\ reply["proxy"] # "ok"
    <3>1. proxy' = "closing" /\ UNCHANGED channel
      BY <2>5 DEF SessionWritten
    <3> QED BY <1>4, <2>1, <2>2, <3>1 DEF channel
  <2> QED BY <1>12, <2>3, <2>4, <2>5
<1> QED BY <1>5, <1>6, <1>8, <1>9, <1>10, <1>11, <1>12 DEF Writer, CacheWrite, Shutdown

\* The thread: it answers the request it has executed.
LEMMA ThreadSession == TypeInv /\ SessionInv /\ Thread => SessionInv'
<1> SUFFICES ASSUME TypeInv, SessionInv, Thread PROVE SessionInv'
  OBVIOUS
<1>1. /\ ops \in Seq(Request) /\ Len(ops) \in Nat /\ DOMAIN ops = 1..Len(ops)
      /\ reply \in [Users -> {"none", "ok", "err"}] /\ session \in {"open", "written", "ended"}
  BY DEF TypeInv, TypeOK, ChannelOK, DbOK
<1>2. /\ UNCHANGED <<writer, proxy>> /\ ops # <<>>
      /\ \E result \in {"ok", "err"} : Answer(result)
  BY DEF Thread, ExecWrite, ExecRowFails, ExecRollsBack, ExecCommit, ExecCommitFails, task
<1> DEFINE first == Head(ops)
<1>3. /\ 1 \in DOMAIN ops /\ first = ops[1] /\ Len(ops) >= 1
      /\ Len(ops') = Len(ops) - 1 /\ DOMAIN ops' = 1..(Len(ops) - 1)
      /\ \A k \in DOMAIN ops' : k + 1 \in DOMAIN ops /\ ops'[k] = ops[k + 1]
      /\ Len(ops) = 1 => ops' = <<>>
  BY <1>1, <1>2 DEF Answer
<1>4. ASSUME NEW result \in {"ok", "err"}, Answer(result)
      PROVE  reply'["proxy"] = IF first.by = "proxy" THEN result ELSE reply["proxy"]
  BY <1>4 DEF Answer, Users
<1>5. first.by = "proxy" =>
        /\ reply["proxy"] = "none"
        /\ proxy \in {"upsert", "upsertcommit", "ending", "endcommit"}
        /\ \A k \in DOMAIN ops' : ops'[k].by # "proxy"
  <2> SUFFICES ASSUME first.by = "proxy"
               PROVE  /\ reply["proxy"] = "none"
                      /\ proxy \in {"upsert", "upsertcommit", "ending", "endcommit"}
                      /\ \A k \in DOMAIN ops' : ops'[k].by # "proxy"
    OBVIOUS
  <2>1. \A l \in DOMAIN ops : ops[l].by = "proxy" => l = 1
    BY <1>3 DEF SessionInv, OneRequest
  <2>2. \A k \in DOMAIN ops' : k + 1 # 1
    BY <1>3
  <2> QED BY <1>3, <2>1, <2>2 DEF SessionInv, OneRequest
<1>6. OneRequest'
  <2> SUFFICES ASSUME NEW k \in DOMAIN ops', ops'[k].by = "proxy"
               PROVE  /\ reply'["proxy"] = "none"
                      /\ proxy \in {"upsert", "upsertcommit", "ending", "endcommit"}
                      /\ \A l \in DOMAIN ops' : ops'[l].by = "proxy" => k = l
    BY <1>2 DEF OneRequest
  <2>1. first.by # "proxy"
    BY <1>5
  <2>2. reply'["proxy"] = reply["proxy"]
    BY <1>2, <1>4, <2>1
  <2>3. \A l \in DOMAIN ops' : ops'[l].by = "proxy" => k + 1 = l + 1
    BY <1>3 DEF SessionInv, OneRequest
  <2>4. \A l \in DOMAIN ops' : k + 1 = l + 1 => k = l
    BY <1>3
  <2> QED BY <1>3, <2>2, <2>3, <2>4 DEF SessionInv, OneRequest
<1>7. CASE proxy = "ending"
  <2>1. reply["proxy"] # "ok"
    BY <1>2, <1>7 DEF SessionInv, EndWrite
  <2>2. CASE first.by # "proxy"
    <3>1. reply'["proxy"] = reply["proxy"]
      BY <1>2, <1>4, <2>2
    <3>2. reply["proxy"] = "none" => Len(ops) # 1 /\ ops'[Len(ops')] = ops[Len(ops)]
      BY <1>3, <1>7, <2>2 DEF SessionInv, EndWrite
    <3>3. reply["proxy"] = "none" => Len(ops') > 0
      BY <1>1, <1>3, <3>2
    <3> QED BY <1>2, <1>6, <1>7, <2>1, <3>1, <3>2, <3>3
            DEF SessionInv, WriterFirst, EndWrite, EndCommit
  <2>3. CASE first.by = "proxy"
    <3>1. Len(ops) = 1 /\ first.kind = "end"
      <4>1. reply["proxy"] = "none" /\ Len(ops) \in DOMAIN ops /\ ops[Len(ops)].by = "proxy"
                /\ ops[Len(ops)].kind = "end"
        BY <1>1, <1>3, <1>5, <1>7, <2>3 DEF SessionInv, EndWrite
      <4> QED BY <1>3, <2>3, <4>1 DEF SessionInv, OneRequest
    <3>2. ops' = <<>>
      BY <1>3, <3>1
    <3>3. ExecWrite => session' = "written"
      BY <3>1 DEF ExecWrite
    <3>4. reply'["proxy"] = "ok" => ExecWrite
      <4>1. ~ExecCommit
        BY <3>1 DEF ExecCommit
      <4>2. ~ExecWrite => Answer("err")
        BY <4>1 DEF Thread, ExecRowFails, ExecRollsBack, ExecCommitFails
      <4> QED BY <1>4, <2>3, <4>2
    <3>5. reply'["proxy"] # "none"
      BY <1>2, <1>4, <2>3
    <3> QED BY <1>2, <1>6, <1>7, <3>2, <3>3, <3>4, <3>5
            DEF SessionInv, WriterFirst, EndWrite, EndCommit
  <2> QED BY <2>2, <2>3
<1>8. CASE proxy = "endcommit"
  <2>1. CASE reply["proxy"] = "none"
    <3>1. /\ Len(ops) = 1 /\ first.by = "proxy" /\ first.kind = "commit"
          /\ session = "written"
      BY <1>3, <1>8, <2>1 DEF SessionInv, EndCommit
    <3>2. reply'["proxy"] # "none"
      BY <1>2, <1>4, <3>1
    <3>3. ops' = <<>>
      BY <1>3, <3>1
    <3>4. reply'["proxy"] = "ok" => session' = "ended"
      <4>1. CASE ExecCommit
        BY <3>1, <4>1 DEF ExecCommit
      <4>2. CASE ~ExecCommit
        <5>1. Answer("err")
          BY <3>1, <4>2 DEF Thread, ExecWrite, ExecRowFails, ExecRollsBack, ExecCommitFails
        <5> QED BY <1>4, <3>1, <5>1
      <4> QED BY <4>1, <4>2
    <3> QED BY <1>2, <1>6, <1>8, <3>2, <3>3, <3>4
            DEF SessionInv, WriterFirst, EndWrite, EndCommit
  <2>2. CASE reply["proxy"] # "none"
    <3>1. first.by # "proxy"
      BY <1>5, <2>2
    <3>2. reply'["proxy"] = reply["proxy"]
      BY <1>2, <1>4, <3>1
    <3>3. reply["proxy"] # "ok"
      BY <1>2, <1>8 DEF SessionInv, EndCommit
    <3> QED BY <1>2, <1>6, <1>8, <2>2, <3>2, <3>3
            DEF SessionInv, WriterFirst, EndWrite, EndCommit
  <2> QED BY <2>1, <2>2
<1>9. CASE proxy \notin {"ending", "endcommit"}
  BY <1>2, <1>6, <1>9 DEF SessionInv, WriterFirst, EndWrite, EndCommit
<1> QED BY <1>7, <1>8, <1>9

\* The requests of the session's end, in every behaviour.
THEOREM SessionInvariance == Spec => []SessionInv
<1>1. Init => SessionInv
  BY DEF Init, SessionInv, WriterFirst, OneRequest, EndWrite, EndCommit
<1>2. TypeInv /\ SessionInv /\ [Next]_vars => SessionInv'
  <2> SUFFICES ASSUME TypeInv, SessionInv, [Next]_vars PROVE SessionInv'
    OBVIOUS
  <2>1. CASE UNCHANGED vars
    BY <2>1 DEF SessionInv, WriterFirst, OneRequest, EndWrite, EndCommit, vars, buffer, task,
                channel, db
  <2> QED BY <2>1, TasksSession, ThreadSession DEF Next
<1> QED BY <1>1, <1>2, TypeInvariance, PTL DEF Spec

\* When run_proxy goes on to close the database after its requests succeeded,
\* the end of the session is durable.
THEOREM SessionEndIsDurable == Spec => SessionEnded
<1>1. TypeInv /\ SessionInv /\ [Next]_vars =>
        [proxy' = "closing" /\ proxy # "closing" /\ reply["proxy"] = "ok" =>
            session = "ended"]_vars
  <2> SUFFICES ASSUME SessionInv, Next, proxy' = "closing", proxy # "closing",
                      reply["proxy"] = "ok"
               PROVE  session = "ended"
    BY DEF vars
  <2>1. SessionWritten \/ SessionCommitted
    <3>1. UNCHANGED proxy \/ proxy' # "closing" \/ SessionWritten \/ SessionCommitted
      BY DEF Next, Record, Writer, Take, Inserted, Committed, FlushFailed, Thread, ExecWrite,
             ExecRowFails, ExecRollsBack, ExecCommit, ExecCommitFails, Upsert, CacheWrite,
             Upserted, UpsertCommitted, UpsertCancelled, BeginShutdown, Shutdown, PutStop,
             WriterJoined, CloseStorage, ShutdownTimeout, Closed, vars
    <3> QED BY <3>1
  <2>2. proxy = "endcommit"
    BY <2>1 DEF SessionWritten, SessionCommitted
  <2> QED BY <2>2 DEF SessionInv, EndCommit
<1> QED BY <1>1, SessionInvariance, TypeInvariance, PTL DEF Spec, SessionEnded

-------------------------------------------------------------------------------
(* The audit path implements AuditLog.                                     *)
(*                                                                         *)
(* An accepted event is pending while one of the four places holds it and  *)
(* the table does not.  A step of the audit path is a step of AuditLog or  *)
(* leaves its state alone; for this one has to know that the places hold   *)
(* nothing but accepted events, that a request brings the writer's batch,  *)
(* and that a row of the transaction that is no longer in the batch was    *)
(* reported as lost, so that a rollback loses nothing silently.            *)

PlacesOK ==
    /\ Range(queue) \subseteq accepted \cup {Stop}
    /\ Range(batch) \cup Range(tx) \cup Range(table) \subseteq accepted
    /\ Range(tx) \subseteq failed \cup Range(batch)
    /\ writer = "commit" /\ reply["writer"] = "ok" => tx = <<>>
    /\ \A k \in DOMAIN ops :
        ops[k].rows # <<>> =>
            ops[k].rows = batch /\ ops[k].kind = "insert" /\ writer = "insert"

PlacesInv == ~cancelled => PlacesOK

\* The events move with the batch from the queue to the writer's request.
LEMMA TakePlaces == TypeInv /\ OrderInv /\ PlacesInv /\ Take => PlacesInv'
<1> SUFFICES ASSUME TypeInv, OrderInv, PlacesInv, Take, ~cancelled PROVE PlacesOK'
  BY DEF PlacesInv, Take
<1> DEFINE n == TakeCount
           taken == SubSeq(queue, 1, n)
<1>1. /\ writer = "get" /\ queue # <<>> /\ batch' = batch \o taken
      /\ queue' = IF SeesStop THEN <<>> ELSE SubSeq(queue, n + 1, Len(queue))
      /\ IF n = 0 THEN writer' = "done" /\ UNCHANGED channel
                  ELSE writer' = "insert" /\ Submit("insert", batch', "writer")
      /\ UNCHANGED <<failed, accepted, tx, table>>
  BY DEF Take, db
<1>2. /\ TypeOK /\ QueueOK /\ queue \in Seq(Items) /\ batch = <<>>
      /\ Stop \notin Nat /\ PlacesOK /\ Len(queue) \in Nat
      /\ ops \in Seq(Request) /\ Len(ops) \in Nat /\ DOMAIN ops = 1..Len(ops)
  BY <1>1, StopAssumption, SequencesTyped
     DEF TypeInv, BatchEmptyAtGet, TypeOK, QueueOK, PlacesInv
<1>3. /\ n \in 0..Len(queue) /\ taken \in Seq(Nat)
      /\ n + 1 \in 1..(Len(queue) + 1) /\ 1 \in 1..(Len(queue) + 1)
  BY <1>1, <1>2, TakeParts
<1>4. batch' = taken
  <2> HIDE DEF taken
  <2> QED BY <1>1, <1>2, <1>3
<1>5. Range(taken) \subseteq accepted
  <2>1. Range(taken) \subseteq Range(queue)
    BY <1>2, <1>3, RangePart
  <2>2. Range(taken) \subseteq Nat
    <3> HIDE DEF taken
    <3> QED BY <1>3 DEF Range
  <2> QED BY <1>2, <2>1, <2>2 DEF PlacesOK
<1>6. Range(queue') \subseteq Range(queue)
  <2>1. Range(<<>>) = {}
    BY RangeEmpty
  <2>2. Range(SubSeq(queue, n + 1, Len(queue))) \subseteq Range(queue)
    <3>1. Len(queue) \in 0..Len(queue)
      BY <1>2
    <3> HIDE DEF n
    <3> QED BY <1>2, <1>3, <3>1, RangePart
  <2> QED BY <1>1, <2>1, <2>2
<1>7. \A k \in DOMAIN ops' :
        ops'[k].rows # <<>> =>
            ops'[k].rows = batch' /\ ops'[k].kind = "insert" /\ writer' = "insert"
  <2>1. \A k \in DOMAIN ops : ops[k].rows = <<>>
    BY <1>1, <1>2 DEF PlacesOK
  <2>2. CASE UNCHANGED channel
    BY <2>1, <2>2 DEF channel
  <2>3. CASE writer' = "insert" /\ Submit("insert", batch', "writer")
    <3>1. ops' = Append(ops, Op("insert", batch', "writer"))
      BY <2>3 DEF Submit
    <3>2. /\ Op("insert", batch', "writer") \in Request
          /\ Op("insert", batch', "writer").rows = batch'
          /\ Op("insert", batch', "writer").kind = "insert"
      BY <1>3, <1>4 DEF Op, Request, Users
    <3>3. \A k \in DOMAIN ops' : \/ k \in DOMAIN ops /\ ops'[k] = ops[k]
                                 \/ ops'[k] = Op("insert", batch', "writer")
      BY <1>2, <3>1, <3>2
    <3> QED BY <2>1, <2>3, <3>2, <3>3
  <2> QED BY <1>1, <2>2, <2>3
<1>8. Range(batch) = {} /\ writer' # "commit"
  BY <1>1, <1>2, RangeEmpty
<1> QED BY <1>1, <1>2, <1>4, <1>5, <1>6, <1>7, <1>8 DEF PlacesOK

\* The thread moves rows of the batch into the transaction.
LEMMA ThreadPlaces == TypeInv /\ OrderInv /\ PlacesInv /\ Thread => PlacesInv'
<1> SUFFICES ASSUME TypeInv, OrderInv, PlacesInv, Thread, ~cancelled' PROVE PlacesOK'
  BY DEF PlacesInv
<1>1. /\ UNCHANGED <<queue, accepted, writer, batch, cancelled, failed>>
      /\ ops # <<>> /\ \E result \in {"ok", "err"} : Answer(result)
  BY DEF Thread, ExecWrite, ExecRowFails, ExecRollsBack, ExecCommit, ExecCommitFails,
         buffer, task
<1>2. /\ ops \in Seq(Request) /\ Len(ops) \in Nat /\ DOMAIN ops = 1..Len(ops)
      /\ table \in Seq(Nat) /\ tx \in Seq(Nat) /\ batch \in Seq(Nat)
      /\ reply \in [Users -> {"none", "ok", "err"}]
      /\ PlacesOK /\ OneWriterRequest
  BY <1>1 DEF TypeInv, TypeOK, ChannelOK, DbOK, TaskOK, PlacesInv, OrderInv
<1> DEFINE first == Head(ops)
           r == first.rows
<1>3. /\ 1 \in DOMAIN ops /\ first = ops[1]
      /\ DOMAIN ops' = 1..(Len(ops) - 1)
      /\ \A k \in DOMAIN ops' : k + 1 \in DOMAIN ops /\ ops'[k] = ops[k + 1]
  BY <1>1, <1>2 DEF Answer
<1>4. /\ r \in Seq(Nat)
      /\ r # <<>> => r = batch /\ first.kind = "insert" /\ writer = "insert"
  BY <1>2, <1>3, SequencesTyped DEF PlacesOK, TypeInv
<1>5. \A k \in DOMAIN ops' :
        ops'[k].rows # <<>> =>
            ops'[k].rows = batch /\ ops'[k].kind = "insert" /\ writer = "insert"
  BY <1>2, <1>3 DEF PlacesOK
<1>6. ASSUME NEW result \in {"ok", "err"}, Answer(result)
      PROVE  reply'["writer"] = IF first.by = "writer" THEN result ELSE reply["writer"]
  BY <1>6 DEF Answer, Users
<1>7. first.by = "writer" => first.kind = writer
  BY <1>2, <1>3 DEF OneWriterRequest
\* Rows of the batch join the transaction.
<1>8. ASSUME NEW p \in Seq(Nat), tx' = tx \o p, table' = table,
             Range(p) \subseteq Range(batch), p = <<>> \/ r # <<>>,
             first.kind # "commit" \/ Answer("err")
      PROVE  PlacesOK'
  <2>1. Range(tx') = Range(tx) \cup Range(p)
    BY <1>2, <1>8, RangeConcat
  <2>2. writer = "commit" /\ reply'["writer"] = "ok" => tx' = <<>>
    <3> SUFFICES ASSUME writer = "commit", reply'["writer"] = "ok" PROVE tx' = <<>>
      OBVIOUS
    <3>1. p = <<>>
      BY <1>4, <1>8
    <3>2. first.by # "writer"
      BY <1>6, <1>7, <1>8
    <3>3. tx = <<>>
      BY <1>1, <1>2, <1>6, <3>2 DEF PlacesOK
    <3> QED BY <1>8, <3>1, <3>3
  <2> HIDE DEF r
  <2> QED BY <1>1, <1>2, <1>5, <1>8, <2>1, <2>2 DEF PlacesOK
<1>9. CASE ExecWrite
  <2>1. tx' = tx \o r /\ table' = table /\ first.kind # "commit"
    BY <1>9 DEF ExecWrite
  <2>2. Range(r) \subseteq Range(batch)
    BY <1>4, RangeEmpty
  <2> HIDE DEF r
  <2> QED BY <1>4, <1>8, <2>1, <2>2
<1>10. CASE ExecRowFails
  <2>1. PICK k \in 0..Len(r) : tx' = tx \o SubSeq(r, 1, k)
    BY <1>10 DEF ExecRowFails
  <2>2. table' = table /\ first.kind # "commit"
    BY <1>10 DEF ExecRowFails
  <2> DEFINE p == SubSeq(r, 1, k)
  <2>3. p \in Seq(Nat) /\ (p = <<>> \/ r # <<>>) /\ 1 \in 1..(Len(r) + 1)
    <3> HIDE DEF r
    <3> QED BY <1>4
  <2>4. Range(p) \subseteq Range(batch)
    <3>1. Range(p) \subseteq Range(r)
      <4> HIDE DEF r
      <4> QED BY <1>4, <2>1, <2>3, RangePart
    <3>2. Range(r) \subseteq Range(batch)
      BY <1>4, RangeEmpty
    <3> QED BY <3>1, <3>2
  <2> HIDE DEF p, r
  <2> QED BY <1>8, <2>1, <2>2, <2>3, <2>4 DEF p
<1>11. CASE ExecRollsBack \/ ExecCommit
  <2>1. tx' = <<>> /\ Range(tx') = {}
    BY <1>11, RangeEmpty DEF ExecRollsBack, ExecCommit
  <2>2. Range(table') \subseteq Range(table) \cup Range(tx)
    BY ZenonT(60), <1>2, <1>11, RangeConcat DEF ExecRollsBack, ExecCommit
  <2> QED BY <1>1, <1>2, <1>5, <2>1, <2>2 DEF PlacesOK
<1>12. CASE ExecCommitFails
  <2>1. tx' = tx /\ table' = table /\ Answer("err") /\ tx \o <<>> = tx
    BY <1>2, <1>12 DEF ExecCommitFails, db
  <2>2. <<>> \in Seq(Nat) /\ Range(<<>>) \subseteq Range(batch)
    BY RangeEmpty
  <2> QED BY <1>8, <2>1, <2>2
<1> QED BY <1>9, <1>10, <1>11, <1>12 DEF Thread

\* The other steps.
LEMMA QuietPlaces == TypeInv /\ OrderInv /\ PlacesInv /\ Quiet => PlacesInv'
<1>0. Quiet => cancelled' = cancelled
  BY DEF Quiet, Record, Inserted, Committed, FlushFailed, EndFlush, Upsert,
     Upserted, UpsertCommitted, UpsertCancelled, BeginShutdown, PutStop, WriterJoined,
     SessionWritten, SessionCommitted, CloseStorage, task, vars
<1> SUFFICES ASSUME TypeInv, OrderInv, PlacesInv, Quiet, ~cancelled PROVE PlacesOK'
  BY <1>0 DEF PlacesInv
<1>1. /\ PlacesOK /\ OneWriterRequest /\ TypeOK
      /\ queue \in Seq(Items) /\ offered \in Nat
      /\ reply \in [Users -> {"none", "ok", "err"}]
  BY SequencesTyped
     DEF PlacesInv, OrderInv, TypeInv, TypeOK, QueueOK, ChannelOK
<1>2. PICK n \in Nat :
        /\ DOMAIN ops' = 1..n
        /\ \A k \in 1..n :
                \/ ops'[k].rows = <<>>
                \/ /\ k \in DOMAIN ops
                   /\ ops'[k].rows = ops[k].rows /\ ops'[k].kind = ops[k].kind
  BY QuietRows
<1>3. table' = table /\ tx' \in {tx, <<>>}
  BY DEF Quiet, Record, Inserted, Committed, FlushFailed, EndFlush, Upsert,
     Upserted, UpsertCommitted, UpsertCancelled, BeginShutdown, PutStop, WriterJoined,
     SessionWritten, SessionCommitted, CloseStorage, db, vars
<1>4. Range(tx') \subseteq Range(tx)
  BY <1>3, RangeEmpty
<1>5. ASSUME writer' = writer, batch' = batch
      PROVE  \A k \in DOMAIN ops' :
                ops'[k].rows # <<>> =>
                    ops'[k].rows = batch' /\ ops'[k].kind = "insert" /\ writer' = "insert"
  BY <1>1, <1>2, <1>5 DEF PlacesOK
<1>6. reply["writer"] # "none" => \A k \in DOMAIN ops' : ops'[k].rows = <<>>
  <2>1. reply["writer"] # "none" => \A k \in DOMAIN ops : ops[k].rows = <<>>
    BY <1>1 DEF OneWriterRequest
  <2> QED BY <1>2, <2>1
<1>7. CASE Inserted
  <2>1. /\ UNCHANGED <<queue, accepted, batch, failed, tx, table>>
        /\ writer' = "commit" /\ Submit("commit", <<>>, "writer") /\ reply["writer"] = "ok"
    BY <1>7 DEF Inserted, buffer, db
  <2>2. reply'["writer"] = "none"
    BY <1>1, <2>1 DEF Submit, Users
  <2> QED BY <1>1, <1>6, <2>1, <2>2 DEF PlacesOK
<1>8. CASE Committed \/ FlushFailed
  <2>1. /\ UNCHANGED <<queue, accepted, tx, table>> /\ reply["writer"] # "none"
        /\ writer' # "commit" /\ batch' = <<>> /\ Range(batch') = {}
    BY <1>8, RangeEmpty DEF Committed, FlushFailed, EndFlush, buffer, db
  <2>2. Range(tx) \subseteq failed'
    <3>1. CASE Committed
      <4>1. tx = <<>>
        BY <1>1, <3>1 DEF Committed, PlacesOK
      <4> QED BY <4>1, RangeEmpty
    <3>2. CASE FlushFailed
      BY <1>1, <3>2 DEF FlushFailed, PlacesOK
    <3> QED BY <1>8, <3>1, <3>2
  <2> QED BY <1>1, <1>6, <2>1, <2>2 DEF PlacesOK
<1>9. CASE Record \/ PutStop
  <2>1. /\ UNCHANGED <<writer, batch, failed, tx, table, reply>>
        /\ accepted \subseteq accepted'
    BY <1>9 DEF Record, Enqueue, CountDrop, PutStop, task, channel, db
  <2>2. \/ queue' = queue
        \/ Record /\ queue' = Append(queue, offered + 1) /\ offered + 1 \in accepted'
        \/ queue' = Append(queue, Stop)
    BY <1>9 DEF Record, Enqueue, CountDrop, PutStop
  <2>3. offered + 1 \in Items /\ Stop \in Items
    BY <1>1 DEF Items
  <2>4. \A x \in Items : Range(Append(queue, x)) = Range(queue) \cup {x}
    BY <1>1, RangeAppend
  <2>5. Range(queue') \subseteq accepted' \cup {Stop}
    <3>1. Range(queue) \subseteq accepted' \cup {Stop}
      BY <1>1, <2>1 DEF PlacesOK
    <3> QED BY <2>2, <2>3, <2>4, <3>1
  <2> QED BY <1>1, <1>5, <2>1, <2>5 DEF PlacesOK
<1>10. CASE \/ Upsert \/ Upserted \/ UpsertCommitted \/ UpsertCancelled
            \/ BeginShutdown \/ WriterJoined \/ SessionWritten \/ SessionCommitted
            \/ CloseStorage \/ UNCHANGED vars
  <2>1. UNCHANGED <<queue, accepted, writer, batch, failed>>
    BY <1>10 DEF Upsert, Upserted, UpsertCommitted, UpsertCancelled, BeginShutdown,
       WriterJoined, SessionWritten, SessionCommitted, CloseStorage, buffer, task, vars
  <2>2. \/ reply' = reply
        \/ \E kind : Submit(kind, <<>>, "proxy")
    BY <1>10 DEF Upsert, Upserted, UpsertCommitted, UpsertCancelled, BeginShutdown,
       WriterJoined, SessionWritten, SessionCommitted, CloseStorage, channel, vars
  <2>3. reply'["writer"] = reply["writer"]
    BY <1>1, <2>2 DEF Submit, Users
  <2> QED BY <1>1, <1>3, <1>4, <1>5, <2>1, <2>3 DEF PlacesOK
<1> QED BY <1>7, <1>8, <1>9, <1>10 DEF Quiet

\* Where the accepted events are, in every behaviour.
THEOREM PlacesInvariance == Spec => []PlacesInv
<1>1. Init => PlacesInv
  BY RangeEmpty DEF Init, PlacesInv, PlacesOK
<1>2. TypeInv /\ OrderInv /\ PlacesInv /\ [Next]_vars => PlacesInv'
  <2>1. ShutdownTimeout => PlacesInv'
    BY DEF ShutdownTimeout, CancelWriter, PlacesInv
  <2> QED BY <2>1, TakePlaces, ThreadPlaces, QuietPlaces
          DEF Next, Writer, CacheWrite, Shutdown, Closed, Quiet
<1> QED BY <1>1, <1>2, TypeInvariance, OrderInvariance, PTL DEF Spec

\* A set of numbers that is not empty has a least element.
LEMMA LeastElement ==
    ASSUME NEW T \in SUBSET Nat, T # {}
    PROVE  \E n \in T : \A m \in T : n <= m
<1>1. PICK n \in T : \A m \in T : ~ (<<m, n>> \in OpToRel(<, Nat))
  BY NatLessThanWellFounded, WFMin
<1>2. \A m \in T : ~(m < n)
  BY <1>1 DEF OpToRel
<1> QED BY <1>2

\* A sequence of numbers in order has as many members as it is long.
LEMMA InOrderDistinct ==
    ASSUME NEW s \in Seq(Nat), \A i, j \in DOMAIN s : i < j => s[i] < s[j]
    PROVE  IsFiniteSet(Range(s)) /\ Cardinality(Range(s)) = Len(s)
<1>1. DOMAIN s = 1..Len(s) /\ Len(s) \in Nat /\ s \in [1..Len(s) -> Range(s)]
  BY DEF Range
<1>2. \A i, j \in 1..Len(s) : s[i] = s[j] => i = j
  BY SMTT(30), <1>1
<1>3. s \in Bijection(1..Len(s), Range(s))
  BY <1>1, <1>2 DEF Bijection, Injection, IsInjective, Surjection, Range
<1>4. IsFiniteSet(1..Len(s)) /\ Cardinality(1..Len(s)) = Len(s)
  BY <1>1, FS_Interval
<1> QED BY <1>3, <1>4, FS_Bijection DEF ExistsBijection

\* Its members in ascending order are the sequence itself: two sequences in
\* order with the same members cannot differ first where one of them has the
\* smaller member.
LEMMA AscendingOfRange ==
    ASSUME NEW s \in Seq(Nat), \A i, j \in DOMAIN s : i < j => s[i] < s[j]
    PROVE  Log!Ascending(Range(s)) = s
<1> DEFINE S == Range(s)
           n == Len(s)
           Up(t) == \A i, j \in 1..n : i < j => t[i] < t[j]
<1>1. /\ DOMAIN s = 1..n /\ n \in Nat /\ s \in [1..n -> S] /\ S \subseteq Nat
      /\ \A x \in S : \E i \in 1..n : x = s[i]
  BY DEF Range
<1>2. IsFiniteSet(S) /\ Cardinality(S) = n
  BY InOrderDistinct
<1>3. Up(s)
  BY <1>1
<1> HIDE DEF S, n
<1>4. ASSUME NEW t \in [1..n -> S], Up(t) PROVE t = s
  <2>1. ASSUME NEW i \in 1..n, NEW j \in 1..n, t[i] = t[j] PROVE i = j
    <3>1. ~(i < j) /\ ~(j < i)
      <4>1. t[i] \in Nat
        BY <1>1, <1>4
      <4> QED BY <1>4, <2>1, <4>1
    <3> QED BY <1>1, <3>1
  <2>2. t \in Injection(1..n, S)
    BY <1>4, <2>1 DEF Injection, IsInjective
  <2>3. IsFiniteSet(1..n) /\ Cardinality(1..n) = n
    BY <1>1, FS_Interval
  <2>4. t \in Surjection(1..n, S)
    BY <1>2, <2>2, <2>3, FS_Injection
  <2>5. \A x \in S : \E i \in 1..n : x = t[i]
    BY <2>4 DEF Surjection
  <2> DEFINE D == {i \in 1..n : t[i] # s[i]}
  <2>6. D = {}
    <3> SUFFICES ASSUME D # {} PROVE FALSE
      OBVIOUS
    <3>1. D \in SUBSET Nat
      BY <1>1
    <3> HIDE DEF D
    <3>2. PICK i \in D : \A j \in D : i <= j
      BY <3>1, LeastElement
    <3>3. /\ i \in 1..n /\ t[i] # s[i]
          /\ \A j \in 1..n : j < i => t[j] = s[j]
      BY <1>1, <3>1, <3>2 DEF D
    <3>4. PICK k \in 1..n : t[i] = s[k]
      BY <1>1, <1>4, <3>3
    <3>5. PICK l \in 1..n : s[i] = t[l]
      BY <1>1, <2>5, <3>3
    <3>6. k > i
      <4>1. k # i
        BY <3>3, <3>4
      <4>2. ~(k < i)
        BY <2>1, <3>3, <3>4
      <4> QED BY <1>1, <3>3, <4>1, <4>2
    <3>7. l > i
      <4>1. l # i
        BY <3>3, <3>5
      <4>2. ~(l < i)
        BY <1>1, <1>3, <3>3, <3>5
      <4> QED BY <1>1, <3>3, <4>1, <4>2
    <3>8. s[i] < s[k] /\ t[i] < t[l]
      BY <1>3, <1>4, <3>3, <3>6, <3>7
    <3>9. s[i] \in Nat /\ s[k] \in Nat
      BY <1>1, <3>3
    <3> QED BY <3>4, <3>5, <3>8, <3>9
  <2> QED BY SMTT(30), <1>1, <1>4, <2>6
<1>5. Log!Ascending(S) = CHOOSE t \in [1..n -> S] : Up(t)
  <2>1. Log!Cardinality(S) = Cardinality(S)
    BY DEF Log!Cardinality, Cardinality
  <2> QED BY <1>2, <2>1, Zenon DEF Log!Ascending
<1>6. (CHOOSE t \in [1..n -> S] : Up(t)) = s
  BY <1>1, <1>3, <1>4
<1> QED BY <1>5, <1>6 DEF S

\* AuditLog counts as this module does.
LEMMA SameCardinality == \A S : Log!Cardinality(S) = Cardinality(S)
BY DEF Log!Cardinality, Cardinality

Pending == (accepted \cap Held) \ Range(table)

\* Requests hold nothing that the batch does not hold.
LEMMA PendingPlaces ==
    PlacesOK => Pending = (accepted \cap (Range(queue) \cup Range(batch) \cup Range(tx)))
                            \ Range(table)
<1> SUFFICES ASSUME PlacesOK PROVE Held = Range(queue) \cup Range(batch) \cup Range(tx)
  BY DEF Pending
<1>1. \A k \in DOMAIN ops : Range(ops[k].rows) \subseteq Range(batch)
  BY RangeEmpty DEF PlacesOK
<1> QED BY <1>1 DEF Held

LEMMA PendingPlacesNext ==
    PlacesOK' => Pending' = (accepted' \cap (Range(queue') \cup Range(batch') \cup Range(tx')))
                            \ Range(table')
<1> SUFFICES ASSUME PlacesOK' PROVE Held' = Range(queue') \cup Range(batch') \cup Range(tx')
  BY DEF Pending
<1>1. \A k \in DOMAIN ops' : Range(ops'[k].rows) \subseteq Range(batch')
  BY RangeEmpty DEF PlacesOK
<1> QED BY <1>1 DEF Held

\* The steps of AuditLog in the terms of the audit path.
LEMMA Stutters ==
    ASSUME UNCHANGED <<offered, dropped, table, failed>>, Pending' = Pending,
           (proxy \in Running)' <=> proxy \in Running
    PROVE  UNCHANGED Log!vars
BY DEF Log!vars, Pending

LEMMA Accepts ==
    ASSUME UNCHANGED <<dropped, table, failed>>, proxy \in Running, (proxy \in Running)',
           offered' = offered + 1, Pending' = Pending \cup {offered'}
    PROVE  Log!Accept
BY DEF Log!Accept, Pending

LEMMA Refuses ==
    ASSUME UNCHANGED <<table, failed>>, proxy \in Running, (proxy \in Running)',
           offered' = offered + 1, dropped' = dropped + 1, Pending' = Pending,
           Cardinality(Pending) >= QueueMax
    PROVE  Log!Refuse
BY SameCardinality DEF Log!Refuse, Pending

LEMMA Persists ==
    ASSUME UNCHANGED <<offered, dropped, failed>>, (proxy \in Running)' <=> proxy \in Running,
           NEW S \in SUBSET Pending, S # {},
           \A i \in DOMAIN table : \A e \in S : table[i] < e,
           table' = table \o Log!Ascending(S), Pending' = Pending \ S
    PROVE  Log!Persist
BY DEF Log!Persist, Pending

LEMMA GivesUp ==
    ASSUME UNCHANGED <<offered, dropped, table>>, (proxy \in Running)' <=> proxy \in Running,
           NEW F \in SUBSET (Pending \cup Range(table)), failed' = failed \cup F,
           Pending' \subseteq Pending, Pending \ Pending' \subseteq failed'
    PROVE  Log!GiveUp
<1>1. F \in SUBSET (Pending \cup {table[i] : i \in DOMAIN table})
  BY DEF Range
<1>2. /\ Pending \ Pending' \in SUBSET (failed' \cap Pending)
      /\ Pending' = Pending \ (Pending \ Pending')
  OBVIOUS
<1>3. \E S \in SUBSET (failed' \cap Pending) : Pending' = Pending \ S
  BY <1>2
<1>4. \E G \in SUBSET (Pending \cup {table[i] : i \in DOMAIN table}) :
        /\ failed' = failed \cup G
        /\ \E S \in SUBSET (failed' \cap Pending) : Pending' = Pending \ S
        /\ UNCHANGED <<proxy \in Running, offered, dropped, table>>
  BY <1>1, <1>3
<1> QED BY <1>4 DEF Log!GiveUp, Pending

LEMMA Closes ==
    ASSUME UNCHANGED <<offered, dropped, table, failed>>, Pending' = Pending,
           proxy \in Running, ~(proxy \in Running)'
    PROVE  Log!Close
BY DEF Log!Close, Pending
\* A recorded event is accepted, or refused with a full queue pending.
LEMMA RecordRefines ==
    ASSUME TypeInv, RowsInOrder, PlacesOK, PlacesOK', Record
    PROVE  Log!Accept \/ Log!Refuse
<1>1. /\ UNCHANGED <<batch, failed, proxy, tx, table>> /\ offered' = offered + 1
      /\ proxy \in Running
  BY DEF Record, task, db
<1>2. /\ queue \in Seq(Items) /\ Rows(table) /\ offered \in Nat /\ accepted \subseteq 1..offered
      /\ Len(queue) \in Nat /\ DOMAIN queue = 1..Len(queue) /\ Stop \notin Nat
      /\ \A i \in DOMAIN queue : queue[i] # Stop
  BY <1>1, StopAssumption DEF TypeInv, TypeOK, QueueOK, DbOK, Items, NoStopYet
<1>3. /\ Pending = (accepted \cap (Range(queue) \cup Range(batch) \cup Range(tx)))
                    \ Range(table)
      /\ Pending' = (accepted' \cap (Range(queue') \cup Range(batch) \cup Range(tx)))
                    \ Range(table)
  BY <1>1, PendingPlaces, PendingPlacesNext
<1>4. CASE Enqueue
  <2>1. /\ queue' = Append(queue, offered') /\ accepted' = accepted \cup {offered'}
        /\ dropped' = dropped
    BY <1>4 DEF Enqueue
  <2>2. offered' \in Items
    BY <1>1, <1>2 DEF Items
  <2>3. Range(queue') = Range(queue) \cup {offered'}
    BY <1>2, <2>1, <2>2, RangeAppend
  <2>4. offered' \notin Range(table)
    <3>1. \A i \in DOMAIN table : table[i] # offered + 1
      BY <1>2 DEF Rows, Row
    <3> QED BY <1>1, <3>1 DEF Range
  <2>5. Range(batch) \cup Range(tx) \subseteq accepted
    BY DEF PlacesOK
  <2>6. Pending' = Pending \cup {offered'}
    BY <1>3, <2>1, <2>3, <2>4, <2>5
  <2> QED BY <1>1, <2>1, <2>6, Accepts
<1>5. CASE CountDrop
  <2>1. Len(queue) >= QueueMax /\ dropped' = dropped + 1 /\ UNCHANGED <<queue, accepted>>
    BY <1>5 DEF CountDrop
  <2>2. \A i \in DOMAIN queue : queue[i] \in Nat
    BY <1>2 DEF Items
  <2>3. queue \in Seq(Nat)
    BY <1>2, <2>2
  <2>4. \A i, j \in DOMAIN queue : i < j => queue[i] < queue[j]
    BY <1>2 DEF RowsInOrder, Inc
  <2>5. Range(queue) \subseteq Pending
    <3>1. Range(queue) \subseteq accepted
      BY <1>2 DEF PlacesOK, Range
    <3>2. Range(queue) \cap Range(table) = {}
      <4>1. \A i \in DOMAIN table : \A j \in DOMAIN queue : table[i] # queue[j]
        <5> SUFFICES ASSUME NEW i \in DOMAIN table, NEW j \in DOMAIN queue,
                            table[i] = queue[j]
                     PROVE  FALSE
          OBVIOUS
        <5>1. table[i] # Stop /\ queue[j] # Stop
          BY <1>2
        <5>2. table[i] < queue[j]
          BY <5>1 DEF RowsInOrder, Before
        <5> QED BY <2>2, <5>2
      <4> QED BY <4>1 DEF Range
    <3> QED BY <1>3, <3>1, <3>2
  <2>6. Cardinality(Range(queue)) = Len(queue)
    BY <2>3, <2>4, InOrderDistinct
  <2>7. IsFiniteSet(Pending)
    <3>1. IsFiniteSet(1..offered)
      BY <1>2, FS_Interval
    <3>2. Pending \subseteq 1..offered
      BY <1>2, <1>3
    <3> QED BY <3>1, <3>2, FS_Subset
  <2>8. Cardinality(Pending) >= QueueMax
    <3>1. Cardinality(Range(queue)) <= Cardinality(Pending)
      BY <2>5, <2>7, FS_Subset
    <3>2. Cardinality(Pending) \in Nat
      BY <2>7, FS_CardinalityType
    <3> QED BY <1>2, <2>1, <2>6, <3>1, <3>2, SizesAssumption
  <2>9. Pending' = Pending
    BY <1>3, <2>1
  <2> QED BY <1>1, <2>1, <2>8, <2>9, Refuses
<1> QED BY <1>4, <1>5 DEF Record

\* A wake-up of the writer moves pending events.
LEMMA TakeRefines ==
    ASSUME TypeInv, PlacesOK, PlacesOK', Take
    PROVE  UNCHANGED Log!vars
<1>1. /\ UNCHANGED <<offered, dropped, accepted, failed, proxy, tx, table>> /\ batch = <<>>
  BY DEF Take, db, TypeInv, BatchEmptyAtGet
<1>2. /\ Range(batch') \cup Range(queue') \subseteq Range(queue) /\ Range(batch) = {}
      /\ \A e \in accepted : e \in Range(queue) => e \in Range(batch') \cup Range(queue')
  BY <1>1, TakeSplits, RangeEmpty
<1>3. Pending' = Pending
  BY <1>1, <1>2, PendingPlaces, PendingPlacesNext
<1> QED BY <1>1, <1>3, Stutters

\* The end of a flush: its events are durable, or given up.
LEMMA WriterRefines ==
    ASSUME Kept, PlacesOK, PlacesOK', Inserted \/ Committed \/ FlushFailed
    PROVE  [Log!Next]_(Log!vars)
<1>1. UNCHANGED <<queue, offered, dropped, accepted, proxy, tx, table>>
  BY DEF Inserted, Committed, FlushFailed, buffer, db
<1>2. /\ Pending = (accepted \cap (Range(queue) \cup Range(batch) \cup Range(tx)))
                    \ Range(table)
      /\ Pending' = (accepted \cap (Range(queue) \cup Range(batch') \cup Range(tx)))
                    \ Range(table)
  BY <1>1, PendingPlaces, PendingPlacesNext
<1>3. CASE Inserted
  BY <1>1, <1>2, <1>3, Stutters DEF Inserted
<1>4. CASE Committed
  <2>1. Range(batch) \subseteq Range(table) /\ Range(batch') = {} /\ failed' = failed
    BY <1>4, RangeEmpty DEF Committed, EndFlush, Kept, BatchOK
  <2> QED BY <1>1, <1>2, <2>1, Stutters
<1>5. CASE FlushFailed
  <2>1. failed' = failed \cup Range(batch) /\ Range(batch') = {}
    BY <1>5, RangeEmpty DEF FlushFailed, EndFlush
  <2>2. Range(batch) \in SUBSET (Pending \cup Range(table))
    BY <1>2 DEF PlacesOK
  <2>3. Pending' \subseteq Pending /\ Pending \ Pending' \subseteq failed'
    BY <1>2, <2>1
  <2> QED BY <1>1, <2>1, <2>2, <2>3, GivesUp DEF Log!Next
<1> QED BY <1>3, <1>4, <1>5

\* The thread: a commit makes the transaction's rows durable in their order,
\* and a rollback loses no row that is neither in the batch nor reported.
LEMMA ThreadRefines ==
    ASSUME TypeInv, RowsInOrder, PlacesOK, PlacesOK', Thread
    PROVE  [Log!Next]_(Log!vars)
<1>1. /\ UNCHANGED <<queue, offered, dropped, accepted, batch, failed, proxy>> /\ ops # <<>>
  BY DEF Thread, ExecWrite, ExecRowFails, ExecRollsBack, ExecCommit, ExecCommitFails,
         buffer, task
<1>2. /\ table \in Seq(Nat) /\ tx \in Seq(Nat)
      /\ DOMAIN table = 1..Len(table) /\ DOMAIN tx = 1..Len(tx) /\ Stop \notin Nat
  BY StopAssumption DEF TypeInv, TypeOK, DbOK
<1>3. /\ Pending = (accepted \cap (Range(queue) \cup Range(batch) \cup Range(tx)))
                    \ Range(table)
      /\ Pending' = (accepted \cap (Range(queue) \cup Range(batch) \cup Range(tx')))
                    \ Range(table')
  BY <1>1, PendingPlaces, PendingPlacesNext
<1> DEFINE r == Head(ops).rows
<1>4. r \in Seq(Nat) /\ Range(r) \subseteq Range(batch)
  <2>1. 1 \in DOMAIN ops /\ Head(ops) = ops[1]
    BY <1>1, RequestTypes DEF TypeInv
  <2>2. r \in Seq(Nat)
    BY <2>1, RequestTypes DEF TypeInv
  <2> QED BY <2>1, <2>2, RangeEmpty DEF PlacesOK
\* Rows of the batch join the transaction.
<1>5. ASSUME table' = table, NEW p \in Seq(Nat), Range(p) \subseteq Range(batch), tx' = tx \o p
      PROVE  UNCHANGED Log!vars
  <2>1. Range(tx') = Range(tx) \cup Range(p)
    BY <1>2, <1>5, RangeConcat
  <2> QED BY <1>1, <1>3, <1>5, <2>1, Stutters
<1>6. CASE ExecWrite
  <2>1. tx' = tx \o r /\ table' = table
    BY <1>6 DEF ExecWrite
  <2> HIDE DEF r
  <2> QED BY <1>4, <1>5, <2>1
<1>7. CASE ExecRowFails
  <2>1. PICK k \in 0..Len(r) : tx' = tx \o SubSeq(r, 1, k)
    BY <1>7 DEF ExecRowFails
  <2>2. table' = table
    BY <1>7 DEF ExecRowFails
  <2> HIDE DEF r
  <2>3. SubSeq(r, 1, k) \in Seq(Nat) /\ 1 \in 1..(Len(r) + 1)
    BY <1>4, <2>1
  <2>4. Range(SubSeq(r, 1, k)) \subseteq Range(batch)
    BY <1>4, <2>1, <2>3, RangePart
  <2> QED BY <1>5, <2>1, <2>2, <2>3, <2>4
<1>8. CASE ExecRollsBack
  <2>1. Range(tx') = {} /\ table' = table
    BY <1>8, RangeEmpty DEF ExecRollsBack
  <2>2. Pending' \subseteq Pending /\ Pending \ Pending' \subseteq failed'
    BY <1>1, <1>3, <2>1 DEF PlacesOK
  <2>3. {} \in SUBSET (Pending \cup Range(table)) /\ failed' = failed \cup {}
    BY <1>1
  <2> QED BY <1>1, <2>1, <2>2, <2>3, GivesUp DEF Log!Next
<1>9. CASE ExecCommit
  <2>1. table' = table \o tx /\ tx' = <<>> /\ Range(tx') = {}
    BY <1>9, RangeEmpty DEF ExecCommit
  <2>2. Range(table') = Range(table) \cup Range(tx)
    BY <1>2, <2>1, RangeConcat
  <2>3. \A i \in DOMAIN table : \A e \in Range(tx) : table[i] < e
    <3>1. \A i \in DOMAIN table : \A j \in DOMAIN tx : table[i] < tx[j]
      <4> SUFFICES ASSUME NEW i \in DOMAIN table, NEW j \in DOMAIN tx PROVE table[i] < tx[j]
        OBVIOUS
      <4>1. table[i] # Stop /\ tx[j] # Stop
        BY <1>2
      <4> QED BY <4>1 DEF RowsInOrder, Before
    <3> QED BY <3>1 DEF Range
  <2>4. CASE tx = <<>>
    <3>1. table' = table
      BY <1>2, <2>1, <2>4
    <3>2. Pending' = Pending
      BY <1>3, <2>1, <2>4, <3>1
    <3> QED BY <1>1, <3>1, <3>2, Stutters
  <2>5. CASE tx # <<>>
    <3>1. Range(tx) # {}
      <4>1. 1 \in DOMAIN tx
        BY <1>2, <2>5
      <4> QED BY <4>1 DEF Range
    <3>2. Range(tx) \in SUBSET Pending
      <4>1. \A e \in Range(tx) : e \in Nat
        BY <1>2 DEF Range
      <4>2. \A i \in DOMAIN table : \A e \in Range(tx) : table[i] # e
        BY <1>2, <2>3, <4>1
      <4>3. Range(tx) \cap Range(table) = {}
        BY <4>2 DEF Range
      <4> QED BY <1>3, <4>3 DEF PlacesOK
    <3>3. Log!Ascending(Range(tx)) = tx
      <4>1. \A i, j \in DOMAIN tx : i < j => tx[i] < tx[j]
        BY <1>2 DEF RowsInOrder, Inc
      <4> QED BY <1>2, <4>1, AscendingOfRange
    <3>4. Pending' = Pending \ Range(tx)
      BY <1>3, <2>1, <2>2
    <3> QED BY <1>1, <2>1, <2>3, <3>1, <3>2, <3>3, <3>4, Persists DEF Log!Next
  <2> QED BY <2>4, <2>5
<1>10. CASE ExecCommitFails
  <2>1. tx' = tx /\ table' = table
    BY <1>10 DEF ExecCommitFails, db
  <2> QED BY <1>1, <1>3, <2>1, Stutters
<1> QED BY <1>6, <1>7, <1>8, <1>9, <1>10 DEF Thread

\* Nothing else touches an event, but the shutdown closes the trail, and the
\* connection rolls back what is left of failed flushes when it is closed.
LEMMA OthersRefine ==
    ASSUME TypeInv, Kept, PlacesOK, PlacesOK',
           \/ Upsert \/ CacheWrite \/ UpsertCancelled
           \/ BeginShutdown \/ Shutdown \/ UNCHANGED vars
    PROVE  [Log!Next]_(Log!vars)
<1>1. UNCHANGED <<offered, dropped, accepted, batch, failed, table>>
  BY DEF Upsert, CacheWrite, Upserted, UpsertCommitted, UpsertCancelled, BeginShutdown,
         Shutdown, PutStop, WriterJoined, SessionWritten, SessionCommitted, CloseStorage,
         buffer, task, db, vars
<1>2. /\ Pending = (accepted \cap (Range(queue) \cup Range(batch) \cup Range(tx)))
                    \ Range(table)
      /\ Pending' = (accepted \cap (Range(queue') \cup Range(batch) \cup Range(tx')))
                    \ Range(table)
  BY <1>1, PendingPlaces, PendingPlacesNext
<1>3. CASE \/ Upsert \/ CacheWrite \/ UpsertCancelled
           \/ WriterJoined \/ SessionWritten \/ SessionCommitted \/ UNCHANGED vars
  <2>1. UNCHANGED <<queue, tx>>
    BY <1>3 DEF Upsert, CacheWrite, Upserted, UpsertCommitted, UpsertCancelled,
           WriterJoined, SessionWritten, SessionCommitted, buffer, db, vars
  <2>2. (proxy \in Running)' <=> proxy \in Running
    BY <1>3 DEF Upsert, CacheWrite, Upserted, UpsertCommitted, UpsertCancelled,
           WriterJoined, SessionWritten, SessionCommitted, vars, Running
  <2> QED BY <1>1, <1>2, <2>1, <2>2, Stutters
<1>4. CASE BeginShutdown
  <2>1. UNCHANGED <<queue, tx>> /\ proxy \in Running /\ ~(proxy \in Running)'
    BY <1>4 DEF BeginShutdown, buffer, db, Running
  <2> QED BY <1>1, <1>2, <2>1, Closes DEF Log!Next
<1>5. CASE PutStop
  <2>1. /\ queue' = Append(queue, Stop) /\ tx' = tx
        /\ ~(proxy \in Running) /\ ~(proxy \in Running)'
    BY <1>5 DEF PutStop, db, Running
  <2>2. queue \in Seq(Items) /\ Stop \in Items /\ Stop \notin accepted
    <3>1. queue \in Seq(Items) /\ offered \in Nat /\ accepted \subseteq 1..offered
      BY DEF TypeInv, TypeOK, QueueOK, Items
    <3>2. accepted \subseteq Nat
      BY <3>1
    <3> QED BY <3>1, <3>2, StopAssumption DEF Items
  <2>3. Range(queue') = Range(queue) \cup {Stop}
    BY <2>1, <2>2, RangeAppend
  <2> QED BY <1>1, <1>2, <2>1, <2>2, <2>3, Stutters
<1>6. CASE CloseStorage
  <2>1. /\ queue' = queue /\ Range(tx') = {} /\ batch = <<>>
        /\ ~(proxy \in Running) /\ ~(proxy \in Running)'
    BY <1>6, RangeEmpty DEF CloseStorage, buffer, Running, Kept, EndOK
  <2>2. Pending' \subseteq Pending /\ Pending \ Pending' \subseteq failed'
    BY <1>1, <1>2, <2>1, RangeEmpty DEF PlacesOK
  <2>3. {} \in SUBSET (Pending \cup Range(table)) /\ failed' = failed \cup {}
    BY <1>1
  <2> QED BY <1>1, <2>1, <2>2, <2>3, GivesUp DEF Log!Next
<1> QED BY <1>3, <1>4, <1>5, <1>6 DEF Shutdown

\* Until the shutdown times out, queue, writer and shared transaction together
\* implement the audit trail: every step of theirs is a step of AuditLog or
\* leaves its state alone (storage.py, EventBuffer).
THEOREM ImplementsTheAuditTrail ==
    ASSUME Unshared
    PROVE  Spec /\ [](~cancelled) => ImplementsAuditLog
<1>1. Init => Log!Init
  BY RangeEmpty DEF Init, Log!Init, Running
<1>2. /\ ~cancelled /\ ~cancelled' /\ TypeInv /\ OrderInv /\ KeptInv
      /\ PlacesInv /\ PlacesInv' /\ [Next]_vars
      => [Log!Next]_(Log!vars)
  <2> SUFFICES ASSUME TypeInv, RowsInOrder, Kept, PlacesOK, PlacesOK', ~cancelled', [Next]_vars
               PROVE  [Log!Next]_(Log!vars)
    BY DEF OrderInv, KeptInv, PlacesInv
  <2>1. ~ShutdownTimeout
    BY DEF ShutdownTimeout, CancelWriter
  <2>2. CASE Record
    BY <2>2, RecordRefines DEF Log!Next
  <2>3. CASE Writer
    BY <2>3, TakeRefines, WriterRefines DEF Writer
  <2>4. CASE Thread
    BY <2>4, ThreadRefines
  <2>5. CASE \/ Upsert \/ CacheWrite \/ UpsertCancelled
             \/ BeginShutdown \/ Shutdown \/ UNCHANGED vars
    BY <2>5, OthersRefine
  <2> QED BY <2>1, <2>2, <2>3, <2>4, <2>5 DEF Next, Closed
<1> QED BY <1>1, <1>2, TypeInvariance, OrderInvariance, KeptInvariance,
           PlacesInvariance, PTL
        DEF Spec, Log!Spec, ImplementsAuditLog

\* So it does in every behaviour of a proxy whose timer never fires.
COROLLARY ImplementsWithoutTimeout ==
    ASSUME Unshared, MayTimeOut = FALSE
    PROVE  Spec => ImplementsAuditLog
<1>1. Init => ~cancelled
  BY DEF Init
<1>2. ~cancelled /\ [Next]_vars => ~cancelled'
  BY DEF Next, Record, Writer, Take, Inserted, Committed, FlushFailed, EndFlush, Thread,
         ExecWrite, ExecRowFails, ExecRollsBack, ExecCommit, ExecCommitFails, Upsert,
         CacheWrite, Upserted, UpsertCommitted, UpsertCancelled, BeginShutdown, Shutdown,
         PutStop, WriterJoined, SessionWritten, SessionCommitted, CloseStorage,
         ShutdownTimeout, Closed, task, vars
<1> QED BY <1>1, <1>2, ImplementsTheAuditTrail, PTL DEF Spec
===============================================================================
