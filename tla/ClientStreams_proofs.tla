--------------------------- MODULE ClientStreams_proofs -------------------------
(***************************************************************************)
(* However many lines client and server write, no two threads write to the *)
(* client at once, at most one line of the client is lost, and what is     *)
(* recorded as sent was sent in order.                                     *)
(*                                                                         *)
(* The argument: a thread is left behind only by a step of run_proxy after *)
(* which both pumps have ended or are about to, so that nobody starts      *)
(* another thread; and a thread that reads has no line of a pump beside    *)
(* it.                                                                     *)
(***************************************************************************)
EXTENDS ClientStreams, FiniteSetTheorems, TLAPS

Text == {"answer", "reply"} \X Nat

ThreadsOK ==
    /\ \A w \in writes : w \in [text : Text, by : {"c2s", "s2c", "nobody"}]
    /\ reader \in {"idle", "reading", "left"}
    /\ output \in Seq(Text)

PeersOK ==
    /\ typed \in Nat /\ taken \in Nat /\ line \in Nat
    /\ replies \in 0..MaxReplies /\ fetched \in 0..replies

ProxyOK ==
    /\ c2s \in {"read", "reading", "inspect", "answer", "writing", "end", "done"}
    /\ s2c \in {"read", "reading", "reply", "writing", "end", "done"}
    /\ lock \in {Free, "c2s", "s2c"}
    /\ main \in {"waits", "drains", "joins", "returned", "exited"}

TypeOK == ThreadsOK /\ PeersOK /\ ProxyOK

AtEnd(stage) == stage \in {"end", "done"}

\* Once run_proxy has stopped waiting, both pumps end.
PumpsEnd ==
    /\ main = "drains" => c2s = "done"
    /\ main \in {"joins", "returned", "exited"} => AtEnd(c2s) /\ AtEnd(s2c)

\* The lock is held by the pump that writes, a thread that is awaited works
\* for that pump, and the others are left from pumps that have ended.
WritesOK ==
    /\ lock = "c2s" <=> c2s = "writing"
    /\ lock = "s2c" <=> s2c = "writing"
    /\ \A w \in writes :
        IF w.by = "nobody" THEN AtEnd(c2s) /\ AtEnd(s2c) ELSE lock = w.by
    /\ \A v, w \in writes : v = w

Unhandled == (1..taken) \ handled

\* Where the line is that is not handled yet.
LinesOK ==
    /\ handled \subseteq 1..taken
    /\ reader = "reading" <=> c2s = "reading"
    /\ reader = "left" => AtEnd(c2s)
    /\ c2s \in {"read", "reading"} \/ reader = "left" => Unhandled = {}
    /\ c2s \in {"inspect", "answer", "writing"} => line \in 1..taken /\ Unhandled \subseteq {line}
    /\ \E n \in Nat : Unhandled \subseteq {n}

\* The server's lines that came out.
Out == {m \in 1..MaxReplies : Reply(m) \in Range(output)}

\* Before its last line is written the others have been.
RepliesOK ==
    /\ s2c \in {"read", "reading"} => Out = 1..fetched
    /\ s2c \in {"reply", "writing"} => fetched # 0 /\ Out = 1..(fetched - 1)
    /\ \A w \in writes :
        \/ w.text[1] = "answer" /\ w.by # "s2c"
        \/ w.text = Reply(fetched) /\ w.by # "c2s" /\ fetched # 0 /\ Out = 1..(fetched - 1)

IInv == TypeOK /\ PumpsEnd /\ WritesOK /\ LinesOK /\ RepliesOK /\ SentIsOut

-------------------------------------------------------------------------------
USE DEF client, peer, pumps, threads, vars, Free

\* The initial state satisfies the invariant.
LEMMA InitIInv == Init => IInv
<1> SUFFICES ASSUME Init PROVE IInv
  OBVIOUS
<1>1. TypeOK
  BY LinesAssumption DEF Init, TypeOK, ThreadsOK, PeersOK, ProxyOK, Text
<1>2. PumpsEnd /\ WritesOK
  BY DEF Init, PumpsEnd, WritesOK, AtEnd
<1>3. LinesOK
  <2>1. Unhandled = {}
    BY DEF Init, Unhandled
  <2> QED BY <2>1 DEF Init, LinesOK, AtEnd
<1>4. RepliesOK /\ SentIsOut
  <2>1. Range(output) = {}
    BY DEF Init, Range
  <2>2. Out = {}
    BY <2>1 DEF Out
  <2> QED BY <2>1, <2>2 DEF Init, RepliesOK, SentIsOut
<1> QED BY <1>1, <1>2, <1>3, <1>4 DEF IInv

\* Every step keeps the types.
LEMMA TypeStep == TypeOK /\ [Next]_vars => TypeOK'
<1> SUFFICES ASSUME TypeOK, [Next]_vars PROVE TypeOK'
  OBVIOUS
<1> USE LinesAssumption DEF TypeOK, ThreadsOK, PeersOK, ProxyOK
<1>1. CASE Type \/ CloseStdin \/ CloseStdout \/ ServerExits \/ Signal
  BY <1>1 DEF Type, CloseStdin, CloseStdout, ServerExits, Signal
<1>2. CASE ServerWrites
  BY <1>2 DEF ServerWrites
<1>3. CASE ReadLine
  BY <1>3 DEF ReadLine
<1>4. ASSUME NEW w \in writes, Write(w) \/ WriteFails(w) PROVE TypeOK'
  <2>1. ThreadsOK'
    <3>1. w.text \in Text
      OBVIOUS
    <3>2. output' = output \/ output' = Append(output, w.text)
      BY <1>4 DEF Write, WriteFails
    <3>3. output' \in Seq(Text)
      BY <3>1, <3>2
    <3>4. writes' \subseteq writes /\ reader' = reader
      BY <1>4 DEF Write, WriteFails
    <3> QED BY <3>3, <3>4
  <2>2. PeersOK'
    BY <1>4 DEF Write, WriteFails, Wrote
  <2>3. ProxyOK'
    BY <1>4 DEF Write, WriteFails, Wrote
  <2> QED BY <2>1, <2>2, <2>3
<1>5. CASE Pumps
  <2>1. CASE AwaitLine
    BY <2>1 DEF AwaitLine
  <2>2. CASE Inspect
    BY <2>2 DEF Inspect
  <2>3. CASE AwaitReply \/ Fetch
    BY <2>3 DEF AwaitReply, Fetch
  <2>4. CASE EndC2s \/ EndS2c
    BY <2>4 DEF EndC2s, EndS2c
  <2>5. CASE StartAnswer
    BY <2>5 DEF StartAnswer, Locked, Answer, Text
  <2>6. CASE StartReply
    BY <2>6 DEF StartReply, Locked, Reply, Text
  <2> QED BY <1>5, <2>1, <2>2, <2>3, <2>4, <2>5, <2>6 DEF Pumps
<1>6. CASE Main
  <2>1. CASE ClientEnded \/ Drained \/ Return \/ Exit
    BY <2>1 DEF ClientEnded, Drained, Return, Exit
  <2>2. ASSUME NEW which, Cancel(which), main' = "joins" PROVE TypeOK'
    BY <2>2 DEF Cancel
  <2> QED BY <1>6, <2>1, <2>2 DEF Main, Stopped, DrainTimeout, ServerEnded
<1>7. CASE UNCHANGED vars
  BY <1>7
<1> QED BY <1>1, <1>2, <1>3, <1>4, <1>5, <1>6, <1>7 DEF Next, Threads, Gone

\* Every step of run_proxy that stops waiting ends both pumps.
LEMMA PumpsStep == TypeOK /\ PumpsEnd /\ WritesOK /\ LinesOK /\ [Next]_vars => PumpsEnd'
<1> SUFFICES ASSUME TypeOK, PumpsEnd, WritesOK, LinesOK, [Next]_vars PROVE PumpsEnd'
  OBVIOUS
<1> USE DEF TypeOK, ProxyOK, PumpsEnd, AtEnd
<1>1. CASE Type \/ CloseStdin \/ CloseStdout \/ ServerWrites \/ ServerExits \/ Signal
  BY <1>1 DEF Type, CloseStdin, CloseStdout, ServerWrites, ServerExits, Signal
<1>2. CASE ReadLine
  BY <1>2 DEF ReadLine, LinesOK, ThreadsOK
<1>3. ASSUME NEW w \in writes, Write(w) \/ WriteFails(w) PROVE PumpsEnd'
  BY <1>3 DEF Write, WriteFails, Wrote, WritesOK, ThreadsOK
<1>4. CASE Pumps
  BY <1>4 DEF Pumps, AwaitLine, Inspect, StartAnswer, AwaitReply, Fetch, StartReply,
              EndC2s, EndS2c
<1>5. CASE Main
  <2>1. CASE ClientEnded \/ Drained \/ Return \/ Exit
    BY <2>1 DEF ClientEnded, Drained, Return, Exit
  <2>2. CASE Stopped \/ DrainTimeout \/ ServerEnded
    BY <2>2 DEF Stopped, DrainTimeout, ServerEnded, Cancel
  <2> QED BY <1>5, <2>1, <2>2 DEF Main
<1>6. CASE UNCHANGED vars
  BY <1>6
<1> QED BY <1>1, <1>2, <1>3, <1>4, <1>5, <1>6 DEF Next, Threads, Gone

\* The pump that takes the lock finds no thread at work, and a pump that is
\* cancelled leaves its thread when the other one has ended or ends, too.
LEMMA WritesStep == TypeOK /\ PumpsEnd /\ WritesOK /\ LinesOK /\ [Next]_vars => WritesOK'
<1> SUFFICES ASSUME TypeOK, PumpsEnd, WritesOK, LinesOK, [Next]_vars PROVE WritesOK'
  OBVIOUS
<1> USE DEF TypeOK, ThreadsOK, ProxyOK, WritesOK, AtEnd
<1>1. CASE Type \/ CloseStdin \/ CloseStdout \/ ServerWrites \/ ServerExits \/ Signal
  BY <1>1 DEF Type, CloseStdin, CloseStdout, ServerWrites, ServerExits, Signal
<1>2. CASE ReadLine
  BY <1>2 DEF ReadLine, LinesOK
<1>3. ASSUME NEW w \in writes, Write(w) \/ WriteFails(w) PROVE WritesOK'
  BY <1>3 DEF Write, WriteFails, Wrote
<1>4. CASE Pumps
  <2>1. CASE AwaitLine \/ Inspect
    BY <2>1 DEF AwaitLine, Inspect
  <2>2. CASE AwaitReply \/ Fetch
    BY <2>2 DEF AwaitReply, Fetch
  <2>3. CASE EndC2s \/ EndS2c
    BY <2>3 DEF EndC2s, EndS2c
  <2>4. CASE StartAnswer
    <3>1. lock = Free /\ c2s = "answer"
      BY <2>4 DEF StartAnswer, Locked
    <3>2. writes = {}
      BY <3>1
    <3> QED BY <2>4, <3>1, <3>2 DEF StartAnswer, Locked
  <2>5. CASE StartReply
    <3>1. lock = Free /\ s2c = "reply"
      BY <2>5 DEF StartReply, Locked
    <3>2. writes = {}
      BY <3>1
    <3> QED BY <2>5, <3>1, <3>2 DEF StartReply, Locked
  <2> QED BY <1>4, <2>1, <2>2, <2>3, <2>4, <2>5 DEF Pumps
<1>5. CASE Main
  <2>1. CASE ClientEnded \/ Drained \/ Return \/ Exit
    BY <2>1 DEF ClientEnded, Drained, Return, Exit
  <2>2. ASSUME NEW which \in SUBSET {"c2s", "s2c"}, Cancel(which), AtEnd(c2s)', AtEnd(s2c)'
        PROVE  WritesOK'
    BY <2>2 DEF Cancel
  <2>3. CASE Stopped
    BY <2>2, <2>3 DEF Stopped, Cancel
  <2>4. CASE DrainTimeout
    BY <2>2, <2>4 DEF DrainTimeout, Cancel, PumpsEnd
  <2>5. CASE ServerEnded
    BY <2>2, <2>5 DEF ServerEnded, Cancel
  <2> QED BY <1>5, <2>1, <2>3, <2>4, <2>5 DEF Main
<1>6. CASE UNCHANGED vars
  BY <1>6
<1> QED BY <1>1, <1>2, <1>3, <1>4, <1>5, <1>6 DEF Next, Threads, Gone

\* Where the line in hand goes: it is handled, or it is the one that is lost.
LEMMA LinesStep == TypeOK /\ WritesOK /\ LinesOK /\ [Next]_vars => LinesOK'
<1> SUFFICES ASSUME TypeOK, WritesOK, LinesOK, [Next]_vars PROVE LinesOK'
  OBVIOUS
<1> USE DEF TypeOK, ThreadsOK, PeersOK, ProxyOK, LinesOK, AtEnd
<1>1. CASE Type \/ CloseStdin \/ CloseStdout \/ ServerWrites \/ ServerExits \/ Signal
  BY <1>1 DEF Type, CloseStdin, CloseStdout, ServerWrites, ServerExits, Signal, Unhandled
<1>2. CASE ReadLine
  <2>1. CASE taken < typed
    <3>1. taken' = taken + 1 /\ taken' \in 1..taken' /\ taken' \in Nat /\ handled' = handled
      BY <1>2, <2>1 DEF ReadLine
    <3>2. Unhandled = {}
      BY <1>2 DEF ReadLine
    <3>3. Unhandled' \subseteq {taken'}
      BY <3>1, <3>2 DEF Unhandled
    <3>4. reader' = "idle" /\ c2s' \notin {"read", "reading", "answer", "writing"}
      BY <1>2, <2>1 DEF ReadLine
    <3>5. c2s' = "inspect" => line' = taken'
      BY <1>2, <2>1 DEF ReadLine
    <3> QED BY SMTT(30), <3>1, <3>3, <3>4, <3>5
  <2>2. CASE ~(taken < typed)
    <3>1. Unhandled' = Unhandled
      BY <1>2, <2>2 DEF ReadLine, Unhandled
    <3> QED BY <1>2, <2>2, <3>1 DEF ReadLine
  <2> QED BY <2>1, <2>2
<1>3. ASSUME NEW w \in writes, Write(w) \/ WriteFails(w) PROVE LinesOK'
  <2>1. CASE w.by = "c2s" /\ Write(w)
    <3>1. c2s = "writing" /\ c2s' = "read" /\ handled' = handled \cup {line} /\ taken' = taken
      BY <2>1 DEF Write, Wrote, WritesOK
    <3>2. Unhandled' = {}
      BY <3>1 DEF Unhandled
    <3> QED BY <2>1, <3>1, <3>2 DEF Write, Wrote
  <2>2. CASE w.by # "c2s" \/ WriteFails(w)
    <3>1. Unhandled' = Unhandled /\ reader' = reader /\ handled' = handled /\ taken' = taken
      BY <1>3, <2>2 DEF Write, WriteFails, Wrote, Unhandled
    <3>2. (c2s' = c2s /\ line' = line) \/ (c2s = "writing" /\ c2s' = "end")
      BY <1>3, <2>2 DEF Write, WriteFails, Wrote, WritesOK
    <3> QED BY <3>1, <3>2
  <2> QED BY <1>3, <2>1, <2>2
<1>4. CASE Pumps
  <2>1. CASE Inspect
    <3>1. CASE c2s' = "read"
      <4>1. Unhandled' = {}
        BY <2>1, <3>1 DEF Inspect, Unhandled
      <4> QED BY <2>1, <3>1, <4>1 DEF Inspect
    <3>2. CASE c2s' \in {"end", "answer"}
      <4>1. Unhandled' = Unhandled
        BY <2>1, <3>2 DEF Inspect, Unhandled
      <4> QED BY <2>1, <3>2, <4>1 DEF Inspect
    <3> QED BY <2>1, <3>1, <3>2 DEF Inspect
  <2>2. CASE Pumps /\ ~Inspect
    <3>1. Unhandled' = Unhandled /\ handled' = handled /\ taken' = taken /\ line' = line
      BY <2>2 DEF Pumps, AwaitLine, StartAnswer, AwaitReply, Fetch, StartReply, EndC2s,
                  EndS2c, Unhandled
    <3> QED BY <2>2, <3>1 DEF Pumps, AwaitLine, StartAnswer, AwaitReply, Fetch,
                StartReply, EndC2s, EndS2c
  <2> QED BY <1>4, <2>1, <2>2
<1>5. CASE Main
  <2>1. Unhandled' = Unhandled /\ handled' = handled /\ taken' = taken /\ line' = line
    BY <1>5 DEF Main, Stopped, ClientEnded, Drained, DrainTimeout, ServerEnded, Return, Exit,
                Cancel, Unhandled
  <2>2. CASE ClientEnded \/ Drained \/ Return \/ Exit
    BY <2>1, <2>2 DEF ClientEnded, Drained, Return, Exit
  <2>3. CASE Stopped \/ DrainTimeout \/ ServerEnded
    BY <2>1, <2>3 DEF Stopped, DrainTimeout, ServerEnded, Cancel
  <2> QED BY <1>5, <2>2, <2>3 DEF Main
<1>6. CASE UNCHANGED vars
  BY <1>6 DEF Unhandled
<1> QED BY <1>1, <1>2, <1>3, <1>4, <1>5, <1>6 DEF Next, Threads, Gone

\* What comes out next is the line that its pump has in hands.
LEMMA RepliesStep ==
    TypeOK /\ WritesOK /\ LinesOK /\ RepliesOK /\ SentIsOut /\ [Next]_vars
        => RepliesOK' /\ SentIsOut'
<1> SUFFICES ASSUME TypeOK, WritesOK, LinesOK, RepliesOK, SentIsOut, [Next]_vars
             PROVE  RepliesOK' /\ SentIsOut'
  OBVIOUS
<1> USE LinesAssumption DEF TypeOK, ThreadsOK, PeersOK, ProxyOK, RepliesOK
<1>1. ASSUME UNCHANGED <<output, recorded>>
      PROVE  SentIsOut' /\ Out' = Out
  BY <1>1 DEF SentIsOut, Out
<1>2. CASE Type \/ CloseStdin \/ CloseStdout \/ ServerWrites \/ ServerExits \/ Signal
  BY <1>1, <1>2 DEF Type, CloseStdin, CloseStdout, ServerWrites, ServerExits, Signal
<1>3. CASE ReadLine
  BY <1>1, <1>3 DEF ReadLine
<1>4. ASSUME NEW w \in writes, Write(w) PROVE RepliesOK' /\ SentIsOut'
  <2>1. output' = Append(output, w.text) /\ writes' = {}
    BY <1>4 DEF Write, WritesOK
  <2>2. recorded' \subseteq recorded \cup {w.text} /\ fetched' = fetched
    BY <1>4 DEF Write, Wrote
  <2>3. /\ DOMAIN output = 1..Len(output) /\ Len(output) \in Nat
        /\ DOMAIN output' = 1..(Len(output) + 1)
        /\ output'[Len(output) + 1] = w.text
        /\ \A i \in DOMAIN output : output'[i] = output[i]
    BY <2>1
  <2>4. Range(output') = Range(output) \cup {w.text}
    BY <2>3 DEF Range
  <2>5. recorded' \subseteq Range(output')
    BY <2>2, <2>4 DEF SentIsOut
  <2>6. Out' = Out \cup {m \in 1..MaxReplies : Reply(m) = w.text}
    BY <2>4 DEF Out
  <2>7. Out = {m \in 1..MaxReplies : \E j \in 1..Len(output) : output[j] = Reply(m)}
    BY <2>3 DEF Out, Range
  <2>8. ASSUME NEW i \in DOMAIN output', NEW n \in 1..MaxReplies, output'[i] = Reply(n)
        PROVE  {m \in 1..MaxReplies : \E j \in 1..(i - 1) : output'[j] = Reply(m)} = 1..(n - 1)
    <3>1. \A j \in 1..(i - 1) : j \in DOMAIN output /\ output'[j] = output[j]
      BY <2>3
    <3>2. CASE i \in DOMAIN output
      BY <2>3, <2>8, <3>1, <3>2 DEF SentIsOut
    <3>3. CASE i = Len(output) + 1
      <4>1. w.text = Reply(n)
        BY <2>3, <2>8, <3>3
      <4>2. n = fetched /\ Out = 1..(fetched - 1)
        BY <4>1 DEF Reply
      <4>3. {m \in 1..MaxReplies : \E j \in 1..(i - 1) : output'[j] = Reply(m)} = Out
        BY <2>3, <2>7, <3>1, <3>3
      <4> QED BY <4>2, <4>3
    <3> QED BY SMTT(30), <2>3, <3>2, <3>3
  <2>9. SentIsOut'
    BY <2>5, <2>8 DEF SentIsOut
  <2>10. CASE w.text[1] = "answer" /\ w.by # "s2c"
    <3>1. Out' = Out
      BY <2>6, <2>10 DEF Reply
    <3>2. s2c' = s2c
      BY <1>4, <2>10 DEF Write, Wrote
    <3> QED BY <2>1, <2>2, <2>9, <3>1, <3>2
  <2>11. CASE w.text = Reply(fetched) /\ w.by # "c2s" /\ fetched # 0 /\ Out = 1..(fetched - 1)
    <3>1. fetched \in 1..MaxReplies
      BY <2>11
    <3>2. \A m \in 1..MaxReplies : Reply(m) = w.text <=> m = fetched
      BY <2>11 DEF Reply
    <3>3. Out' = 1..fetched
      BY <2>6, <2>11, <3>1, <3>2
    <3>4. s2c' \notin {"reply", "writing"}
      BY <1>4, <2>11 DEF Write, Wrote, WritesOK, AtEnd
    <3> QED BY <2>1, <2>2, <2>9, <3>3, <3>4
  <2> QED BY <2>10, <2>11
<1>5. ASSUME NEW w \in writes, WriteFails(w) PROVE RepliesOK' /\ SentIsOut'
  <2>1. UNCHANGED <<output, recorded, fetched>> /\ writes' \subseteq writes
    BY <1>5 DEF WriteFails, Wrote
  <2>2. s2c' = s2c \/ s2c' = "end"
    BY <1>5 DEF WriteFails, Wrote
  <2> QED BY <1>1, <2>1, <2>2
<1>6. CASE Pumps
  <2>1. UNCHANGED <<output, recorded>>
    BY <1>6 DEF Pumps, AwaitLine, Inspect, StartAnswer, AwaitReply, Fetch, StartReply,
                EndC2s, EndS2c
  <2>2. CASE AwaitLine \/ Inspect \/ AwaitReply \/ EndC2s \/ EndS2c
    BY <1>1, <2>1, <2>2 DEF AwaitLine, Inspect, AwaitReply, EndC2s, EndS2c
  <2>3. CASE Fetch
    <3>1. s2c = "reading" /\ writes' = writes
      BY <2>3 DEF Fetch
    <3>2. \A w \in writes : w.text[1] = "answer" /\ w.by # "s2c"
      BY <3>1 DEF WritesOK, AtEnd, Reply
    <3> QED BY <1>1, <2>1, <2>3, <3>1, <3>2 DEF Fetch
  <2>4. CASE StartAnswer
    <3>1. writes' \subseteq writes \cup {[text |-> Answer(line), by |-> "c2s"]}
      BY <2>4 DEF StartAnswer, Locked
    <3> QED BY <1>1, <2>1, <2>4, <3>1 DEF StartAnswer, Answer
  <2>5. CASE StartReply
    <3>1. writes' \subseteq writes \cup {[text |-> Reply(fetched), by |-> "s2c"]}
      BY <2>5 DEF StartReply, Locked
    <3> QED BY <1>1, <2>1, <2>5, <3>1 DEF StartReply
  <2> QED BY <1>6, <2>2, <2>3, <2>4, <2>5 DEF Pumps
<1>7. CASE Main
  <2>1. UNCHANGED <<output, recorded, fetched>>
    BY <1>7 DEF Main, Stopped, ClientEnded, Drained, DrainTimeout, ServerEnded, Return, Exit,
                Cancel
  <2>2. CASE ClientEnded \/ Drained \/ Return \/ Exit
    BY <1>1, <2>1, <2>2 DEF ClientEnded, Drained, Return, Exit
  <2>3. ASSUME NEW which, Cancel(which) PROVE RepliesOK' /\ SentIsOut'
    <3>1. \A v \in writes' : \E w \in writes : v.text = w.text /\ v.by \in {w.by, "nobody"}
      BY <2>3 DEF Cancel
    <3>2. s2c' = s2c \/ s2c' = "end"
      BY <2>3 DEF Cancel
    <3> QED BY <1>1, <2>1, <3>1, <3>2
  <2> QED BY <1>7, <2>2, <2>3 DEF Main, Stopped, DrainTimeout, ServerEnded
<1>8. CASE UNCHANGED vars
  BY <1>1, <1>8
<1> QED BY <1>2, <1>3, <1>4, <1>5, <1>6, <1>7, <1>8 DEF Next, Threads, Gone

\* The invariant holds in every behaviour.
THEOREM Invariance == Spec => []IInv
<1>1. IInv /\ [Next]_vars => IInv'
  BY TypeStep, PumpsStep, WritesStep, LinesStep, RepliesStep DEF IInv
<1> QED BY InitIInv, <1>1, PTL DEF Spec, ProxySpec

-------------------------------------------------------------------------------
\* A set whose elements are all the same has at most one.
LEMMA AtMostOne ==
    ASSUME NEW S, NEW x, S \subseteq {x}
    PROVE  Cardinality(S) <= 1
<1>1. S = {} \/ S = {x}
  OBVIOUS
<1>2. CASE S = {}
  BY <1>2, FS_EmptySet
<1>3. CASE S = {x}
  BY <1>3, FS_Singleton
<1> QED BY <1>1, <1>2, <1>3

\* No two threads write to the client's stdout at once (proxy.py,
\* _BlockingWriter), although a cancelled write gives its lock back early.
THEOREM ThreadsTakeTurns == Spec => []OneWriter
<1>1. IInv => OneWriter
  <2> SUFFICES ASSUME IInv PROVE Cardinality(writes) <= 1
    BY DEF OneWriter
  <2>1. CASE writes = {}
    BY <2>1, FS_EmptySet
  <2>2. CASE writes # {}
    <3>1. PICK w \in writes : writes \subseteq {w}
      BY <2>2 DEF IInv, WritesOK
    <3> QED BY <3>1, AtMostOne
  <2> QED BY <2>1, <2>2
<1> QED BY Invariance, <1>1, PTL

\* Of all lines that were read off the client's stdin at most one is neither
\* passed on nor answered (proxy.py, _BlockingReader and _pump).
THEOREM AtMostOneLineIsLost == Spec => []LinesArePassedOn
<1>1. IInv => LinesArePassedOn
  BY AtMostOne DEF IInv, LinesOK, Unhandled, LinesArePassedOn
<1> QED BY Invariance, <1>1, PTL

\* What the rows say was sent has come out, and the server's lines in order
\* (proxy.py, _pump, _safe_write and _BlockingWriter).
THEOREM RowsTellWhatWasSent == Spec => []SentIsOut
BY Invariance, PTL DEF IInv
===============================================================================
