------------------------------ MODULE Proxy_proofs ------------------------------
(***************************************************************************)
(* For any scripts of the peers, any size of the pipes and any order of    *)
(* their ends, signals and timers: the pumps keep the lines and the audit  *)
(* rows in order, answer what is blocked, record what is sent, and hand  *)
(* on the server's last replies; and no pump outlives run_proxy.           *)
(*                                                                         *)
(* The invariant is the conjunction of four.  LifeInv relates the phase of *)
(* run_proxy to the pumps and the server process; with LockHeld it gives   *)
(* ExitIsClean.  TrafficInv follows a line from its pump to the writer and *)
(* the audit log: what has its number n = pos is at its pump still, and    *)
(* the stand of the pump tells what has been done with it; what is before  *)
(* is done with, and whatever is missing of it is missing because a writer *)
(* had closed.  DrainInv says in which ways the server's pump may have     *)
(* ended.                                                                  *)
(***************************************************************************)
EXTENDS Proxy, FiniteSetTheorems, TLAPS

-------------------------------------------------------------------------------
(* The inductive invariant.                                                *)

\* What is written and recorded.
Entries ==
    [d : Directions, n : Nat, to : Peers, form : {"forward", "reply", "replace"},
     ids : SUBSET Nat, array : BOOLEAN]
AuditRows == [d : Directions, n : Nat, form : {"synthetic", "members"}]

TypeInv ==
    /\ TypeOK
    /\ verdict \in [Directions -> Seq(SUBSET Nat)]
    /\ out \in Seq(Entries) /\ audit \in Seq(AuditRows)
    /\ \A d \in Directions : pc[d] \in {"inspect", "write", "drain"} => pos[d] > 0

\* Where run_proxy stands, where the pumps do, and what has become of the server.
LifeInv ==
    /\ \A d \in Directions :
        /\ main = "starting" => pc[d] = "none"
        /\ pc[d] = "none" => main \in {"starting", "crashed"} /\ pos[d] = 0
        /\ pc[d] = "done" <=> result[d] # "none"
        /\ main \in {"reap", "wait", "termwait", "killwait", "teardown", "exited"} =>
              pc[d] = "done"
    /\ main \in {"halfclose", "draining"} => pc["c2s"] = "done"
    /\ main \notin {"starting", "crashed"} => child # "none"
    /\ main \in {"teardown", "exited"} => child = "exited"
    /\ main = "exited" => session = "ended"
    /\ main = "crashed" => \A d \in Directions : pc[d] \in {"none", "done"}

\* To whom the pump writes the n-th line of its direction.
Addressee(d, n) == IF verdict[d][n] = {} THEN Dst(d) ELSE "client"

\* A line is written by the pump that is at it or has been, to its addressee, and
\* a reply answers the requests among its members.
OutOK(k) ==
    /\ out[k].n \in 1..pos[out[k].d]
    /\ out[k].n = pos[out[k].d] => pc[out[k].d] \in {"read", "drain", "done"}
    /\ out[k].to = Addressee(out[k].d, out[k].n)
    /\ verdict[out[k].d][out[k].n] # {} /\ out[k].d = "c2s" =>
          OfKind(script["c2s"][out[k].n], "request") \subseteq out[k].ids

\* A line is recorded after it was written, by the pump that goes on or ends then.
AuditOK(k) ==
    /\ audit[k].n \in 1..pos[audit[k].d]
    /\ audit[k].n = pos[audit[k].d] => pc[audit[k].d] \in {"read", "done"}

\* What a pump leaves behind is recorded, and written if its writer is open.
LineOK(d, n) ==
    /\ n \in Passed(d) /\ HasMembers(d, n) => AuditOf(d, n) # {}
    /\ n \in Passed(d) \/ AuditOf(d, n) # {} \/ (n = pos[d] /\ pc[d] = "drain") =>
          WrittenOf(d, n) # {} \/ writer[Addressee(d, n)] # "open"

TrafficInv ==
    /\ \A k \in DOMAIN out : OutOK(k)
    /\ \A k \in DOMAIN audit : AuditOK(k)
    /\ \A d \in Directions : \A n \in 1..pos[d] : LineOK(d, n)
    /\ InOrder

\* The server's pump closes the client's writer and returns by itself only when it
\* has written all that the server wrote, unless there was a signal.
DrainInv ==
    /\ writer["client"] = "closing" => pc["s2c"] = "done"
    /\ result["s2c"] = "cancelled" => stop \/ timedOut
    /\ result["s2c"] = "returned" /\ ~stop /\ writer["client"] # "lost" =>
        /\ eof["s2c"] /\ pos["s2c"] = sent["s2c"]
        /\ \A n \in 1..pos["s2c"] : WrittenOf("s2c", n) # {}

USE DEF peers, pumps, pipes, life, trail, vars

-------------------------------------------------------------------------------
(* What the parts of the actions do.                                       *)

LEMMA LineTypes ==
    ASSUME TypeInv, NEW d \in Directions, NEW n \in 1..sent[d]
    PROVE  /\ script[d][n] \in Lines
           /\ script[d][n].members \in Seq(Kinds)
           /\ Indices(script[d][n]) \subseteq Nat
           /\ \A kind : OfKind(script[d][n], kind) \subseteq Indices(script[d][n])
<1>1. n \in 1..Len(script[d]) /\ script[d] \in Seq(Lines)
  BY DEF TypeInv, TypeOK
<1>2. script[d][n] \in Lines
  BY <1>1
<1>3. script[d][n].members \in Seq(Kinds) /\ script[d][n].array \in BOOLEAN
  BY <1>2 DEF Lines
<1> QED BY <1>2, <1>3 DEF Indices, OfKind

\* What a pump writes is an entry for the line it is at.
LEMMA WrittenType ==
    ASSUME TypeInv, NEW d \in Directions, pos[d] > 0
    PROVE  /\ Written(d) \in Entries
           /\ Written(d).d = d /\ Written(d).n = pos[d]
           /\ Written(d).to = IF Blocked(d) = {} THEN Dst(d) ELSE "client"
           /\ Written(d).to \in Peers
           /\ Written(d).ids = IF Blocked(d) # {} /\ d = "c2s"
                                 THEN Answered(Current(d), Blocked(d))
                                 ELSE Indices(Current(d))
<1>1. pos[d] \in 1..sent[d] /\ pos[d] \in 1..Len(verdict[d]) /\ pos[d] \in Nat
  BY DEF TypeInv, TypeOK
<1>2. Blocked(d) \subseteq Nat
  BY <1>1 DEF Blocked, TypeInv
<1>3. Current(d) \in Lines /\ Indices(Current(d)) \subseteq Nat
      /\ OfKind(Current(d), "request") \subseteq Nat /\ Current(d).array \in BOOLEAN
  BY <1>1, LineTypes DEF Current, Lines
<1>4. Answered(Current(d), Blocked(d)) \subseteq Nat
  BY <1>2, <1>3 DEF Answered
<1>5. Dst(d) \in Peers /\ "client" \in Peers
  BY DEF Dst, Peers
<1>6. IsBatch(Current(d)) \in BOOLEAN
  BY DEF IsBatch
<1> QED BY <1>1, <1>3, <1>4, <1>5, <1>6 DEF Written, Entries

LEMMA EndPumpsEffect ==
    ASSUME TypeInv, NEW D \in SUBSET Directions,
           NEW how \in {"returned", "failed", "cancelled"}, EndPumps(D, how)
    PROVE  /\ pc' \in [Directions -> {"none", "read", "inspect", "write", "drain", "done"}]
           /\ result' \in [Directions -> {"none", "returned", "failed", "cancelled"}]
           /\ lock' \in {"free"} \cup Directions
           /\ writer' \in [Peers -> {"open", "closing", "lost"}]
           /\ \A d \in Directions :
                /\ pc'[d] = IF d \in D THEN "done" ELSE pc[d]
                /\ result'[d] = IF d \in D /\ pc[d] # "done" THEN how ELSE result[d]
           /\ lock' = IF lock \in D /\ pc[lock] # "done" THEN "free" ELSE lock
           /\ \A p \in Peers : writer'[p] # writer[p] =>
                writer[p] = "open" /\ writer'[p] = "closing" /\ \E d \in D : Dst(d) = p
<1> DEFINE ending == {d \in D : pc[d] # "done"}
<1>1. /\ pc' = [d \in Directions |-> IF d \in ending THEN "done" ELSE pc[d]]
      /\ result' = [d \in Directions |-> IF d \in ending THEN how ELSE result[d]]
      /\ lock' = IF lock \in ending THEN "free" ELSE lock
      /\ writer' = [p \in Peers |->
            IF writer[p] = "open" /\ \E d \in ending : Dst(d) = p
              THEN "closing" ELSE writer[p]]
  BY DEF EndPumps
<1>2. TypeOK
  BY DEF TypeInv
<1>3. pc' \in [Directions -> {"none", "read", "inspect", "write", "drain", "done"}]
  BY <1>1, <1>2 DEF TypeOK
<1>4. result' \in [Directions -> {"none", "returned", "failed", "cancelled"}]
  BY <1>1, <1>2 DEF TypeOK
<1>5. lock' \in {"free"} \cup Directions
  BY <1>1, <1>2 DEF TypeOK
<1>6. writer' \in [Peers -> {"open", "closing", "lost"}]
  BY <1>1, <1>2 DEF TypeOK
<1>7. \A p \in Peers : writer'[p] # writer[p] =>
                writer[p] = "open" /\ writer'[p] = "closing" /\ \E d \in D : Dst(d) = p
  BY <1>1
<1>8. \A d \in Directions :
                /\ pc'[d] = IF d \in D THEN "done" ELSE pc[d]
                /\ result'[d] = IF d \in D /\ pc[d] # "done" THEN how ELSE result[d]
  BY <1>1
<1>9. lock' = IF lock \in D /\ pc[lock] # "done" THEN "free" ELSE lock
  BY <1>1
<1> QED BY <1>3, <1>4, <1>5, <1>6, <1>7, <1>8, <1>9

\* The rows of a line: its members last, if it has any.
LEMMA RowsOf ==
    ASSUME TypeInv, NEW d \in Directions, pos[d] > 0
    PROVE  /\ Rows(d) \in Seq(AuditRows)
           /\ Len(Rows(d)) \in 0..2
           /\ \A k \in 1..Len(Rows(d)) : Rows(d)[k].d = d /\ Rows(d)[k].n = pos[d]
           /\ Len(Rows(d)) = 2 => Rows(d)[1].form = "synthetic" /\ Rows(d)[2].form = "members"
           /\ Current(d).members # <<>> => Len(Rows(d)) > 0
<1> DEFINE syn == [d |-> d, n |-> pos[d], form |-> "synthetic"]
           mem == [d |-> d, n |-> pos[d], form |-> "members"]
<1>1. pos[d] \in Nat
  BY DEF TypeInv, TypeOK
<1>2. syn \in AuditRows /\ mem \in AuditRows
  BY <1>1 DEF AuditRows
<1>3. /\ syn.d = d /\ syn.n = pos[d] /\ syn.form = "synthetic"
      /\ mem.d = d /\ mem.n = pos[d] /\ mem.form = "members"
  OBVIOUS
<1>4. Rows(d) \in {<<>>, <<syn>>, <<mem>>, <<syn>> \o <<mem>>}
      /\ (Current(d).members # <<>> => Rows(d) \in {<<mem>>, <<syn>> \o <<mem>>})
  <2>1. <<syn>> \o <<>> = <<syn>>
    OBVIOUS
  <2> QED BY <2>1 DEF Rows
<1> HIDE DEF syn, mem
<1>5. /\ <<syn>> \in Seq(AuditRows) /\ Len(<<syn>>) = 1 /\ <<syn>>[1] = syn
      /\ <<mem>> \in Seq(AuditRows) /\ Len(<<mem>>) = 1 /\ <<mem>>[1] = mem
  BY <1>2
<1>6. CASE Rows(d) = <<>>
  BY <1>4, <1>6
<1>7. CASE Rows(d) = <<syn>>
  BY <1>2, <1>3, <1>7
<1>8. CASE Rows(d) = <<mem>>
  BY <1>2, <1>3, <1>8
<1>9. CASE Rows(d) = <<syn>> \o <<mem>>
  <2>1. /\ Rows(d) \in Seq(AuditRows) /\ Len(Rows(d)) = 2
        /\ Rows(d)[1] = syn /\ Rows(d)[2] = mem
    BY <1>5, <1>9
  <2> QED BY <1>3, <2>1
<1> QED BY <1>4, <1>5, <1>6, <1>7, <1>8, <1>9

\* What recording a line adds to the rows.
LEMMA RowsAdded ==
    ASSUME TypeInv, NEW d \in Directions, pos[d] > 0, audit' = audit \o Rows(d)
    PROVE  /\ audit' \in Seq(AuditRows) /\ DOMAIN audit \subseteq DOMAIN audit'
           /\ \A k \in DOMAIN audit : audit'[k] = audit[k]
           /\ \A k \in DOMAIN audit' \ DOMAIN audit :
                audit'[k].d = d /\ audit'[k].n = pos[d] /\ \A j \in DOMAIN audit : j < k
           /\ \A j, k \in DOMAIN audit' \ DOMAIN audit : j < k =>
                audit'[j].form = "synthetic" /\ audit'[k].form = "members"
           /\ Current(d).members # <<>> => DOMAIN audit' \ DOMAIN audit # {}
<1> DEFINE rows == Rows(d)
           L == Len(audit)
<1>1. /\ rows \in Seq(AuditRows) /\ Len(rows) \in 0..2
      /\ \A k \in 1..Len(rows) : rows[k].d = d /\ rows[k].n = pos[d]
      /\ Len(rows) = 2 => rows[1].form = "synthetic" /\ rows[2].form = "members"
      /\ Current(d).members # <<>> => Len(rows) > 0
  BY RowsOf
<1>2. audit \in Seq(AuditRows) /\ L \in Nat /\ DOMAIN audit = 1..L
  BY DEF TypeInv
<1>3. audit' = audit \o rows
  OBVIOUS
<1> HIDE DEF rows
<1>4. /\ audit' \in Seq(AuditRows) /\ DOMAIN audit' = 1..(L + Len(rows))
      /\ \A k \in 1..L : audit'[k] = audit[k]
      /\ \A k \in 1..Len(rows) : audit'[L + k] = rows[k]
  BY <1>1, <1>2, <1>3
<1> HIDE DEF L
<1>5. ASSUME NEW k \in DOMAIN audit' \ DOMAIN audit
      PROVE  k - L \in 1..Len(rows) /\ audit'[k] = rows[k - L] /\ k > L
  <2>1. k \in Int /\ k > L /\ k <= L + Len(rows)
    BY <1>1, <1>2, <1>4, <1>5
  <2>2. k - L \in 1..Len(rows) /\ k = L + (k - L)
    BY <1>1, <1>2, <2>1
  <2>3. audit'[L + (k - L)] = rows[k - L]
    BY <1>4, <2>2
  <2> QED BY <2>1, <2>2, <2>3
<1>6. \A k \in DOMAIN audit' \ DOMAIN audit :
         audit'[k].d = d /\ audit'[k].n = pos[d] /\ \A j \in DOMAIN audit : j < k
  BY <1>1, <1>2, <1>5
<1>7. ASSUME NEW j \in DOMAIN audit' \ DOMAIN audit, NEW k \in DOMAIN audit' \ DOMAIN audit, j < k
      PROVE  audit'[j].form = "synthetic" /\ audit'[k].form = "members"
  <2>1. /\ j - L \in 1..Len(rows) /\ k - L \in 1..Len(rows)
        /\ audit'[j] = rows[j - L] /\ audit'[k] = rows[k - L]
    BY <1>5
  <2>2. Len(rows) = 2 /\ j - L = 1 /\ k - L = 2
    BY SMTT(30), <1>1, <1>2, <1>4, <1>7, <2>1
  <2> QED BY <1>1, <2>1, <2>2
<1>8. Current(d).members # <<>> => DOMAIN audit' \ DOMAIN audit # {}
  <2> SUFFICES ASSUME Len(rows) > 0 PROVE L + 1 \in DOMAIN audit' \ DOMAIN audit
    BY <1>1
  <2> QED BY <1>1, <1>2, <1>4
<1> QED BY <1>2, <1>4, <1>6, <1>7, <1>8

\* What writing a line adds to the lines written.
LEMMA LineAdded ==
    ASSUME TypeInv, NEW d \in Directions, pos[d] > 0, out' = Append(out, Written(d))
    PROVE  /\ out' \in Seq(Entries) /\ DOMAIN out \subseteq DOMAIN out'
           /\ \A k \in DOMAIN out : out'[k] = out[k]
           /\ \A k \in DOMAIN out' \ DOMAIN out :
                out'[k] = Written(d) /\ \A j \in DOMAIN out : j < k
           /\ DOMAIN out' \ DOMAIN out # {}
           /\ \A j, k \in DOMAIN out' \ DOMAIN out : j = k
<1>1. Written(d) \in Entries
  BY WrittenType
<1>2. out \in Seq(Entries) /\ DOMAIN out = 1..Len(out) /\ Len(out) \in Nat
  BY DEF TypeInv
<1>3. /\ out' \in Seq(Entries) /\ DOMAIN out' = 1..(Len(out) + 1)
      /\ \A k \in 1..Len(out) : out'[k] = out[k]
      /\ out'[Len(out) + 1] = Written(d)
  BY <1>1, <1>2
<1>4. DOMAIN out' \ DOMAIN out = {Len(out) + 1}
  BY <1>2, <1>3
<1>5. \A j \in DOMAIN out : j < Len(out) + 1
  BY <1>2
<1> QED BY <1>2, <1>3, <1>4, <1>5

\* A pump that has written goes on, or ends if there was a signal.
LEMMA AdvanceEffect ==
    ASSUME TypeInv, NEW d \in Directions, pc[d] \in {"write", "drain"}, Advance(d)
    PROVE  /\ audit' = audit \o Rows(d)
           /\ pc' \in [Directions -> {"none", "read", "inspect", "write", "drain", "done"}]
           /\ result' \in [Directions -> {"none", "returned", "failed", "cancelled"}]
           /\ lock' \in {"free"} \cup Directions
           /\ writer' \in [Peers -> {"open", "closing", "lost"}]
           /\ pc'[d] = (IF stop THEN "done" ELSE "read")
           /\ result'[d] = (IF stop THEN "returned" ELSE result[d])
           /\ \A e \in Directions \ {d} : pc'[e] = pc[e] /\ result'[e] = result[e]
           /\ lock' = IF lock = d THEN "free" ELSE lock
           /\ \A p \in Peers : writer'[p] # writer[p] =>
                writer[p] = "open" /\ writer'[p] = "closing" /\ stop /\ p = Dst(d)
<1>1. TypeOK
  BY DEF TypeInv
<1>2. CASE stop
  <2>1. EndPumps({d}, "returned") /\ {d} \in SUBSET Directions
    BY <1>2 DEF Advance
  <2> QED BY <1>2, <2>1, EndPumpsEffect DEF Advance
<1>3. CASE ~stop
  BY <1>1, <1>3 DEF Advance, TypeOK
<1> QED BY <1>2, <1>3

-------------------------------------------------------------------------------
(* Types.                                                                  *)

LEMMA TypesInit == Init => TypeInv
<1> SUFFICES ASSUME Init PROVE TypeInv
  OBVIOUS
<1>1. script \in [Directions -> Seq(Lines)]
  BY ScriptsAssumption DEF Init
<1>2. \A d \in Directions : Len(script[d]) \in Nat
  BY <1>1
<1>3. TypeOK
  <2>1. \A d \in Directions :
          /\ pos[d] <= sent[d] /\ sent[d] <= Len(script[d])
          /\ Len(verdict[d]) = pos[d]
          /\ \A n \in 1..pos[d] : verdict[d][n] \subseteq Blockable(d, script[d][n])
    BY <1>2 DEF Init
  <2> QED BY <1>1, <2>1 DEF Init, TypeOK
<1>4. out \in Seq(Entries) /\ audit \in Seq(AuditRows)
  BY DEF Init
<1>5. verdict \in [Directions -> Seq(SUBSET Nat)]
  BY DEF Init
<1> QED BY <1>3, <1>4, <1>5 DEF Init, TypeInv

\* What the peers and the operating system do.
Environment ==
    \/ \E d \in Directions : PeerWrites(d) \/ PeerCloses(d)
    \/ \E p \in Peers : PeerReads(p)
    \/ ClientGone \/ ServerExits \/ Signal

LEMMA EnvironmentTypes == TypeInv /\ Environment => TypeInv'
<1> SUFFICES ASSUME TypeInv, Environment PROVE TypeInv'
  OBVIOUS
<1>0. TypeOK
  BY DEF TypeInv
<1>1. UNCHANGED <<script, pumps, trail>>
  BY DEF Environment, PeerWrites, PeerCloses, PeerReads, ClientGone, ServerExits, Signal
<1>2. /\ sent' \in [Directions -> Nat] /\ eof' \in [Directions -> BOOLEAN]
      /\ \A d \in Directions : sent[d] <= sent'[d] /\ sent'[d] <= Len(script[d])
  <2>1. ASSUME NEW d \in Directions, PeerWrites(d) PROVE <1>2!:
    <3>1. /\ sent' = [sent EXCEPT ![d] = @ + 1] /\ sent[d] < Len(script[d])
          /\ UNCHANGED eof
      BY <2>1 DEF PeerWrites
    <3>2. \A e \in Directions : Len(script[e]) \in Nat
      BY <1>0 DEF TypeOK
    <3> QED BY <1>0, <3>1, <3>2 DEF TypeOK
  <2>2. ASSUME ~ \E d \in Directions : PeerWrites(d) PROVE <1>2!:
    <3>1. UNCHANGED sent /\ eof' \in [Directions -> BOOLEAN]
      BY <1>0, <2>2 DEF Environment, PeerCloses, PeerReads, ClientGone, ServerExits, Signal,
                        Vanish, TypeOK
    <3> QED BY <1>0, <3>1 DEF TypeOK
  <2> QED BY <2>1, <2>2
<1>3. writer' \in [Peers -> {"open", "closing", "lost"}] /\ pending' \in [Peers -> Nat]
  <2>1. CASE \E p \in Peers : PeerReads(p)
    BY <1>0, <2>1 DEF PeerReads, TypeOK
  <2>2. CASE ClientGone \/ ServerExits
    <3>1. PICK p : writer' = [writer EXCEPT ![p] = "lost"] /\ pending' = [pending EXCEPT ![p] = 0]
      BY <2>2 DEF ClientGone, ServerExits, Vanish
    <3> QED BY <1>0, <3>1 DEF TypeOK
  <2>3. CASE Signal \/ \E d \in Directions : PeerWrites(d) \/ PeerCloses(d)
    BY <1>0, <2>3 DEF PeerWrites, PeerCloses, Signal, TypeOK
  <2> QED BY <2>1, <2>2, <2>3 DEF Environment
<1>4. /\ stop' \in BOOLEAN /\ child' \in {"none", "alive", "exited"}
      /\ UNCHANGED <<main, killed, timedOut, session>>
  BY <1>0 DEF Environment, PeerWrites, PeerCloses, PeerReads, ClientGone, ServerExits, Signal,
              TypeOK
<1>5. \A d \in Directions : pos[d] \in Nat /\ sent[d] \in Nat /\ pos[d] <= sent[d]
  BY <1>0 DEF TypeOK
<1>6. \A d \in Directions : sent'[d] \in Nat /\ pos[d] <= sent'[d]
  BY <1>2, <1>5
<1>7. TypeOK'
  BY <1>0, <1>1, <1>2, <1>3, <1>4, <1>6 DEF TypeOK
<1> QED BY <1>1, <1>7 DEF TypeInv

\* Steps of run_proxy that leave the pumps alone, but for starting them.
Waiting ==
    \/ Start \/ StartFails \/ ClientEnded \/ HalfClosed \/ Drained \/ Reap \/ ChildWaited
    \/ Escalate \/ Teardown \/ UNCHANGED vars

LEMMA WaitingTypes == TypeInv /\ Waiting => TypeInv'
<1> SUFFICES ASSUME TypeInv, Waiting PROVE TypeInv'
  OBVIOUS
<1>0. TypeOK
  BY DEF TypeInv
<1>1. UNCHANGED <<peers, pos, result, verdict, lock, pipes, stop, timedOut, trail>>
  BY DEF Waiting, Start, StartFails, ClientEnded, HalfClosed, Drained, Reap, ChildWaited,
         Escalate, Teardown
<1>2. pc' \in [Directions -> {"none", "read", "inspect", "write", "drain", "done"}]
      /\ \A d \in Directions : pc'[d] = "read" \/ pc'[d] = pc[d]
  BY <1>0 DEF Waiting, Start, StartFails, ClientEnded, HalfClosed, Drained, Reap, ChildWaited,
              Escalate, Teardown, TypeOK
<1>3. /\ main' \in {"starting", "running", "halfclose", "draining", "reap", "wait",
                    "termwait", "killwait", "teardown"} \cup Over
      /\ killed' \in BOOLEAN /\ child' \in {"none", "alive", "exited"}
      /\ session' \in {"open", "ended"}
  BY <1>0 DEF Waiting, Start, StartFails, ClientEnded, HalfClosed, Drained, Reap, ChildWaited,
              Escalate, Teardown, TypeOK, Over
<1>4. TypeOK'
  BY <1>0, <1>1, <1>2, <1>3 DEF TypeOK
<1> QED BY <1>1, <1>2, <1>4 DEF TypeInv

\* Steps that end pumps at the await where they stand.
Cut(D, how) ==
    /\ D \subseteq Directions /\ how \in {"returned", "failed", "cancelled"}
    /\ EndPumps(D, how)
    /\ UNCHANGED <<pos, verdict, peers, pending, stop, child, killed, session, trail>>

LEMMA CutTypes ==
    ASSUME TypeInv, NEW D, NEW how, Cut(D, how), timedOut' \in BOOLEAN,
           main' \in {main, "reap"}
    PROVE  TypeInv'
<1>0. TypeOK
  BY DEF TypeInv
<1>1. EndPumps(D, how) /\ D \in SUBSET Directions /\ how \in {"returned", "failed", "cancelled"}
      /\ UNCHANGED <<pos, verdict, peers, pending, stop, child, killed, session, trail>>
  BY DEF Cut
<1>2. /\ pc' \in [Directions -> {"none", "read", "inspect", "write", "drain", "done"}]
      /\ result' \in [Directions -> {"none", "returned", "failed", "cancelled"}]
      /\ lock' \in {"free"} \cup Directions
      /\ writer' \in [Peers -> {"open", "closing", "lost"}]
      /\ \A d \in Directions : pc'[d] = "done" \/ pc'[d] = pc[d]
  BY <1>1, EndPumpsEffect
<1>3. TypeOK'
  BY <1>0, <1>1, <1>2 DEF TypeOK
<1> QED BY <1>1, <1>2, <1>3 DEF TypeInv

\* What readline() gives to the pump.
LEMMA ReadEffect ==
    ASSUME TypeInv, NEW d \in Directions, Read(d)
    PROVE  /\ pos' = [pos EXCEPT ![d] = @ + 1] /\ pos[d] < sent[d]
           /\ verdict' = [verdict EXCEPT ![d] = Append(@, {})]
           /\ pc' \in [Directions -> {"none", "read", "inspect", "write", "drain", "done"}]
           /\ result' \in [Directions -> {"none", "returned", "failed", "cancelled"}]
           /\ lock' \in {"free"} \cup Directions
           /\ writer' \in [Peers -> {"open", "closing", "lost"}]
           /\ pc[d] = "read" /\ pc'[d] \in {"inspect", "write", "done"}
           /\ pc'[d] = "done" <=> IsLong(script[d][pos[d] + 1])
           /\ result'[d] = IF pc'[d] = "done" THEN "failed" ELSE result[d]
           /\ \A e \in Directions \ {d} : pc'[e] = pc[e] /\ result'[e] = result[e]
           /\ lock' = IF pc'[d] = "done" /\ lock = d THEN "free" ELSE lock
           /\ \A p \in Peers : writer'[p] # writer[p] =>
                writer[p] = "open" /\ writer'[p] = "closing" /\ pc'[d] = "done" /\ p = Dst(d)
           /\ UNCHANGED <<peers, pending, life, trail>>
<1>0. TypeOK
  BY DEF TypeInv
<1> DEFINE line == script[d][pos[d] + 1]
<1>1. /\ pos' = [pos EXCEPT ![d] = @ + 1] /\ pos[d] < sent[d]
      /\ verdict' = [verdict EXCEPT ![d] = Append(@, {})]
      /\ pc[d] = "read"
      /\ UNCHANGED <<peers, pending, life, trail>>
  BY DEF Read
<1>2. CASE IsLong(line)
  <2>1. EndPumps({d}, "failed") /\ {d} \in SUBSET Directions
    BY <1>2 DEF Read
  <2> HIDE DEF line
  <2>2. /\ pc' \in [Directions -> {"none", "read", "inspect", "write", "drain", "done"}]
        /\ result' \in [Directions -> {"none", "returned", "failed", "cancelled"}]
        /\ lock' \in {"free"} \cup Directions
        /\ writer' \in [Peers -> {"open", "closing", "lost"}]
        /\ pc'[d] = "done" /\ result'[d] = "failed"
        /\ \A e \in Directions \ {d} : pc'[e] = pc[e] /\ result'[e] = result[e]
        /\ lock' = IF lock = d THEN "free" ELSE lock
        /\ \A p \in Peers : writer'[p] # writer[p] =>
              writer[p] = "open" /\ writer'[p] = "closing" /\ p = Dst(d)
    BY <1>1, <2>1, EndPumpsEffect
  <2> QED BY <1>1, <1>2, <2>2 DEF line
<1>3. CASE ~IsLong(line)
  <2>1. /\ pc' = [pc EXCEPT ![d] = IF line.members # <<>> THEN "inspect" ELSE "write"]
        /\ UNCHANGED <<result, lock, writer>>
    BY <1>3 DEF Read
  <2> HIDE DEF line
  <2>2. pc' \in [Directions -> {"none", "read", "inspect", "write", "drain", "done"}]
        /\ pc'[d] \in {"inspect", "write"} /\ \A e \in Directions \ {d} : pc'[e] = pc[e]
    BY <1>0, <2>1 DEF TypeOK
  <2> QED BY <1>0, <1>1, <1>3, <2>1, <2>2 DEF TypeOK, line
<1> QED BY <1>2, <1>3

LEMMA ReadTypes == ASSUME TypeInv, NEW d \in Directions, Read(d) PROVE TypeInv'
<1>0. TypeOK /\ verdict \in [Directions -> Seq(SUBSET Nat)]
  BY DEF TypeInv
<1>1. /\ pos' = [pos EXCEPT ![d] = @ + 1] /\ pos[d] < sent[d]
      /\ verdict' = [verdict EXCEPT ![d] = Append(@, {})]
      /\ \A e \in Directions \ {d} : pc'[e] = pc[e]
      /\ UNCHANGED <<peers, pending, life, trail>>
  BY ReadEffect
<1>2. verdict' \in [Directions -> Seq(SUBSET Nat)] /\ pos' \in [Directions -> Nat]
  BY <1>0, <1>1 DEF TypeOK
<1>3. ASSUME NEW e \in Directions
      PROVE  /\ pos'[e] <= sent[e] /\ Len(verdict'[e]) = pos'[e]
             /\ \A n \in 1..pos'[e] : verdict'[e][n] \subseteq Blockable(e, script[e][n])
  <2>0. /\ pos[e] \in Nat /\ sent[e] \in Nat /\ pos[e] <= sent[e]
        /\ verdict[e] \in Seq(SUBSET Nat) /\ Len(verdict[e]) = pos[e]
        /\ \A n \in 1..pos[e] : verdict[e][n] \subseteq Blockable(e, script[e][n])
    BY <1>0 DEF TypeOK
  <2>1. CASE e # d
    BY <1>0, <1>1, <2>0, <2>1 DEF TypeOK
  <2>2. CASE e = d
    <3>1. pos'[e] = pos[e] + 1 /\ verdict'[e] = Append(verdict[e], {})
      BY <1>0, <1>1, <2>2 DEF TypeOK
    <3>2. /\ Len(verdict'[e]) = pos[e] + 1 /\ verdict'[e][pos[e] + 1] = {}
          /\ \A n \in 1..pos[e] : verdict'[e][n] = verdict[e][n]
      BY <2>0, <3>1
    <3>3. \A n \in 1..(pos[e] + 1) : n \in 1..pos[e] \/ n = pos[e] + 1
      BY <2>0
    <3>4. ASSUME NEW n \in 1..(pos[e] + 1)
          PROVE  verdict'[e][n] \subseteq Blockable(e, script[e][n])
      BY <2>0, <3>2, <3>3
    <3> QED BY <1>1, <2>0, <2>2, <3>1, <3>2, <3>4
  <2> QED BY <2>1, <2>2
<1>4. TypeOK'
  BY ZenonT(60), <1>0, <1>1, <1>2, <1>3, ReadEffect DEF TypeOK
<1>5. ASSUME NEW e \in Directions, pc'[e] \in {"inspect", "write", "drain"} PROVE pos'[e] > 0
  <2>1. CASE e = d
    BY <1>0, <1>1, <2>1 DEF TypeOK
  <2>2. CASE e # d
    <3>1. pc'[e] = pc[e] /\ pos'[e] = pos[e]
      BY <1>0, <1>1, <2>2 DEF TypeOK
    <3> QED BY <1>5, <3>1 DEF TypeInv
  <2> QED BY <2>1, <2>2
<1> QED BY <1>1, <1>2, <1>4, <1>5 DEF TypeInv

LEMMA InspectEffect ==
    ASSUME TypeInv, NEW d \in Directions, Inspect(d)
    PROVE  /\ pc[d] = "inspect" /\ pc' = [pc EXCEPT ![d] = "write"]
           /\ verdict' \in [Directions -> Seq(SUBSET Nat)]
           /\ \A e \in Directions : Len(verdict'[e]) = Len(verdict[e])
           /\ \A e \in Directions : \A n \in 1..pos[e] :
                e # d \/ n # pos[d] => verdict'[e][n] = verdict[e][n]
           /\ verdict'[d][pos[d]] \subseteq Blockable(d, Current(d))
           /\ UNCHANGED <<pos, result, lock, peers, pipes, life, trail>>
<1>0. TypeOK /\ verdict \in [Directions -> Seq(SUBSET Nat)]
  BY DEF TypeInv
<1>1. PICK B \in SUBSET Blockable(d, Current(d)) :
          verdict' = [verdict EXCEPT ![d] = [@ EXCEPT ![pos[d]] = B]]
  BY DEF Inspect
<1>2. /\ pc[d] = "inspect" /\ pc' = [pc EXCEPT ![d] = "write"]
      /\ UNCHANGED <<pos, result, lock, peers, pipes, life, trail>>
  BY DEF Inspect
<1>3. pos[d] \in 1..Len(verdict[d]) /\ pos[d] \in 1..sent[d]
  BY <1>0, <1>2 DEF TypeInv, TypeOK
<1>4. B \subseteq Nat
  BY <1>3, LineTypes DEF Blockable, Current
<1>5. /\ verdict'[d] = [verdict[d] EXCEPT ![pos[d]] = B]
      /\ \A e \in Directions \ {d} : verdict'[e] = verdict[e]
  BY <1>0, <1>1
<1>6. /\ verdict'[d] \in Seq(SUBSET Nat) /\ Len(verdict'[d]) = Len(verdict[d])
      /\ verdict'[d][pos[d]] = B
      /\ \A n \in 1..pos[d] : n # pos[d] => verdict'[d][n] = verdict[d][n]
  BY <1>0, <1>3, <1>4, <1>5
<1>7. verdict' \in [Directions -> Seq(SUBSET Nat)]
  BY <1>0, <1>1, <1>5, <1>6
<1> QED BY <1>2, <1>5, <1>6, <1>7

LEMMA InspectTypes == ASSUME TypeInv, NEW d \in Directions, Inspect(d) PROVE TypeInv'
<1>0. TypeOK
  BY DEF TypeInv
<1>1. /\ pc' = [pc EXCEPT ![d] = "write"] /\ pc[d] = "inspect"
      /\ verdict' \in [Directions -> Seq(SUBSET Nat)]
      /\ \A e \in Directions : Len(verdict'[e]) = Len(verdict[e])
      /\ \A e \in Directions : \A n \in 1..pos[e] :
            e # d \/ n # pos[d] => verdict'[e][n] = verdict[e][n]
      /\ verdict'[d][pos[d]] \subseteq Blockable(d, Current(d))
      /\ UNCHANGED <<pos, result, lock, peers, pipes, life, trail>>
  BY InspectEffect
<1>2. ASSUME NEW e \in Directions, NEW n \in 1..pos[e]
      PROVE  verdict'[e][n] \subseteq Blockable(e, script[e][n])
  BY <1>0, <1>1, <1>2 DEF TypeOK, Current
<1>3. TypeOK'
  BY ZenonT(60), <1>0, <1>1, <1>2 DEF TypeOK
<1>4. \A e \in Directions : pc'[e] \in {"inspect", "write", "drain"} => pos'[e] > 0
  BY <1>0, <1>1 DEF TypeInv, TypeOK
<1> QED BY <1>1, <1>3, <1>4 DEF TypeInv

\* A pump at a line that it is to write or has begun to write.
LEMMA WriteTypes ==
    ASSUME TypeInv, NEW d \in Directions, WriteNow(d) \/ StartWrite(d) \/ FinishWrite(d)
    PROVE  TypeInv'
<1>0. TypeOK
  BY DEF TypeInv
<1>1. pc[d] \in {"write", "drain"} /\ pos[d] > 0
      /\ UNCHANGED <<pos, verdict, peers, life>>
  BY DEF WriteNow, StartWrite, FinishWrite, MayWrite, TypeInv
<1>2. out' \in Seq(Entries) /\ pending' \in [Peers -> Nat]
  <2>1. CASE UNCHANGED <<out, pending>>
    BY <1>0, <2>1 DEF TypeInv, TypeOK
  <2>2. CASE Submit(d)
    <3>1. Written(d).to \in Peers
      BY <1>1, WrittenType
    <3> QED BY <1>0, <1>1, <2>2, <3>1, LineAdded DEF Submit, TypeOK
  <2> QED BY <2>1, <2>2 DEF WriteNow, StartWrite, FinishWrite
<1>3. CASE StartWrite(d)
  <2>1. /\ pc' = [pc EXCEPT ![d] = "drain"] /\ lock' \in {lock, d}
        /\ UNCHANGED <<result, writer, audit>>
    BY <1>3 DEF StartWrite
  <2>2. TypeOK'
    BY <1>0, <1>1, <1>2, <2>1 DEF TypeOK
  <2>3. \A e \in Directions : pc'[e] \in {"inspect", "write", "drain"} => pos'[e] > 0
    BY <1>0, <1>1, <2>1 DEF TypeInv, TypeOK
  <2> QED BY <1>1, <1>2, <2>1, <2>2, <2>3 DEF TypeInv
<1>4. CASE WriteNow(d) \/ FinishWrite(d)
  <2>1. Advance(d)
    BY <1>4 DEF WriteNow, FinishWrite
  <2>2. /\ pc' \in [Directions -> {"none", "read", "inspect", "write", "drain", "done"}]
        /\ result' \in [Directions -> {"none", "returned", "failed", "cancelled"}]
        /\ lock' \in {"free"} \cup Directions
        /\ writer' \in [Peers -> {"open", "closing", "lost"}]
        /\ \A e \in Directions : pc'[e] \in {"inspect", "write", "drain"} => pc'[e] = pc[e]
    BY <1>1, <2>1, AdvanceEffect
  <2>3. audit' \in Seq(AuditRows)
    BY <1>1, <2>1, AdvanceEffect, RowsAdded
  <2>4. TypeOK'
    BY <1>0, <1>1, <1>2, <2>2 DEF TypeOK
  <2> QED BY <1>1, <1>2, <2>2, <2>3, <2>4 DEF TypeInv
<1> QED BY <1>3, <1>4

LEMMA CutSteps ==
    /\ \A d \in Directions : ReadEOF(d) \/ WriteFails(d) =>
          Cut({d}, "returned") /\ UNCHANGED <<main, timedOut>>
    /\ Stopped => Cut(Directions, "cancelled") /\ main' = "reap" /\ UNCHANGED timedOut
    /\ ServerEnded => Cut({"c2s"}, "cancelled") /\ main' = "reap" /\ UNCHANGED timedOut
    /\ DrainTimeout => Cut({"s2c"}, "cancelled") /\ main' = "reap" /\ timedOut' = TRUE
BY DEF Cut, ReadEOF, WriteFails, Stopped, ServerEnded, DrainTimeout, Directions

LEMMA Steps ==
    ASSUME [Next]_vars
    PROVE  \/ Environment \/ Waiting
           \/ Stopped \/ ServerEnded \/ DrainTimeout
           \/ \E d \in Directions :
                \/ ReadEOF(d) \/ WriteFails(d)
                \/ Read(d) \/ Inspect(d)
                \/ WriteNow(d) \/ StartWrite(d) \/ FinishWrite(d)
BY DEF Next, Main, Pump, Environment, Waiting, Finished

LEMMA TypesNext == TypeInv /\ [Next]_vars => TypeInv'
<1> SUFFICES ASSUME TypeInv, [Next]_vars PROVE TypeInv'
  OBVIOUS
<1>1. CASE \E d \in Directions : ReadEOF(d) \/ WriteFails(d)
  BY <1>1, CutSteps, CutTypes DEF TypeInv, TypeOK
<1>2. CASE Stopped \/ ServerEnded \/ DrainTimeout
  BY <1>2, CutSteps, CutTypes DEF TypeInv, TypeOK
<1>3. CASE \E d \in Directions : Read(d) \/ Inspect(d)
  BY <1>3, ReadTypes, InspectTypes
<1>4. CASE \E d \in Directions : WriteNow(d) \/ StartWrite(d) \/ FinishWrite(d)
  BY <1>4, WriteTypes
<1> QED BY <1>1, <1>2, <1>3, <1>4, EnvironmentTypes, WaitingTypes, Steps

\* Every variable has its type: for any scripts and any buffers.
THEOREM TypeCorrect == Spec => []TypeInv
  BY TypesInit, TypesNext, PTL DEF Spec

-------------------------------------------------------------------------------
(* The phases of run_proxy, and the lock.                                  *)

LEMMA LifeInit == Init => LifeInv
  BY DEF Init, LifeInv

LEMMA LifeNext == TypeInv /\ LifeInv /\ [Next]_vars => LifeInv'
<1> SUFFICES ASSUME TypeInv, LifeInv, [Next]_vars PROVE LifeInv'
  OBVIOUS
<1>0. TypeOK
  BY DEF TypeInv
<1>1. CASE Environment
  <2>1. /\ UNCHANGED <<main, pumps, session>>
        /\ \/ child' = child
           \/ child = "alive" /\ child' = "exited"
    <3>1. CASE ServerExits
      BY <3>1 DEF ServerExits
    <3>2. CASE ClientGone \/ Signal \/ \E p \in Peers : PeerReads(p)
      BY <3>2 DEF ClientGone, Signal, PeerReads
    <3>3. CASE \E d \in Directions : PeerWrites(d) \/ PeerCloses(d)
      BY <3>3 DEF PeerWrites, PeerCloses
    <3> QED BY <1>1, <3>1, <3>2, <3>3 DEF Environment
  <2> QED BY <2>1 DEF LifeInv
<1>2. CASE Waiting
  <2>1. CASE Start
    BY <1>0, <2>1 DEF Start, LifeInv, TypeOK
  <2>2. CASE StartFails
    BY <1>0, <2>2 DEF StartFails, LifeInv, TypeOK
  <2>3. CASE ClientEnded \/ HalfClosed \/ Drained
    BY <1>0, <2>3 DEF ClientEnded, HalfClosed, Drained, Done, LifeInv, TypeOK, Directions
  <2>4. CASE Reap \/ ChildWaited \/ Escalate
    BY <1>0, <2>4 DEF Reap, ChildWaited, Escalate, LifeInv, TypeOK
  <2>5. CASE Teardown \/ UNCHANGED vars
    BY <1>0, <2>5 DEF Teardown, LifeInv
  <2> QED BY <1>2, <2>1, <2>2, <2>3, <2>4, <2>5 DEF Waiting
<1>3. ASSUME NEW D \in SUBSET Directions, NEW how, Cut(D, how),
             \/ main' = "reap" /\ main \in {"running", "draining"}
                             /\ \A d \in Directions \ D : pc[d] = "done"
             \/ main' = main /\ \A d \in D : pc[d] \notin {"none", "done"}
      PROVE  LifeInv'
  <2>1. /\ UNCHANGED <<child, session, pos>> /\ how # "none"
        /\ \A d \in Directions :
              /\ pc'[d] = IF d \in D THEN "done" ELSE pc[d]
              /\ result'[d] = IF d \in D /\ pc[d] # "done" THEN how ELSE result[d]
    BY <1>3, EndPumpsEffect DEF Cut
  <2>2. "c2s" \in Directions
    BY DEF Directions
  <2> QED BY <1>3, <2>1, <2>2 DEF LifeInv
<1>4. CASE Stopped \/ ServerEnded \/ DrainTimeout
  <2>1. CASE Stopped
    BY <1>3, <2>1, CutSteps DEF Stopped
  <2>2. CASE ServerEnded
    BY <1>3, <2>2, CutSteps DEF ServerEnded, Directions, Done
  <2>3. CASE DrainTimeout
    BY <1>3, <2>3, CutSteps DEF DrainTimeout, Directions, LifeInv
  <2> QED BY <1>4, <2>1, <2>2, <2>3
<1>5. CASE \E d \in Directions : ReadEOF(d) \/ WriteFails(d)
  <2>1. PICK d \in Directions : ReadEOF(d) \/ WriteFails(d)
    BY <1>5
  <2>2. pc[d] \notin {"none", "done"} /\ Cut({d}, "returned") /\ main' = main
    BY <2>1, CutSteps DEF ReadEOF, WriteFails
  <2> QED BY <1>3, <2>2
<1>6. CASE \E d \in Directions :
                \/ Read(d) \/ Inspect(d) \/ WriteNow(d) \/ StartWrite(d) \/ FinishWrite(d)
  <2>1. PICK d \in Directions :
                \/ Read(d) \/ Inspect(d) \/ WriteNow(d) \/ StartWrite(d) \/ FinishWrite(d)
    BY <1>6
  <2>2. UNCHANGED life /\ pc[d] \notin {"none", "done"}
    BY <2>1 DEF Read, Inspect, WriteNow, StartWrite, FinishWrite, MayWrite
  <2>3. /\ pc'[d] # "none" /\ \A e \in Directions \ {d} :
              pc'[e] = pc[e] /\ result'[e] = result[e] /\ pos'[e] = pos[e]
        /\ pc'[d] = "done" <=> result'[d] # "none"
    <3>0. result[d] = "none"
      BY <2>2 DEF LifeInv
    <3>1. CASE Read(d)
      <4>1. /\ pc'[d] \in {"inspect", "write", "done"} /\ pos' = [pos EXCEPT ![d] = @ + 1]
            /\ \A e \in Directions \ {d} : pc'[e] = pc[e] /\ result'[e] = result[e]
            /\ result'[d] = IF pc'[d] = "done" THEN "failed" ELSE result[d]
        BY <3>1, ReadEffect
      <4> QED BY <1>0, <3>0, <4>1 DEF TypeOK
    <3>2. CASE Inspect(d) \/ StartWrite(d)
      BY <1>0, <2>2, <3>0, <3>2 DEF Inspect, StartWrite, TypeOK
    <3>3. CASE WriteNow(d) \/ FinishWrite(d)
      <4>1. Advance(d) /\ pc[d] \in {"write", "drain"} /\ UNCHANGED pos
        BY <3>3 DEF WriteNow, FinishWrite, MayWrite
      <4> QED BY <3>0, <4>1, AdvanceEffect
    <3> QED BY <2>1, <3>1, <3>2, <3>3
  <2>4. "c2s" \in Directions
    BY DEF Directions
  <2> QED BY <2>2, <2>3, <2>4 DEF LifeInv
<1> QED BY <1>1, <1>2, <1>4, <1>5, <1>6, Steps

\* A pump that the step leaves at its line still holds the lock, or still does not.
LEMMA LockStays ==
    ASSUME TypeInv, LockHeld, NEW d \in Directions,
           UNCHANGED script, pos'[d] = pos[d], pc'[d] = pc[d], lock' = d <=> lock = d,
           pc[d] = "drain" => verdict'[d][pos[d]] = verdict[d][pos[d]]
    PROVE  lock' = d <=> (pc'[d] = "drain" /\ Written(d)'.to = "client")
<1>1. pc[d] = "drain" => Written(d)'.to = Written(d).to
  BY DEF Written, Blocked
<1> QED BY <1>1 DEF LockHeld

LEMMA CutLock ==
    ASSUME TypeInv, LockHeld, NEW D, NEW how, Cut(D, how)
    PROVE  LockHeld'
<1> SUFFICES ASSUME NEW d \in Directions
             PROVE  lock' = d <=> (pc'[d] = "drain" /\ Written(d)'.to = "client")
  BY DEF LockHeld
<1>1. /\ pc'[d] = IF d \in D THEN "done" ELSE pc[d]
      /\ lock' = IF lock \in D /\ pc[lock] # "done" THEN "free" ELSE lock
      /\ UNCHANGED <<script, pos, verdict>>
  BY EndPumpsEffect DEF Cut
<1>2. d # "free" /\ (lock = d => pc[d] = "drain")
  BY DEF LockHeld, Directions
<1>3. CASE d \in D
  BY <1>1, <1>2, <1>3
<1>4. CASE d \notin D
  <2>1. lock' = d <=> lock = d
    BY <1>1, <1>2, <1>4
  <2> QED BY <1>1, <1>4, <2>1, LockStays
<1> QED BY <1>3, <1>4

LEMMA LockNext == TypeInv /\ LifeInv /\ LockHeld /\ [Next]_vars => LockHeld'
<1> SUFFICES ASSUME TypeInv, LifeInv, LockHeld, [Next]_vars PROVE LockHeld'
  OBVIOUS
<1>0. TypeOK
  BY DEF TypeInv
<1>1. CASE Environment
  <2>1. UNCHANGED <<script, pumps>>
    BY <1>1 DEF Environment, PeerWrites, PeerCloses, PeerReads, ClientGone, ServerExits, Signal
  <2> QED BY <2>1, LockStays DEF LockHeld
<1>2. CASE Waiting
  <2>1. /\ UNCHANGED <<script, pos, verdict, lock>>
        /\ \A d \in Directions : pc'[d] = pc[d] \/ (pc[d] = "none" /\ pc'[d] = "read")
    <3>1. CASE Start
      BY <1>0, <3>1 DEF Start, LifeInv
    <3>2. CASE ~Start
      BY <1>2, <3>2 DEF Waiting, StartFails, ClientEnded, HalfClosed, Drained, Reap,
                        ChildWaited, Escalate, Teardown
    <3> QED BY <3>1, <3>2
  <2>2. ASSUME NEW d \in Directions
        PROVE  lock' = d <=> (pc'[d] = "drain" /\ Written(d)'.to = "client")
    BY <2>1, LockStays DEF LockHeld
  <2> QED BY <2>2 DEF LockHeld
<1>3. CASE Stopped \/ ServerEnded \/ DrainTimeout
  BY <1>3, CutSteps, CutLock
<1>4. CASE \E d \in Directions : ReadEOF(d) \/ WriteFails(d)
  BY <1>4, CutSteps, CutLock
<1>5. ASSUME NEW d \in Directions, Read(d) \/ Inspect(d) \/ WriteNow(d) \/ StartWrite(d) \/ FinishWrite(d)
      PROVE  LockHeld'
  <2>1. /\ UNCHANGED script /\ \A e \in Directions \ {d} : pos'[e] = pos[e] /\ pc'[e] = pc[e]
        /\ \A e \in Directions \ {d} : verdict'[e] = verdict[e]
    <3>1. CASE Read(d)
      BY <1>0, <3>1, ReadEffect DEF TypeInv, TypeOK
    <3>2. CASE Inspect(d)
      BY <1>0, <3>2 DEF Inspect, TypeInv, TypeOK
    <3>3. CASE StartWrite(d)
      BY <1>0, <3>3 DEF StartWrite, TypeOK
    <3>4. CASE WriteNow(d) \/ FinishWrite(d)
      <4>1. Advance(d) /\ pc[d] \in {"write", "drain"} /\ UNCHANGED <<pos, verdict, script>>
        BY <3>4 DEF WriteNow, FinishWrite, MayWrite
      <4> QED BY <4>1, AdvanceEffect
    <3> QED BY <1>5, <3>1, <3>2, <3>3, <3>4
  <2>2. d # "free" /\ (lock = d => pc[d] = "drain" /\ Written(d).to = "client")
    BY DEF LockHeld, Directions
  <2>3. /\ lock' = d <=> (pc'[d] = "drain" /\ Written(d)'.to = "client")
        /\ \A e \in Directions \ {d} : lock' = e <=> lock = e
    <3>1. CASE Read(d)
      <4>1. pc[d] = "read" /\ pc'[d] # "drain" /\ lock' \in {lock, "free"}
            /\ (lock' = lock \/ lock = d)
        BY <3>1, ReadEffect
      <4> QED BY <2>2, <4>1 DEF Directions
    <3>2. CASE Inspect(d)
      BY <1>0, <2>2, <3>2 DEF Inspect, TypeOK
    <3>3. CASE StartWrite(d)
      <4>1. /\ pc[d] = "write" /\ pc'[d] = "drain" /\ (Written(d).to = "client" => lock = "free")
            /\ lock' = IF Written(d).to = "client" THEN d ELSE lock
            /\ UNCHANGED <<script, pos, verdict>>
        BY <1>0, <3>3 DEF StartWrite, MayWrite, TypeOK
      <4>2. Written(d)'.to = Written(d).to
        BY <4>1 DEF Written, Blocked
      <4>3. \A e \in Directions \ {d} : lock' = e <=> lock = e
        BY <2>2, <4>1 DEF Directions
      <4> QED BY <2>2, <4>1, <4>2, <4>3
    <3>4. CASE WriteNow(d) \/ FinishWrite(d)
      <4>1. Advance(d) /\ pc[d] \in {"write", "drain"}
        BY <3>4 DEF WriteNow, FinishWrite, MayWrite
      <4>2. pc'[d] \in {"read", "done"} /\ lock' = IF lock = d THEN "free" ELSE lock
        BY <4>1, AdvanceEffect
      <4> QED BY <2>2, <4>2 DEF Directions
    <3> QED BY <1>5, <3>1, <3>2, <3>3, <3>4
  <2>4. ASSUME NEW e \in Directions \ {d}
        PROVE  lock' = e <=> (pc'[e] = "drain" /\ Written(e)'.to = "client")
    BY <2>1, <2>3, LockStays
  <2> QED BY <2>3, <2>4 DEF LockHeld
<1> QED BY <1>1, <1>2, <1>3, <1>4, <1>5, Steps

\* Which pump holds the write lock of the client, and where run_proxy stands, is
\* as the invariants say, however cancellations and failures fall.
THEOREM LifeInvariance == Spec => [](TypeInv /\ LifeInv /\ LockHeld)
<1>1. Init => TypeInv /\ LifeInv /\ LockHeld
  <2>1. Init => LockHeld
    BY DEF Init, LockHeld, Directions
  <2> QED BY <2>1, TypesInit, LifeInit
<1>2. TypeInv /\ LifeInv /\ LockHeld /\ [Next]_vars => (TypeInv /\ LifeInv /\ LockHeld)'
  BY TypesNext, LifeNext, LockNext
<1> QED BY <1>1, <1>2, PTL DEF Spec

\* run_proxy() does not return before the server process and both pumps have
\* ended, the lock is free and the session is closed; if an exception ends it,
\* its start failed before there were pumps, or both have ended, and the lock is
\* free too.
THEOREM EndsLeaveNoPump == Spec => []ExitIsClean
<1>1. TypeInv /\ LifeInv /\ LockHeld => ExitIsClean
  <2> SUFFICES ASSUME TypeInv, LifeInv, LockHeld, main \in Over PROVE ExitIsClean
    BY DEF ExitIsClean, Over
  <2>1. main = "exited" =>
            child = "exited" /\ session = "ended" /\ \A d \in Directions : pc[d] = "done"
    BY DEF LifeInv
  <2>2. \A d \in Directions : pc[d] \in {"none", "done"}
    BY DEF LifeInv, Over
  <2>3. lock = "free"
    BY <2>2 DEF LockHeld, TypeInv, TypeOK
  <2> QED BY <2>1, <2>2, <2>3 DEF ExitIsClean
<1> QED BY <1>1, LifeInvariance, PTL

-------------------------------------------------------------------------------
(* Lines and rows.                                                         *)

LEMMA EntryTypes ==
    ASSUME TypeInv
    PROVE  /\ \A k \in DOMAIN out : out[k].d \in Directions /\ out[k].n \in Nat
           /\ \A k \in DOMAIN audit : audit[k].d \in Directions /\ audit[k].n \in Nat
           /\ \A d \in Directions : pos[d] \in Nat
           /\ DOMAIN out = 1..Len(out) /\ DOMAIN audit = 1..Len(audit)
           /\ Len(out) \in Nat /\ Len(audit) \in Nat
<1>1. \A k \in DOMAIN out : out[k] \in Entries
  BY DEF TypeInv
<1>2. \A k \in DOMAIN audit : audit[k] \in AuditRows
  BY DEF TypeInv
<1>3. \A k \in DOMAIN out : out[k].d \in Directions /\ out[k].n \in Nat
  BY <1>1 DEF Entries
<1>4. \A k \in DOMAIN audit : audit[k].d \in Directions /\ audit[k].n \in Nat
  BY <1>2 DEF AuditRows
<1>5. \A d \in Directions : pos[d] \in Nat
  BY DEF TypeInv, TypeOK
<1>6. /\ DOMAIN out = 1..Len(out) /\ DOMAIN audit = 1..Len(audit)
      /\ Len(out) \in Nat /\ Len(audit) \in Nat
  BY DEF TypeInv
<1> QED BY <1>3, <1>4, <1>5, <1>6

\* A step that writes, records, reads and judges no line.
LEMMA TrafficStays ==
    ASSUME TypeInv, TrafficInv, UNCHANGED <<script, pos, verdict, out, audit>>,
           \A d \in Directions : pc'[d] \in {pc[d], "done"} \/ pos[d] = 0,
           \A p \in Peers : writer'[p] = "open" => writer[p] = "open"
    PROVE  TrafficInv'
<1>1. /\ \A k \in DOMAIN out : OutOK(k)
      /\ \A k \in DOMAIN audit : AuditOK(k)
      /\ \A d \in Directions : \A n \in 1..pos[d] : LineOK(d, n)
      /\ InOrder
  BY DEF TrafficInv
<1>2. ASSUME NEW k \in DOMAIN out' PROVE OutOK(k)'
  <2>1. OutOK(k) /\ out[k].d \in Directions /\ out'[k] = out[k]
    BY <1>1, EntryTypes
  <2>2. pos[out[k].d] # 0
    BY <2>1, EntryTypes DEF OutOK
  <2> QED BY <2>1, <2>2 DEF OutOK, Addressee
<1>3. ASSUME NEW k \in DOMAIN audit' PROVE AuditOK(k)'
  BY <1>1, EntryTypes DEF AuditOK
<1>4. ASSUME NEW d \in Directions, NEW n \in 1..pos'[d] PROVE LineOK(d, n)'
  <2>1. LineOK(d, n) /\ pos[d] \in Nat /\ pos[d] # 0 /\ pc'[d] \in {pc[d], "done"}
    BY <1>1, EntryTypes
  <2>2. WrittenOf(d, n)' = WrittenOf(d, n) /\ AuditOf(d, n)' = AuditOf(d, n)
        /\ Addressee(d, n)' = Addressee(d, n) /\ HasMembers(d, n)' = HasMembers(d, n)
    BY DEF WrittenOf, AuditOf, Addressee, HasMembers
  <2>3. n \in Passed(d)' => n \in Passed(d)
    BY <2>1 DEF Passed
  <2>4. Addressee(d, n) \in Peers
    BY DEF Addressee, Dst, Peers
  <2> QED BY <2>1, <2>2, <2>3, <2>4 DEF LineOK
<1>5. InOrder'
  BY <1>1 DEF InOrder
<1> QED BY <1>2, <1>3, <1>4, <1>5 DEF TrafficInv

LEMMA ReadTraffic ==
    ASSUME TypeInv, TrafficInv, NEW d \in Directions, Read(d)
    PROVE  TrafficInv'
<1>1. /\ \A k \in DOMAIN out : OutOK(k)
      /\ \A k \in DOMAIN audit : AuditOK(k)
      /\ \A e \in Directions : \A n \in 1..pos[e] : LineOK(e, n)
      /\ InOrder
  BY DEF TrafficInv
<1>2. /\ pc[d] = "read" /\ pc'[d] \in {"inspect", "write", "done"}
      /\ pos' = [pos EXCEPT ![d] = @ + 1] /\ verdict' = [verdict EXCEPT ![d] = Append(@, {})]
      /\ \A e \in Directions \ {d} : pc'[e] = pc[e]
      /\ \A p \in Peers : writer'[p] = "open" => writer[p] = "open"
      /\ UNCHANGED <<script, out, audit>>
  BY ReadEffect
<1>3. \A e \in Directions :
        /\ pos'[e] = IF e = d THEN pos[e] + 1 ELSE pos[e]
        /\ \A n \in 1..pos[e] : verdict'[e][n] = verdict[e][n]
  BY <1>2 DEF TypeInv, TypeOK
<1>4. \A e \in Directions : \A n \in 1..pos[e] : n # pos'[e] \/ e # d
  BY <1>3, EntryTypes
<1>5. ASSUME NEW k \in DOMAIN out' PROVE OutOK(k)'
  <2>1. OutOK(k) /\ out[k].d \in Directions /\ out'[k] = out[k]
    BY <1>1, <1>2, EntryTypes
  <2>2. /\ out[k].n \in 1..pos'[out[k].d] /\ (out[k].d = d => out[k].n # pos'[out[k].d])
        /\ verdict'[out[k].d][out[k].n] = verdict[out[k].d][out[k].n]
    BY <1>3, <2>1, EntryTypes DEF OutOK
  <2>3. out[k].d # d => pos'[out[k].d] = pos[out[k].d] /\ pc'[out[k].d] = pc[out[k].d]
    BY <1>2, <1>3, <2>1
  <2> QED BY <1>2, <2>1, <2>2, <2>3 DEF OutOK, Addressee
<1>6. ASSUME NEW k \in DOMAIN audit' PROVE AuditOK(k)'
  BY <1>1, <1>2, <1>3, <1>6, EntryTypes DEF AuditOK
<1>7. ASSUME NEW e \in Directions, NEW n \in 1..pos'[e] PROVE LineOK(e, n)'
  <2>1. /\ WrittenOf(e, n)' = WrittenOf(e, n) /\ AuditOf(e, n)' = AuditOf(e, n)
        /\ HasMembers(e, n)' = HasMembers(e, n)
    BY <1>2 DEF WrittenOf, AuditOf, HasMembers
  <2>2. CASE n \in 1..pos[e]
    <3>1. LineOK(e, n)
      BY <1>1, <2>2
    <3>2. Addressee(e, n)' = Addressee(e, n) /\ Addressee(e, n) \in Peers
      BY <1>3, <2>2 DEF Addressee, Dst, Peers
    <3>3. n \in Passed(e)' => n \in Passed(e)
      <4>1. CASE e = d
        BY <1>2, <2>2, <4>1 DEF Passed
      <4>2. CASE e # d
        BY <1>2, <1>3, <4>2 DEF Passed
      <4> QED BY <4>1, <4>2
    <3>4. (n = pos'[e] /\ pc'[e] = "drain") => (n = pos[e] /\ pc[e] = "drain")
      BY <1>2, <1>3
    <3> QED BY <1>2, <2>1, <3>1, <3>2, <3>3, <3>4 DEF LineOK
  <2>3. CASE n \notin 1..pos[e]
    <3>1. e = d /\ n = pos[d] + 1
      BY <1>3, <2>3, EntryTypes
    <3>2. n \notin Passed(e)'
      BY <1>2, <1>3, <3>1, EntryTypes DEF Passed
    <3>3. AuditOf(e, n) = {}
      BY <1>1, <2>3 DEF AuditOf, AuditOK
    <3> QED BY <1>2, <2>1, <3>1, <3>2, <3>3 DEF LineOK
  <2> QED BY <2>2, <2>3
<1>8. InOrder'
  BY <1>1, <1>2 DEF InOrder
<1> QED BY <1>5, <1>6, <1>7, <1>8 DEF TrafficInv

\* What a pump judges is a line that it has neither written nor recorded.
LEMMA InspectTraffic ==
    ASSUME TypeInv, TrafficInv, NEW d \in Directions, Inspect(d)
    PROVE  TrafficInv'
<1>1. /\ \A k \in DOMAIN out : OutOK(k)
      /\ \A k \in DOMAIN audit : AuditOK(k)
      /\ \A e \in Directions : \A n \in 1..pos[e] : LineOK(e, n)
      /\ InOrder
  BY DEF TrafficInv
<1>2. /\ pc[d] = "inspect" /\ pc'[d] = "write"
      /\ \A e \in Directions \ {d} : pc'[e] = pc[e]
      /\ \A e \in Directions : \A n \in 1..pos[e] :
            e # d \/ n # pos[d] => verdict'[e][n] = verdict[e][n]
      /\ UNCHANGED <<pos, script, out, audit, writer>>
  BY SMTT(30), InspectEffect DEF TypeInv, TypeOK
<1>3. ASSUME NEW k \in DOMAIN out' PROVE OutOK(k)'
  <2>1. OutOK(k) /\ out[k].d \in Directions /\ out'[k] = out[k]
    BY <1>1, <1>2, EntryTypes
  <2>2. out[k].d # d \/ out[k].n # pos[d]
    BY <1>2, <2>1 DEF OutOK
  <2>3. verdict'[out[k].d][out[k].n] = verdict[out[k].d][out[k].n]
    BY <1>2, <2>1, <2>2 DEF OutOK
  <2> QED BY <1>2, <2>1, <2>2, <2>3 DEF OutOK, Addressee
<1>4. ASSUME NEW k \in DOMAIN audit' PROVE AuditOK(k)'
  BY <1>1, <1>2, <1>4, EntryTypes DEF AuditOK
<1>5. ASSUME NEW e \in Directions, NEW n \in 1..pos'[e] PROVE LineOK(e, n)'
  <2>1. /\ WrittenOf(e, n)' = WrittenOf(e, n) /\ AuditOf(e, n)' = AuditOf(e, n)
        /\ HasMembers(e, n)' = HasMembers(e, n) /\ LineOK(e, n)
    BY <1>1, <1>2 DEF WrittenOf, AuditOf, HasMembers
  <2>2. CASE e = d /\ n = pos[d]
    <3>1. n \notin Passed(e)'
      BY <1>2, <2>2, EntryTypes DEF Passed
    <3>2. AuditOf(e, n) = {}
      BY <1>1, <1>2, <2>2 DEF AuditOf, AuditOK
    <3> QED BY <1>2, <2>1, <2>2, <3>1, <3>2 DEF LineOK
  <2>3. CASE e # d \/ n # pos[d]
    <3>1. Addressee(e, n)' = Addressee(e, n)
      BY <1>2, <2>3 DEF Addressee
    <3>2. n \in Passed(e)' => n \in Passed(e)
      BY <1>2 DEF Passed
    <3> QED BY <1>2, <2>1, <2>3, <3>1, <3>2 DEF LineOK
  <2> QED BY <2>2, <2>3
<1>6. InOrder'
  BY <1>1, <1>2 DEF InOrder
<1> QED BY <1>3, <1>4, <1>5, <1>6 DEF TrafficInv

\* The reply to a blocked line answers all its requests.
LEMMA AnsweredAll ==
    ASSUME TypeInv, pos["c2s"] > 0, Blocked("c2s") # {}
    PROVE  OfKind(script["c2s"][pos["c2s"]], "request") \subseteq Written("c2s").ids
<1> DEFINE line == script["c2s"][pos["c2s"]]
           B == Blocked("c2s")
<1>1. "c2s" \in Directions
  BY DEF Directions
<1>2. pos["c2s"] \in 1..sent["c2s"] /\ B \subseteq OfKind(line, "request")
  <2>1. /\ pos["c2s"] \in Nat /\ sent["c2s"] \in Nat /\ pos["c2s"] <= sent["c2s"]
        /\ \A n \in 1..pos["c2s"] : verdict["c2s"][n] \subseteq Blockable("c2s", script["c2s"][n])
    BY <1>1 DEF TypeInv, TypeOK
  <2>2. pos["c2s"] \in 1..pos["c2s"]
    BY <2>1
  <2>3. B \subseteq Blockable("c2s", line)
    BY <2>1, <2>2 DEF Blocked
  <2>4. Blockable("c2s", line) = OfKind(line, "request")
    BY DEF Blockable
  <2> QED BY <2>1, <2>3, <2>4
<1>3. line.members \in Seq(Kinds)
  BY <1>1, <1>2, LineTypes
<1>4. Written("c2s").ids = Answered(line, B)
  BY <1>1, WrittenType DEF Current
<1> HIDE DEF line, B
<1>5. CASE IsBatch(line)
  BY <1>4, <1>5 DEF Answered, line
<1>6. CASE ~IsBatch(line)
  <2>1. \A i, j \in OfKind(line, "request") : i = j
    BY <1>3, <1>6 DEF OfKind, Indices, IsBatch
  <2>2. B # {}
    BY DEF B
  <2> QED BY <1>2, <1>4, <1>6, <2>1, <2>2 DEF Answered, line
<1> QED BY <1>5, <1>6

\* A pump writes the line it is at, or records it and goes on, or both.
LEMMA TrafficGrows ==
    ASSUME TypeInv, TrafficInv, NEW d \in Directions, pc[d] \in {"write", "drain"},
           UNCHANGED <<script, pos, verdict>>,
           \A e \in Directions \ {d} : pc'[e] = pc[e],
           \A p \in Peers : writer'[p] = "open" => writer[p] = "open",
           out' = out \/ (out' = Append(out, Written(d)) /\ pc[d] = "write"),
           \/ audit' = audit /\ pc'[d] = "drain"
           \/ audit' = audit \o Rows(d) /\ pc'[d] \in {"read", "done"},
           WrittenOf(d, pos[d])' # {} \/ writer[Addressee(d, pos[d])] # "open"
    PROVE  TrafficInv'
<1>1. /\ \A k \in DOMAIN out : OutOK(k)
      /\ \A k \in DOMAIN audit : AuditOK(k)
      /\ \A e \in Directions : \A n \in 1..pos[e] : LineOK(e, n)
      /\ InOrder
  BY DEF TrafficInv
<1>2. pos[d] > 0 /\ pos[d] \in Nat
  BY DEF TypeInv, TypeOK
<1>3. /\ DOMAIN out \subseteq DOMAIN out'
      /\ \A k \in DOMAIN out : out'[k] = out[k]
      /\ \A k \in DOMAIN out' \ DOMAIN out :
           pc[d] = "write" /\ out'[k] = Written(d) /\ \A j \in DOMAIN out : j < k
      /\ \A j, k \in DOMAIN out' \ DOMAIN out : j = k
  BY <1>2, LineAdded
<1>4. /\ DOMAIN audit \subseteq DOMAIN audit'
      /\ \A k \in DOMAIN audit : audit'[k] = audit[k]
      /\ \A k \in DOMAIN audit' \ DOMAIN audit :
           /\ pc'[d] \in {"read", "done"}
           /\ audit'[k].d = d /\ audit'[k].n = pos[d] /\ \A j \in DOMAIN audit : j < k
      /\ \A j, k \in DOMAIN audit' \ DOMAIN audit : j < k =>
           audit'[j].form = "synthetic" /\ audit'[k].form = "members"
      /\ pc'[d] # "drain" /\ Current(d).members # <<>> => DOMAIN audit' \ DOMAIN audit # {}
  BY <1>2, RowsAdded
<1>5. /\ Written(d).d = d /\ Written(d).n = pos[d]
      /\ Written(d).to = Addressee(d, pos[d])
  BY <1>2, WrittenType DEF Addressee, Blocked
<1>6. \A e, n : Addressee(e, n)' = Addressee(e, n) /\ HasMembers(e, n)' = HasMembers(e, n)
  BY DEF Addressee, HasMembers
<1>7. ASSUME NEW k \in DOMAIN out' PROVE OutOK(k)'
  <2>1. CASE k \in DOMAIN out
    <3>1. OutOK(k) /\ out'[k] = out[k] /\ out[k].d \in Directions
      BY <1>1, <1>3, <2>1, EntryTypes
    <3>2. pc[out[k].d] \in {"read", "drain", "done"} => pc'[out[k].d] \in {"read", "drain", "done"}
      BY <3>1
    <3> QED BY <1>6, <3>1, <3>2 DEF OutOK
  <2>2. CASE k \notin DOMAIN out
    <3>1. out'[k] = Written(d)
      BY <1>3, <2>2
    <3>2. verdict[d][pos[d]] # {} /\ d = "c2s" =>
             OfKind(script["c2s"][pos[d]], "request") \subseteq out'[k].ids
      BY <1>2, <3>1, AnsweredAll DEF Blocked
    <3> QED BY <1>2, <1>5, <1>6, <3>1, <3>2 DEF OutOK
  <2> QED BY <2>1, <2>2
<1>8. ASSUME NEW k \in DOMAIN audit' PROVE AuditOK(k)'
  <2>1. CASE k \in DOMAIN audit
    <3>1. AuditOK(k) /\ audit'[k] = audit[k] /\ audit[k].d \in Directions
      BY <1>1, <1>4, <2>1, EntryTypes
    <3> QED BY <3>1 DEF AuditOK
  <2>2. CASE k \notin DOMAIN audit
    BY <1>2, <1>4, <2>2 DEF AuditOK
  <2> QED BY <2>1, <2>2
<1>9. \A e, n : WrittenOf(e, n) \subseteq WrittenOf(e, n)' /\ AuditOf(e, n) \subseteq AuditOf(e, n)'
  BY <1>3, <1>4 DEF WrittenOf, AuditOf
<1>10. ASSUME NEW e \in Directions, NEW n \in 1..pos'[e] PROVE LineOK(e, n)'
  <2>1. LineOK(e, n)
    BY <1>1
  <2>2. CASE e = d /\ n = pos[d]
    <3>1. n \in Passed(e)' /\ HasMembers(e, n)' => AuditOf(e, n)' # {}
      <4> SUFFICES ASSUME n \in Passed(e)', HasMembers(e, n)' PROVE AuditOf(e, n)' # {}
        OBVIOUS
      <4>1. pc'[d] # "drain"
        BY <1>2, <2>2 DEF Passed
      <4>2. Current(d).members # <<>>
        BY <1>6, <2>2 DEF HasMembers, Current
      <4>3. PICK k \in DOMAIN audit' \ DOMAIN audit : TRUE
        BY <1>4, <4>1, <4>2
      <4> QED BY <1>4, <2>2, <4>3 DEF AuditOf
    <3>2. Addressee(e, n) \in Peers
      BY DEF Addressee, Dst, Peers
    <3> QED BY <1>6, <2>2, <3>1, <3>2 DEF LineOK
  <2>3. CASE e # d \/ n # pos[d]
    <3>1. n \in Passed(e)' => n \in Passed(e)
      <4>1. CASE e = d
        BY <1>2, <2>3, <4>1 DEF Passed
      <4>2. CASE e # d
        BY <4>2 DEF Passed
      <4> QED BY <4>1, <4>2
    <3>2. AuditOf(e, n)' \subseteq AuditOf(e, n)
      BY <1>4, <2>3 DEF AuditOf
    <3>3. (n = pos'[e] /\ pc'[e] = "drain") => (n = pos[e] /\ pc[e] = "drain")
      BY <2>3
    <3>4. Addressee(e, n) \in Peers
      BY DEF Addressee, Dst, Peers
    <3> QED BY <1>6, <1>9, <2>1, <3>1, <3>2, <3>3, <3>4 DEF LineOK
  <2> QED BY <2>2, <2>3
<1>11. InOrder'
  <2>1. ASSUME NEW e \in Directions, NEW j \in DOMAIN out', NEW k \in DOMAIN out',
               j < k, out'[j].d = e, out'[k].d = e
        PROVE  out'[j].n < out'[k].n
    <3>1. CASE k \in DOMAIN out
      <4>1. j \in DOMAIN out
        BY <1>3, <2>1, <3>1, EntryTypes
      <4> QED BY <1>1, <1>3, <2>1, <3>1, <4>1 DEF InOrder
    <3>2. CASE k \notin DOMAIN out
      <4>1. j \in DOMAIN out /\ out'[k] = Written(d) /\ pc[d] = "write"
        BY <1>3, <2>1, <3>2, EntryTypes
      <4>2. out[j].d = d /\ out'[j] = out[j] /\ OutOK(j)
        BY <1>1, <1>3, <1>5, <2>1, <4>1
      <4>3. out[j].n \in 1..pos[d] /\ out[j].n # pos[d]
        BY <4>1, <4>2 DEF OutOK
      <4> QED BY <1>2, <1>5, <4>1, <4>2, <4>3
    <3> QED BY <3>1, <3>2
  <2>2. ASSUME NEW e \in Directions, NEW j \in DOMAIN audit', NEW k \in DOMAIN audit',
               j < k, audit'[j].d = e, audit'[k].d = e
        PROVE  \/ audit'[j].n < audit'[k].n
               \/ audit'[j].n = audit'[k].n /\ audit'[j].form = "synthetic"
                                            /\ audit'[k].form = "members"
    <3>1. CASE k \in DOMAIN audit
      <4>1. j \in DOMAIN audit
        BY <1>4, <2>2, <3>1, EntryTypes
      <4> QED BY <1>1, <1>4, <2>2, <3>1, <4>1 DEF InOrder
    <3>2. CASE k \notin DOMAIN audit /\ j \in DOMAIN audit
      <4>1. audit[j].d = d /\ audit'[j] = audit[j] /\ AuditOK(j)
        BY <1>1, <1>4, <2>2, <3>2
      <4>2. audit[j].n \in 1..pos[d] /\ audit[j].n # pos[d]
        BY <4>1 DEF AuditOK
      <4> QED BY <1>2, <1>4, <3>2, <4>1, <4>2
    <3>3. CASE k \notin DOMAIN audit /\ j \notin DOMAIN audit
      BY <1>4, <2>2, <3>3
    <3> QED BY <3>1, <3>2, <3>3
  <2> QED BY <2>1, <2>2 DEF InOrder
<1> QED BY <1>7, <1>8, <1>10, <1>11 DEF TrafficInv

LEMMA WriteTraffic ==
    ASSUME TypeInv, TrafficInv, NEW d \in Directions,
           WriteNow(d) \/ StartWrite(d) \/ FinishWrite(d)
    PROVE  TrafficInv'
<1>0. TypeOK
  BY DEF TypeInv
<1>1. /\ pc[d] \in {"write", "drain"} /\ UNCHANGED <<script, pos, verdict>>
      /\ Written(d).to = Addressee(d, pos[d]) /\ pos[d] > 0
  BY WrittenType DEF WriteNow, StartWrite, FinishWrite, MayWrite, Addressee, Blocked, TypeInv
<1>2. ASSUME Submit(d) PROVE WrittenOf(d, pos[d])' # {}
  <2>1. out' = Append(out, Written(d))
    BY <1>2 DEF Submit
  <2>2. PICK k \in DOMAIN out' : out'[k] = Written(d)
    BY <1>1, <2>1, LineAdded
  <2>3. Written(d).d = d /\ Written(d).n = pos[d]
    BY <1>1, WrittenType
  <2> QED BY <1>1, <2>2, <2>3 DEF WrittenOf
<1>3. CASE StartWrite(d)
  <2>1. /\ pc[d] = "write" /\ pc' = [pc EXCEPT ![d] = "drain"]
        /\ UNCHANGED <<writer, audit>>
        /\ Submit(d) \/ (writer[Addressee(d, pos[d])] # "open" /\ out' = out)
    BY <1>1, <1>3 DEF StartWrite, MayWrite
  <2>2. /\ out' = out \/ (out' = Append(out, Written(d)) /\ pc[d] = "write")
        /\ WrittenOf(d, pos[d])' # {} \/ writer[Addressee(d, pos[d])] # "open"
    BY <1>2, <2>1 DEF Submit
  <2>3. pc'[d] = "drain" /\ \A e \in Directions \ {d} : pc'[e] = pc[e]
    BY <1>0, <2>1 DEF TypeOK
  <2> QED BY <1>1, <2>1, <2>2, <2>3, TrafficGrows
<1>4. CASE WriteNow(d) \/ FinishWrite(d)
  <2>1. Advance(d)
    BY <1>4 DEF WriteNow, FinishWrite
  <2>2. /\ audit' = audit \o Rows(d) /\ pc'[d] \in {"read", "done"}
        /\ \A e \in Directions \ {d} : pc'[e] = pc[e]
        /\ \A p \in Peers : writer'[p] = "open" => writer[p] = "open"
    BY <1>1, <2>1, AdvanceEffect
  <2>3. CASE WriteNow(d)
    <3>1. pc[d] = "write" /\ Submit(d)
      BY <2>3 DEF WriteNow, MayWrite
    <3>2. out' = Append(out, Written(d)) /\ WrittenOf(d, pos[d])' # {}
      BY <1>2, <3>1 DEF Submit
    <3> QED BY <1>1, <2>2, <3>1, <3>2, TrafficGrows
  <2>4. CASE FinishWrite(d)
    <3>1. pc[d] = "drain" /\ out' = out
      BY <2>4 DEF FinishWrite
    <3>2. pos[d] \in 1..pos[d]
      BY <1>1, EntryTypes
    <3>3. LineOK(d, pos[d])
      BY <3>2 DEF TrafficInv
    <3>4. WrittenOf(d, pos[d])' = WrittenOf(d, pos[d])
      BY <1>1, <3>1 DEF WrittenOf
    <3>5. WrittenOf(d, pos[d])' # {} \/ writer[Addressee(d, pos[d])] # "open"
      BY <3>1, <3>3, <3>4 DEF LineOK
    <3> QED BY <1>1, <2>2, <3>1, <3>5, TrafficGrows
  <2> QED BY <1>4, <2>3, <2>4
<1> QED BY <1>3, <1>4

LEMMA TrafficInit == Init => TrafficInv
<1> SUFFICES ASSUME Init PROVE TrafficInv
  OBVIOUS
<1>1. DOMAIN out = {} /\ DOMAIN audit = {} /\ \A d \in Directions : 1..pos[d] = {}
  BY DEF Init
<1> QED BY <1>1 DEF TrafficInv, InOrder

LEMMA TrafficNext == TypeInv /\ LifeInv /\ TrafficInv /\ [Next]_vars => TrafficInv'
<1> SUFFICES ASSUME TypeInv, LifeInv, TrafficInv, [Next]_vars PROVE TrafficInv'
  OBVIOUS
<1>0. TypeOK
  BY DEF TypeInv
<1>1. CASE Environment
  <2>1. UNCHANGED <<script, pumps, trail>>
    BY <1>1 DEF Environment, PeerWrites, PeerCloses, PeerReads, ClientGone, ServerExits, Signal
  <2>2. \A p \in Peers : writer'[p] = "open" => writer[p] = "open"
    <3>1. writer' = writer \/ \E q : writer' = [writer EXCEPT ![q] = "lost"]
      BY <1>1 DEF Environment, PeerWrites, PeerCloses, PeerReads, ClientGone, ServerExits,
                  Signal, Vanish
    <3> QED BY <1>0, <3>1 DEF TypeOK
  <2> QED BY <2>1, <2>2, TrafficStays
<1>2. CASE Waiting
  <2>1. UNCHANGED <<peers, pos, verdict, writer, trail>>
    BY <1>2 DEF Waiting, Start, StartFails, ClientEnded, HalfClosed, Drained, Reap,
                ChildWaited, Escalate, Teardown
  <2>2. \A d \in Directions : pc'[d] = pc[d] \/ pos[d] = 0
    <3>1. CASE Start
      BY <1>0, <3>1 DEF Start, LifeInv
    <3>2. CASE ~Start
      BY <1>2, <3>2 DEF Waiting, StartFails, ClientEnded, HalfClosed, Drained, Reap,
                        ChildWaited, Escalate, Teardown
    <3> QED BY <3>1, <3>2
  <2> QED BY <2>1, <2>2, TrafficStays
<1>3. ASSUME NEW D, NEW how, Cut(D, how) PROVE TrafficInv'
  <2>1. /\ UNCHANGED <<script, pos, verdict, out, audit>>
        /\ \A d \in Directions : pc'[d] \in {pc[d], "done"}
        /\ \A p \in Peers : writer'[p] = "open" => writer[p] = "open"
    BY <1>3, EndPumpsEffect DEF Cut
  <2> QED BY <2>1, TrafficStays
<1>4. CASE Stopped \/ ServerEnded \/ DrainTimeout
  BY <1>3, <1>4, CutSteps
<1>5. CASE \E d \in Directions : ReadEOF(d) \/ WriteFails(d)
  BY <1>3, <1>5, CutSteps
<1>6. CASE \E d \in Directions :
                \/ Read(d) \/ Inspect(d) \/ WriteNow(d) \/ StartWrite(d) \/ FinishWrite(d)
  BY <1>6, ReadTraffic, InspectTraffic, WriteTraffic
<1> QED BY <1>1, <1>2, <1>4, <1>5, <1>6, Steps

-------------------------------------------------------------------------------
(* The server's last replies.                                              *)

\* A step that does not end the server's pump.
LEMMA DrainStays ==
    ASSUME TypeInv, DrainInv,
           eof["s2c"] => eof'["s2c"] /\ sent'["s2c"] = sent["s2c"],
           result["s2c"] = "returned" => pos'["s2c"] = pos["s2c"],
           pc["s2c"] = "done" => pc'["s2c"] = "done",
           result'["s2c"] = result["s2c"], stop => stop', timedOut => timedOut',
           writer'["client"] \in {writer["client"], "lost"},
           writer["client"] = "lost" => writer'["client"] = "lost",
           DOMAIN out \subseteq DOMAIN out', \A k \in DOMAIN out : out'[k] = out[k]
    PROVE  DrainInv'
<1>1. \A n : WrittenOf("s2c", n) \subseteq WrittenOf("s2c", n)'
  BY DEF WrittenOf
<1>2. writer'["client"] = "closing" => pc'["s2c"] = "done"
  BY DEF DrainInv
<1>3. result'["s2c"] = "cancelled" => stop' \/ timedOut'
  BY DEF DrainInv
<1>4. ASSUME result'["s2c"] = "returned", ~stop', writer'["client"] # "lost"
      PROVE  /\ eof'["s2c"] /\ pos'["s2c"] = sent'["s2c"]
             /\ \A n \in 1..pos'["s2c"] : WrittenOf("s2c", n)' # {}
  <2>1. result["s2c"] = "returned" /\ ~stop /\ writer["client"] # "lost"
    BY <1>4
  <2> QED BY <1>1, <2>1 DEF DrainInv
<1> QED BY <1>2, <1>3, <1>4 DEF DrainInv

LEMMA DrainCut ==
    ASSUME TypeInv, LifeInv, TrafficInv, DrainInv, NEW D, NEW how, Cut(D, how),
           \/ "s2c" \notin D /\ UNCHANGED timedOut
           \/ how = "cancelled" /\ stop /\ UNCHANGED timedOut
           \/ how = "cancelled" /\ timedOut' = TRUE /\ pc["s2c"] # "done"
           \/ ReadEOF("s2c") /\ UNCHANGED timedOut
           \/ WriteFails("s2c") /\ UNCHANGED timedOut
    PROVE  DrainInv'
<1>0. TypeOK /\ "s2c" \in Directions /\ "client" \in Peers
  BY DEF TypeInv, Directions, Peers
<1>1. /\ pc'["s2c"] = IF "s2c" \in D THEN "done" ELSE pc["s2c"]
      /\ result'["s2c"] = IF "s2c" \in D /\ pc["s2c"] # "done" THEN how ELSE result["s2c"]
      /\ writer'["client"] # writer["client"] =>
            /\ writer["client"] = "open" /\ writer'["client"] = "closing"
            /\ \E d \in D : Dst(d) = "client"
      /\ UNCHANGED <<pos, verdict, sent, eof, stop, out>>
  BY <1>0, EndPumpsEffect DEF Cut
<1>2. writer'["client"] # writer["client"] => "s2c" \in D
  BY <1>1 DEF Dst, Directions, Cut
<1>3. CASE "s2c" \notin D
  BY <1>1, <1>2, <1>3, DrainStays
<1>4. CASE how = "cancelled" /\ (stop \/ (timedOut' = TRUE /\ pc["s2c"] # "done"))
  <2>1. writer'["client"] = "closing" => pc'["s2c"] = "done"
    BY <1>1, <1>2 DEF DrainInv
  <2>2. result'["s2c"] = "cancelled" => stop' \/ timedOut'
    BY <1>1, <1>3, <1>4 DEF DrainInv
  <2>3. ~(result'["s2c"] = "returned" /\ ~stop') \/ "s2c" \notin D
    BY <1>1, <1>4
  <2> QED BY <1>3, <2>1, <2>2, <2>3 DEF DrainInv
<1>5. CASE "s2c" \in D /\ (ReadEOF("s2c") \/ WriteFails("s2c"))
  <2>1. pc["s2c"] \in {"read", "drain"} /\ result'["s2c"] = how /\ pc'["s2c"] = "done"
        /\ writer["client"] # "closing"
    BY <1>1, <1>5 DEF ReadEOF, WriteFails, DrainInv
  <2>2. result'["s2c"] = "returned"
    <3>1. EndPumps({"s2c"}, "returned")
      BY <1>5 DEF ReadEOF, WriteFails
    <3> QED BY <1>0, <2>1, <3>1, EndPumpsEffect
  <2>3. CASE WriteFails("s2c")
    <3>1. Written("s2c").to = "client"
      BY DEF Written, Dst
    <3>2. writer["client"] = "lost"
      BY <1>0, <2>1, <2>3, <3>1 DEF WriteFails, TypeOK
    <3>3. writer'["client"] = "lost"
      BY <1>1, <3>2
    <3> QED BY <2>1, <2>2, <3>3 DEF DrainInv
  <2>4. CASE ReadEOF("s2c") /\ writer["client"] = "open"
    <3>1. eof["s2c"] /\ pos["s2c"] = sent["s2c"] /\ pc["s2c"] = "read"
      BY <2>4 DEF ReadEOF
    <3>2. ASSUME NEW n \in 1..pos["s2c"] PROVE WrittenOf("s2c", n) # {}
      <4>1. LineOK("s2c", n) /\ n \in Passed("s2c")
        BY <1>0, <3>1 DEF TrafficInv, Passed
      <4>2. Addressee("s2c", n) = "client"
        BY DEF Addressee, Dst
      <4> QED BY <2>4, <4>1, <4>2 DEF LineOK
    <3>3. \A n : WrittenOf("s2c", n)' = WrittenOf("s2c", n)
      BY <1>1 DEF WrittenOf
    <3> QED BY <1>1, <2>1, <2>2, <3>1, <3>2, <3>3 DEF DrainInv
  <2>5. CASE writer["client"] = "lost"
    BY <1>1, <2>1, <2>2, <2>5 DEF DrainInv
  <2> QED BY <1>0, <1>5, <2>1, <2>3, <2>4, <2>5 DEF TypeOK
<1> QED BY <1>3, <1>4, <1>5

LEMMA DrainNext == TypeInv /\ LifeInv /\ TrafficInv /\ DrainInv /\ [Next]_vars => DrainInv'
<1> SUFFICES ASSUME TypeInv, LifeInv, TrafficInv, DrainInv, [Next]_vars PROVE DrainInv'
  OBVIOUS
<1>0. TypeOK /\ "s2c" \in Directions /\ "client" \in Peers
  BY DEF TypeInv, Directions, Peers
<1>1. CASE Environment
  <2>1. UNCHANGED <<pumps, out, timedOut>> /\ (stop => stop')
    BY <1>1 DEF Environment, PeerWrites, PeerCloses, PeerReads, ClientGone, ServerExits, Signal
  <2>2. writer' = writer \/ \E q : writer' = [writer EXCEPT ![q] = "lost"]
    BY <1>1 DEF Environment, PeerWrites, PeerCloses, PeerReads, ClientGone, ServerExits,
                Signal, Vanish
  <2>3. writer'["client"] \in {writer["client"], "lost"}
    BY <1>0, <2>2 DEF TypeOK
  <2>4. eof["s2c"] => eof'["s2c"] /\ sent'["s2c"] = sent["s2c"]
    <3>1. CASE \E d \in Directions : PeerWrites(d) \/ PeerCloses(d)
      BY <1>0, <3>1 DEF PeerWrites, PeerCloses, TypeOK
    <3>2. CASE ~ \E d \in Directions : PeerWrites(d) \/ PeerCloses(d)
      BY <1>0, <1>1, <3>2 DEF Environment, PeerReads, ClientGone, ServerExits, Signal, Vanish,
                              TypeOK
    <3> QED BY <3>1, <3>2
  <2> QED BY <2>1, <2>3, <2>4, DrainStays
<1>2. CASE Waiting
  <2>1. UNCHANGED <<peers, pos, result, pipes, stop, timedOut, trail>>
    BY <1>2 DEF Waiting, Start, StartFails, ClientEnded, HalfClosed, Drained, Reap,
                ChildWaited, Escalate, Teardown
  <2>2. pc'["s2c"] = pc["s2c"] \/ pc["s2c"] # "done"
    BY <1>0, <1>2 DEF Waiting, Start, StartFails, ClientEnded, HalfClosed, Drained, Reap,
                      ChildWaited, Escalate, Teardown, LifeInv
  <2> QED BY <2>1, <2>2, DrainStays
<1>3. CASE Stopped
  BY <1>3, CutSteps, DrainCut DEF Stopped
<1>4. CASE ServerEnded
  BY <1>4, CutSteps, DrainCut
<1>5. CASE DrainTimeout
  BY <1>5, CutSteps, DrainCut DEF DrainTimeout, Done
<1>6. ASSUME NEW d \in Directions, ReadEOF(d) \/ WriteFails(d) PROVE DrainInv'
  <2>1. Cut({d}, "returned") /\ UNCHANGED timedOut
    BY <1>6, CutSteps
  <2>2. CASE d = "s2c"
    BY <1>6, <2>1, <2>2, DrainCut
  <2>3. CASE d # "s2c"
    BY <2>1, <2>3, DrainCut
  <2> QED BY <2>2, <2>3
<1>7. ASSUME NEW d \in Directions,
             Read(d) \/ Inspect(d) \/ WriteNow(d) \/ StartWrite(d) \/ FinishWrite(d)
      PROVE  DrainInv'
  <2>1. /\ UNCHANGED <<peers, stop, timedOut>>
        /\ pc[d] \in {"read", "inspect", "write", "drain"} /\ result[d] = "none"
    BY <1>7 DEF Read, Inspect, WriteNow, StartWrite, FinishWrite, MayWrite, LifeInv
  <2>2. DOMAIN out \subseteq DOMAIN out' /\ \A k \in DOMAIN out : out'[k] = out[k]
    <3>1. CASE UNCHANGED out
      BY <3>1
    <3>2. CASE Submit(d) /\ pc[d] = "write"
      BY <3>2, LineAdded DEF Submit, TypeInv
    <3> QED BY <1>7, <3>1, <3>2 DEF Read, Inspect, WriteNow, StartWrite, FinishWrite, MayWrite
  <2>3. /\ \A e \in Directions \ {d} :
              pc'[e] = pc[e] /\ result'[e] = result[e] /\ pos'[e] = pos[e]
        /\ pc'[d] # "done" => result'[d] = "none"
        /\ result'[d] \in {"none", "failed"} \/ stop
        /\ \A p \in Peers : writer'[p] # writer[p] =>
              writer[p] = "open" /\ writer'[p] = "closing" /\ p = Dst(d) /\ pc'[d] = "done"
    <3>1. CASE Read(d)
      BY <1>0, <2>1, <3>1, ReadEffect DEF TypeOK
    <3>2. CASE Inspect(d) \/ StartWrite(d)
      BY <1>0, <2>1, <3>2 DEF Inspect, StartWrite, TypeOK
    <3>3. CASE WriteNow(d) \/ FinishWrite(d)
      <4>1. Advance(d) /\ pc[d] \in {"write", "drain"} /\ UNCHANGED pos
        BY <3>3 DEF WriteNow, FinishWrite, MayWrite
      <4> QED BY <2>1, <4>1, AdvanceEffect
    <3> QED BY <1>7, <3>1, <3>2, <3>3
  <2>4. CASE d = "s2c"
    <3>1. result'["s2c"] # "cancelled" /\ (result'["s2c"] = "returned" => stop)
      <4>1. result'["s2c"] \in {"none", "failed", "returned"}
        <5>1. CASE Read(d)
          BY <2>1, <2>4, <5>1, ReadEffect
        <5>2. CASE Inspect(d) \/ StartWrite(d)
          BY <2>1, <2>4, <5>2 DEF Inspect, StartWrite
        <5>3. CASE WriteNow(d) \/ FinishWrite(d)
          <6>1. Advance(d) /\ pc[d] \in {"write", "drain"}
            BY <5>3 DEF WriteNow, FinishWrite, MayWrite
          <6> QED BY <2>1, <2>4, <6>1, AdvanceEffect
        <5> QED BY <1>7, <5>1, <5>2, <5>3
      <4> QED BY <2>3, <2>4, <4>1
    <3>2. writer'["client"] = "closing" => pc'["s2c"] = "done"
      BY <1>0, <2>1, <2>3, <2>4 DEF DrainInv
    <3> QED BY <2>1, <3>1, <3>2 DEF DrainInv
  <2>5. CASE d # "s2c"
    <3>1. Dst(d) # "client"
      BY <2>5 DEF Dst, Directions
    <3> QED BY <1>0, <2>1, <2>2, <2>3, <2>5, <3>1, DrainStays
  <2> QED BY <2>4, <2>5
<1> QED BY <1>1, <1>2, <1>3, <1>4, <1>5, <1>6, <1>7, Steps

-------------------------------------------------------------------------------
IInv == TypeInv /\ LifeInv /\ LockHeld /\ TrafficInv /\ DrainInv

\* The pumps, their lines and run_proxy are as the invariant says, for every
\* interleaving of the two pumps with the peers, signals and timers.
THEOREM Invariance == Spec => []IInv
<1>1. Init => IInv
  <2>1. Init => LockHeld /\ DrainInv
    BY DEF Init, LockHeld, DrainInv, Directions, Peers
  <2> QED BY <2>1, TypesInit, LifeInit, TrafficInit DEF IInv
<1>2. IInv /\ [Next]_vars => IInv'
  BY TypesNext, LifeNext, LockNext, TrafficNext, DrainNext DEF IInv
<1> QED BY <1>1, <1>2, PTL DEF Spec

\* Both pumps write and record the lines of their direction in the order in which
\* they read them, and each at most once (_pump_c2s, _pump_s2c).
THEOREM LinesStayInOrder == Spec => []InOrder
<1>1. IInv => InOrder
  BY DEF IInv, TrafficInv
<1> QED BY <1>1, Invariance, PTL

\* What is read of a blocked line of the client reaches the server in no part, and
\* its requests are answered once, by the one reply (_pump_c2s, _synthetic_reply).
THEOREM BlockedLinesAreAnswered == Spec => []BlockedAreAnswered
<1>1. IInv => BlockedAreAnswered
  <2> SUFFICES ASSUME IInv, NEW n \in 1..pos["c2s"], verdict["c2s"][n] # {}
               PROVE  /\ \A k \in WrittenOf("c2s", n) :
                          /\ out[k].to = "client"
                          /\ OfKind(script["c2s"][n], "request") \subseteq out[k].ids
                      /\ n \in Passed("c2s") /\ writer["client"] = "open" =>
                          Cardinality(WrittenOf("c2s", n)) = 1
    BY DEF BlockedAreAnswered
  <2>0. TypeInv /\ TrafficInv /\ "c2s" \in Directions
    BY DEF IInv, Directions
  <2>1. Addressee("c2s", n) = "client"
    BY DEF Addressee
  <2>2. ASSUME NEW k \in WrittenOf("c2s", n)
        PROVE  out[k].to = "client" /\ OfKind(script["c2s"][n], "request") \subseteq out[k].ids
    <3>1. k \in DOMAIN out /\ out[k].d = "c2s" /\ out[k].n = n
      BY DEF WrittenOf
    <3>2. OutOK(k)
      BY <2>0, <3>1 DEF TrafficInv
    <3> QED BY <2>1, <3>1, <3>2 DEF OutOK
  <2>3. ASSUME n \in Passed("c2s"), writer["client"] = "open"
        PROVE  Cardinality(WrittenOf("c2s", n)) = 1
    <3>1. LineOK("c2s", n)
      BY <2>0 DEF TrafficInv
    <3>2. WrittenOf("c2s", n) # {}
      BY <2>1, <2>3, <3>1 DEF LineOK
    <3>3. PICK k : k \in WrittenOf("c2s", n)
      BY <3>2
    <3>4. ASSUME NEW j \in WrittenOf("c2s", n) PROVE j = k
      <4>1. /\ j \in DOMAIN out /\ out[j].d = "c2s" /\ out[j].n = n
            /\ k \in DOMAIN out /\ out[k].d = "c2s" /\ out[k].n = n
        BY <3>3 DEF WrittenOf
      <4>2. j \in Int /\ k \in Int /\ n \in Int
        BY <2>0, <4>1, EntryTypes
      <4>3. ~(j < k) /\ ~(k < j)
        BY <2>0, <4>1, <4>2 DEF TrafficInv, InOrder
      <4> QED BY <4>2, <4>3
    <3>5. WrittenOf("c2s", n) = {k}
      BY <3>3, <3>4
    <3> QED BY <3>5, FS_Singleton
  <2> QED BY <2>2, <2>3
<1> QED BY <1>1, Invariance, PTL

\* The audit rows tell what was sent, but for the line that a pump ended at and for
\* lines to a closed writer: write_line() comes before record().
THEOREM RowsFollowTraffic == Spec => []AuditFollowsTraffic
<1>1. IInv => AuditFollowsTraffic
  <2> SUFFICES ASSUME IInv, NEW d \in Directions, NEW n \in 1..pos[d], HasMembers(d, n)
               PROVE  /\ WrittenOf(d, n) # {} /\ AuditOf(d, n) = {} =>
                          n = pos[d] /\ pc[d] \in {"drain", "done"}
                      /\ AuditOf(d, n) # {} =>
                          \/ WrittenOf(d, n) # {}
                          \/ writer[IF verdict[d][n] # {} THEN "client" ELSE Dst(d)] # "open"
    BY DEF AuditFollowsTraffic
  <2>0. TypeInv /\ TrafficInv
    BY DEF IInv
  <2>1. LineOK(d, n) /\ pos[d] \in Nat
    BY <2>0, EntryTypes DEF TrafficInv
  <2>2. ASSUME WrittenOf(d, n) # {}, AuditOf(d, n) = {}
        PROVE  n = pos[d] /\ pc[d] \in {"drain", "done"}
    <3>1. n \notin Passed(d)
      BY <2>1, <2>2 DEF LineOK
    <3>2. n = pos[d] /\ pc[d] # "read"
      BY <2>1, <3>1 DEF Passed
    <3>3. PICK k \in DOMAIN out : out[k].d = d /\ out[k].n = n
      BY <2>2 DEF WrittenOf
    <3>4. OutOK(k)
      BY <2>0 DEF TrafficInv
    <3> QED BY <3>2, <3>3, <3>4 DEF OutOK
  <2> QED BY <2>1, <2>2 DEF LineOK, Addressee
<1> QED BY <1>1, Invariance, PTL

\* After the client's end of input run_proxy() waits for the server's pump: it gets
\* all the server wrote.
THEOREM LastRepliesAreWritten == Spec => []RepliesWritten
<1>1. IInv => RepliesWritten
  <2> SUFFICES ASSUME IInv, main = "exited", ~stop, ~timedOut, result["s2c"] # "failed",
                      writer["client"] # "lost"
               PROVE  \A n \in 1..sent["s2c"] : WrittenOf("s2c", n) # {}
    BY DEF RepliesWritten
  <2>1. "s2c" \in Directions /\ TypeOK /\ LifeInv /\ DrainInv
    BY DEF IInv, TypeInv, Directions
  <2>2. result["s2c"] \in {"returned", "cancelled"}
    BY <2>1 DEF LifeInv, TypeOK
  <2>3. result["s2c"] = "returned"
    BY <2>1, <2>2 DEF DrainInv
  <2> QED BY <2>1, <2>3 DEF DrainInv
<1> QED BY <1>1, Invariance, PTL
===============================================================================
