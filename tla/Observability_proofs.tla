------------------------- MODULE Observability_proofs -------------------------
(***************************************************************************)
(* What run_proxy starts beside the pumps.  Health: for any number of      *)
(* monitors and any times, the answers of GET /health count what the proxy *)
(* committed, never miss a row that was counted before unless it is gone,  *)
(* and cost a scan of the table at most once in a time to live.            *)
(* Telemetry: for any number of proxies that share installation_id and     *)
(* telemetry.log, what was handed to the HTTP client is logged or still    *)
(* under way, and only identities are reported, the one that was there as  *)
(* long as nobody removes it.                                              *)
(*                                                                         *)
(* The argument on health compares four sets of rows: those of the last    *)
(* answer, of the cache, of the query of the handler that holds the lock,  *)
(* and those that are visible on the connection.  Each holds what the one  *)
(* before it holds, but for rows that are gone, and nobody else can        *)
(* publish one in between.  That it stays so rests on VisibleGrows: no     *)
(* transaction that begins, reads or ends hides what was visible.          *)
(***************************************************************************)
EXTENDS Health, Telemetry, TLAPS

(* Health.                                                                 *)

Places == {"none", "request", "lock", "count", "last", "closed"}

TypeOK ==
    /\ now \in Nat
    /\ lock \in Connections \cup {"free"}
    /\ cachedAt \in Nat \cup {None}
    /\ pc \in [Connections -> Places]
    /\ deadline \in [Connections -> Nat] /\ startedAt \in [Connections -> Nat]
    /\ counted = [c \in Connections |-> counted[c]]
    /\ Len(past) = now + 1 /\ past \in Seq(SUBSET own)

\* The transaction: rows and a view are those of one that has begun, and what it
\* sees of the file is there, or gone.
DbOK ==
    /\ within = "none" => ~pinned /\ tx = {}
    /\ pinned => view \ gone \subseteq table

\* What the proxy has committed is visible, and past remembers it for every time.
PastOK ==
    /\ own \ gone \subseteq Visible
    /\ \A t, u \in 0..now : t <= u => past[t + 1] \subseteq past[u + 1]

\* The cache is at least as new as the last answer, and as its time.
CacheOK ==
    /\ cachedAt = None => shown.rows = {}
    /\ cachedAt # None =>
        /\ shown.rows \ gone \subseteq cache /\ cache \ gone \subseteq Visible
        /\ cachedAt \in 0..now /\ past[cachedAt + 1] \ gone \subseteq cache

Scanning(c) == pc[c] \in {"count", "last"}

\* One handler scans at a time, once the cache has expired.
HandlerOK(c) ==
    /\ pc[c] \notin {"none", "closed"} => Timeout <= deadline[c] /\ deadline[c] - Timeout <= now
    /\ Scanning(c) =>
        /\ lock = c
        /\ startedAt[c] \in 0..now /\ deadline[c] - Timeout <= startedAt[c]
        /\ cachedAt # None => startedAt[c] - cachedAt >= Ttl
    /\ pc[c] = "last" =>
        /\ counted[c] \ gone \subseteq Visible
        /\ past[startedAt[c] + 1] \ gone \subseteq counted[c]
        /\ cachedAt # None => cache \ gone \subseteq counted[c]

IInv == TypeOK /\ DbOK /\ PastOK /\ CacheOK /\ \A c \in Connections : HandlerOK(c)

USE TimesAssumption, ConnectionsAssumption, BoundsAssumption
    DEF state, handler, history, vars, None

LEMMA MinOfTwo ==
    ASSUME NEW a \in Int, NEW b \in Int
    PROVE  Min({a, b}) \in {a, b} /\ Min({a, b}) <= a /\ Min({a, b}) <= b
<1>1. \E x \in {a, b} : \A y \in {a, b} : x <= y
  <2>1. CASE a <= b
    BY <2>1
  <2>2. CASE b <= a
    BY <2>2
  <2> QED BY <2>1, <2>2
<1> DEFINE m == CHOOSE x \in {a, b} : \A y \in {a, b} : x <= y
<1>2. m \in {a, b} /\ \A y \in {a, b} : m <= y
  BY <1>1
<1>3. Min({a, b}) = m
  BY DEF Min
<1> QED BY <1>2, <1>3

LEMMA MaxOfTwo ==
    ASSUME NEW a \in Int, NEW b \in Int
    PROVE  Max({a, b}) \in {a, b} /\ Max({a, b}) >= a /\ Max({a, b}) >= b
<1>1. \E x \in {a, b} : \A y \in {a, b} : x >= y
  <2>1. CASE a >= b
    BY <2>1
  <2>2. CASE b >= a
    BY <2>2
  <2> QED BY <2>1, <2>2
<1> DEFINE m == CHOOSE x \in {a, b} : \A y \in {a, b} : x >= y
<1>2. m \in {a, b} /\ \A y \in {a, b} : m >= y
  BY <1>1
<1>3. Max({a, b}) = m
  BY DEF Max
<1> QED BY <1>2, <1>3

\* What past remembers are rows of the proxy.
LEMMA PastIsOwn == ASSUME TypeOK, NEW t \in 0..now PROVE past[t + 1] \subseteq own
<1>1. t + 1 \in 1..Len(past)
  BY DEF TypeOK
<1> QED BY <1>1 DEF TypeOK

LEMMA InitIInv == Init => IInv
<1> SUFFICES ASSUME Init PROVE IInv
  OBVIOUS
<1>1. TypeOK
  BY DEF Init, TypeOK, Places
<1>2. DbOK /\ PastOK
  BY DEF Init, DbOK, PastOK, Visible
<1>3. CacheOK
  BY DEF Init, CacheOK
<1>4. \A c \in Connections : HandlerOK(c)
  BY DEF Init, HandlerOK, Scanning
<1> QED BY <1>1, <1>2, <1>3, <1>4 DEF IInv

-------------------------------------------------------------------------------
\* Whatever happens to the transaction and to the file, a row that was visible is
\* visible or gone, and so is one that the proxy has committed.
DbStep ==
    /\ own \subseteq own' /\ gone \subseteq gone'
    /\ DbOK' /\ (own \ gone \subseteq Visible)'
    /\ Visible \ gone' \subseteq Visible'

LEMMA VisibleGrows ==
    ASSUME DbOK, own \ gone \subseteq Visible, Reads \/ Database \/ UNCHANGED db
    PROVE  DbStep
<1> USE DEF DbStep, DbOK, Visible
<1>1. CASE Reads
  BY <1>1 DEF Reads
<1>2. CASE Insert
  <2>1. UNCHANGED <<table, pinned, view, own, gone>> /\ tx \subseteq tx' /\ within' # "none"
    BY <1>2 DEF Insert
  <2> QED BY <2>1
<1>3. CASE InsertFails
  BY <1>3 DEF InsertFails
<1>4. CASE Commit
  BY <1>4 DEF Commit, EndsTx
<1>5. CASE RollsBack
  BY <1>5 DEF RollsBack, EndsTx
<1>6. CASE OthersCommit
  BY <1>6 DEF OthersCommit
<1>7. ASSUME NEW r \in table, Delete(r) PROVE DbStep
  BY <1>7 DEF Delete
<1>8. CASE UNCHANGED db
  BY <1>8 DEF db
<1> QED BY <1>1, <1>2, <1>3, <1>4, <1>5, <1>6, <1>7, <1>8 DEF Database, Lookup

\* A step of the database that leaves the handlers and the times alone.
LEMMA DbKeeps ==
    ASSUME IInv, DbStep, DbOnly
    PROVE  IInv'
<1>0. TypeOK /\ PastOK /\ CacheOK /\ \A c \in Connections : HandlerOK(c)
  BY DEF IInv
<1>1. UNCHANGED <<now, server, lock, cache, cachedAt, pc, deadline, startedAt, counted, past, shown>>
  BY DEF DbOnly
<1>2. /\ own \subseteq own' /\ gone \subseteq gone' /\ DbOK' /\ (own \ gone \subseteq Visible)'
      /\ Visible \ gone' \subseteq Visible'
  BY DEF DbStep
<1>3. TypeOK'
  <2>1. past \in Seq(SUBSET own')
    BY <1>0, <1>2 DEF TypeOK
  <2> QED BY <1>0, <1>1, <2>1 DEF TypeOK
<1>4. PastOK'
  BY <1>0, <1>1, <1>2 DEF PastOK
<1>5. CacheOK'
  BY <1>0, <1>1, <1>2 DEF CacheOK
<1>6. ASSUME NEW c \in Connections PROVE HandlerOK(c)'
  BY <1>0, <1>1, <1>2 DEF HandlerOK, Scanning
<1> QED BY <1>2, <1>3, <1>4, <1>5, <1>6 DEF IInv

-------------------------------------------------------------------------------
\* A handler that leaves the cache alone.
LEMMA QuietHandler ==
    ASSUME IInv, DbStep, UNCHANGED <<now, past, cache, cachedAt, shown>>,
           lock' \in Connections \cup {"free"}, pc' \in [Connections -> Places],
           deadline' \in [Connections -> Nat], startedAt' \in [Connections -> Nat],
           counted' = [c \in Connections |-> counted'[c]]
    PROVE  TypeOK' /\ DbOK' /\ PastOK' /\ CacheOK'
<1>0. TypeOK /\ PastOK /\ CacheOK
  BY DEF IInv
<1>1. /\ own \subseteq own' /\ gone \subseteq gone' /\ DbOK' /\ (own \ gone \subseteq Visible)'
      /\ Visible \ gone' \subseteq Visible'
  BY DEF DbStep
<1>2. TypeOK'
  <2>1. past' \in Seq(SUBSET own') /\ Len(past') = now' + 1
    BY <1>0, <1>1 DEF TypeOK
  <2> QED BY <1>0, <2>1 DEF TypeOK
<1>3. PastOK'
  BY <1>0, <1>1 DEF PastOK
<1>4. CacheOK'
  BY <1>0, <1>1 DEF CacheOK
<1> QED BY <1>1, <1>2, <1>3, <1>4

\* A handler that another step leaves where it is keeps what holds of it, as long
\* as the cache is the same, or it is not scanning.
LEMMA OtherHandler ==
    ASSUME IInv, DbStep, NEW d \in Connections, UNCHANGED <<now, past>>,
           pc'[d] = pc[d], deadline'[d] = deadline[d], startedAt'[d] = startedAt[d],
           counted'[d] = counted[d],
           ~Scanning(d) \/ (UNCHANGED <<cache, cachedAt>> /\ (lock = d => lock' = d))
    PROVE  HandlerOK(d)'
<1>1. HandlerOK(d) /\ gone \subseteq gone' /\ Visible \ gone' \subseteq Visible'
  BY DEF IInv, DbStep
<1> QED BY <1>1 DEF HandlerOK, Scanning

\* The end of a handler: what the others rely on stays.
LEMMA EndKeeps ==
    ASSUME IInv, NEW c \in Connections, End(c)
    PROVE  /\ now' = now /\ past' = past
           /\ lock' \in Connections \cup {"free"}
           /\ pc' \in [Connections -> Places]
           /\ deadline' \in [Connections -> Nat] /\ startedAt' \in [Connections -> Nat]
           /\ counted' = [d \in Connections |-> counted'[d]]
           /\ pc'[c] = "closed"
           /\ \A d \in Connections \ {c} :
                /\ pc'[d] = pc[d] /\ deadline'[d] = deadline[d]
                /\ startedAt'[d] = startedAt[d] /\ counted'[d] = counted[d]
                /\ lock = d => lock' = d
  BY DEF End, IInv, TypeOK, Places

\* The end of a handler that leaves the cache alone, whatever it answers.
LEMMA EndStep ==
    ASSUME IInv, NEW c \in Connections, End(c), UNCHANGED <<db, cache, cachedAt>>,
           shown' = shown \/ (cachedAt # None /\ shown'.rows = cache)
    PROVE  IInv'
<1>1. DbStep
  BY VisibleGrows DEF IInv, PastOK
<1>2. TypeOK' /\ DbOK' /\ PastOK'
  <2>0. TypeOK /\ DbOK /\ PastOK
    BY DEF IInv
  <2> QED BY <1>1, <2>0, EndKeeps DEF TypeOK, DbOK, PastOK, Visible, db
<1>3. CacheOK'
  <2>0. CacheOK
    BY DEF IInv
  <2>1. now' = now /\ past' = past /\ gone' = gone /\ Visible' = Visible
    BY EndKeeps DEF Visible, db
  <2> QED BY <2>0, <2>1 DEF CacheOK
<1>4. ASSUME NEW d \in Connections PROVE HandlerOK(d)'
  <2>1. CASE d = c
    BY <2>1, EndKeeps DEF HandlerOK, Scanning
  <2>2. CASE d # c
    BY <1>1, <2>2, EndKeeps, OtherHandler
  <2> QED BY <2>1, <2>2
<1> QED BY <1>2, <1>3, <1>4 DEF IInv

LEMMA SnapshotStep == ASSUME IInv, NEW c \in Connections, Snapshot(c) PROVE IInv'
<1>0. TypeOK /\ DbOK /\ PastOK /\ CacheOK /\ HandlerOK(c) /\ \A d \in Connections : HandlerOK(d)
  BY DEF IInv
<1>1. /\ End(c) /\ cache' = counted[c] /\ cachedAt' = startedAt[c] /\ shown'.rows = counted[c]
      /\ pc[c] = "last" /\ Reads
  BY DEF Snapshot, Respond
<1>2. DbStep
  BY <1>0, <1>1, VisibleGrows DEF PastOK
<1>3. /\ own \subseteq own' /\ gone \subseteq gone' /\ DbOK' /\ (own \ gone \subseteq Visible)'
      /\ Visible \ gone' \subseteq Visible'
  BY <1>2 DEF DbStep
<1>4. TypeOK'
  <2>1. past' \in Seq(SUBSET own') /\ Len(past') = now' + 1 /\ now' = now
    BY <1>0, <1>1, <1>3, EndKeeps DEF TypeOK
  <2>2. cachedAt' \in Nat
    BY <1>0, <1>1 DEF TypeOK
  <2> QED BY <1>0, <1>1, <2>1, <2>2, EndKeeps DEF TypeOK
<1>5. PastOK'
  BY <1>0, <1>1, <1>3, EndKeeps DEF PastOK
<1>6. CacheOK'
  <2>1. /\ counted[c] \ gone \subseteq Visible /\ startedAt[c] \in 0..now
        /\ past[startedAt[c] + 1] \ gone \subseteq counted[c]
    BY <1>0, <1>1 DEF HandlerOK, Scanning
  <2>2. now' = now /\ past' = past
    BY <1>1, EndKeeps
  <2>3. cachedAt' # None
    BY <1>1, <2>1
  <2> QED BY <1>1, <1>3, <2>1, <2>2, <2>3 DEF CacheOK
<1>7. ASSUME NEW d \in Connections PROVE HandlerOK(d)'
  <2>1. CASE d = c
    BY <1>1, <2>1, EndKeeps DEF HandlerOK, Scanning
  <2>2. CASE d # c
    <3>1. ~Scanning(d)
      BY <1>0, <1>1, <2>2 DEF HandlerOK, Scanning
    <3> QED BY <1>1, <1>2, <2>2, <3>1, EndKeeps, OtherHandler
  <2> QED BY <2>1, <2>2
<1> QED BY <1>3, <1>4, <1>5, <1>6, <1>7 DEF IInv

LEMMA CountStep == ASSUME IInv, NEW c \in Connections, Count(c) PROVE IInv'
<1>0. TypeOK /\ DbOK /\ PastOK /\ CacheOK /\ HandlerOK(c) /\ \A d \in Connections : HandlerOK(d)
  BY DEF IInv
<1>1. /\ pc[c] = "count" /\ pc' = [pc EXCEPT ![c] = "last"] /\ Reads
      /\ counted' = [counted EXCEPT ![c] = Visible]
      /\ UNCHANGED <<now, server, state, deadline, startedAt, history>>
  BY DEF Count
<1>2. DbStep
  BY <1>0, <1>1, VisibleGrows DEF PastOK
<1>3. TypeOK' /\ DbOK' /\ PastOK' /\ CacheOK'
  <2>1. /\ pc' \in [Connections -> Places] /\ lock' \in Connections \cup {"free"}
        /\ deadline' \in [Connections -> Nat] /\ startedAt' \in [Connections -> Nat]
        /\ counted' = [d \in Connections |-> counted'[d]]
    BY <1>0, <1>1 DEF TypeOK, Places
  <2> QED BY <1>1, <1>2, <2>1, QuietHandler
<1>4. ASSUME NEW d \in Connections PROVE HandlerOK(d)'
  <2>1. CASE d = c
    <3>1. pc'[c] = "last" /\ counted'[c] = Visible
      BY <1>0, <1>1 DEF TypeOK
    <3>2. gone' = gone /\ Visible \ gone \subseteq Visible'
      BY <1>1, <1>2 DEF DbStep, Reads
    <3>3. Scanning(c) /\ startedAt[c] \in 0..now
      BY <1>0, <1>1 DEF HandlerOK, Scanning
    <3>4. past[startedAt[c] + 1] \subseteq own
      BY <1>0, <3>3, PastIsOwn
    <3>5. past[startedAt[c] + 1] \ gone \subseteq Visible
      BY <1>0, <3>4 DEF PastOK
    <3>6. cachedAt # None => cache \ gone \subseteq Visible
      BY <1>0 DEF CacheOK
    <3> QED BY <1>0, <1>1, <2>1, <3>1, <3>2, <3>3, <3>5, <3>6 DEF HandlerOK, Scanning
  <2>2. CASE d # c
    <3>1. pc'[d] = pc[d] /\ counted'[d] = counted[d]
      BY <1>0, <1>1, <2>2 DEF TypeOK
    <3> QED BY <1>1, <1>2, <3>1, OtherHandler
  <2> QED BY <2>1, <2>2
<1> QED BY <1>3, <1>4 DEF IInv

LEMMA HandleStep == ASSUME IInv, NEW c \in Connections, Handle(c) PROVE IInv'
<1>0. TypeOK /\ PastOK /\ CacheOK /\ HandlerOK(c) /\ \A d \in Connections : HandlerOK(d)
  BY DEF IInv
<1>1. CASE Refuse(c)
  BY <1>1, EndStep DEF Refuse
<1>2. CASE FromCache(c)
  BY <1>2, EndStep DEF FromCache, Respond, Fresh
<1>3. CASE Connect(c) \/ Request(c) \/ Acquire(c)
  <2>1. UNCHANGED db
    BY <1>3 DEF Connect, Request, Acquire
  <2>2. DbStep
    BY <2>1, VisibleGrows DEF IInv, PastOK
  <2>3. TypeOK' /\ DbOK' /\ PastOK' /\ CacheOK'
    <3>1. UNCHANGED <<now, past, cache, cachedAt, shown>> /\ counted' = counted
      BY <1>3 DEF Connect, Request, Acquire
    <3>2. lock' \in Connections \cup {"free"} /\ pc' \in [Connections -> Places]
      BY <1>0, <1>3 DEF Connect, Request, Acquire, TypeOK, Places
    <3>3. deadline' \in [Connections -> Nat] /\ startedAt' \in [Connections -> Nat]
      BY <1>0, <1>3 DEF Connect, Request, Acquire, TypeOK
    <3>4. counted' = [d \in Connections |-> counted'[d]]
      BY <1>0, <3>1 DEF TypeOK
    <3> QED BY <2>2, <3>1, <3>2, <3>3, <3>4, QuietHandler
  <2>4. ASSUME NEW d \in Connections PROVE HandlerOK(d)'
    <3>1. CASE d = c
      BY <1>0, <1>3, <3>1 DEF Connect, Request, Acquire, TypeOK, HandlerOK, Scanning, Fresh
    <3>2. CASE d # c
      <4>1. /\ pc'[d] = pc[d] /\ deadline'[d] = deadline[d] /\ startedAt'[d] = startedAt[d]
            /\ counted'[d] = counted[d] /\ UNCHANGED <<now, past, cache, cachedAt>>
        BY <1>0, <1>3, <3>2 DEF Connect, Request, Acquire, TypeOK
      <4>2. lock = d => lock' = d
        BY <1>3 DEF Connect, Request, Acquire
      <4> QED BY <2>2, <4>1, <4>2, OtherHandler
    <3> QED BY <3>1, <3>2
  <2> QED BY <2>3, <2>4 DEF IInv
<1> QED BY <1>1, <1>2, <1>3, SnapshotStep, CountStep DEF Handle, Reject, QueryFails, TimesOut

LEMMA TickStep == ASSUME IInv, Tick PROVE IInv'
<1>0. TypeOK /\ DbOK /\ PastOK /\ CacheOK /\ \A d \in Connections : HandlerOK(d)
  BY DEF IInv
<1>1. /\ now' = now + 1 /\ past' = Append(past, own)
      /\ UNCHANGED <<db, server, state, handler, shown>>
  BY DEF Tick
<1>2. /\ Len(past') = now + 2 /\ past'[now + 2] = own /\ past' \in Seq(SUBSET own)
      /\ \A t \in 0..now : past'[t + 1] = past[t + 1]
  BY <1>0, <1>1 DEF TypeOK
<1>3. UNCHANGED <<table, within, tx, pinned, view, own, gone>> /\ Visible' = Visible
  BY <1>1 DEF db, Visible
<1>4. TypeOK'
  BY <1>0, <1>1, <1>2, <1>3 DEF TypeOK
<1>5. DbOK'
  BY <1>0, <1>3 DEF DbOK
<1>6. PastOK'
  <2>1. \A t \in 0..now' : t \in 0..now \/ t = now + 1
    BY <1>0, <1>1 DEF TypeOK
  <2>2. ASSUME NEW t \in 0..now', NEW u \in 0..now', t <= u
        PROVE  past'[t + 1] \subseteq past'[u + 1]
    <3>1. CASE u = now + 1
      <4>1. t = now + 1 \/ t \in 0..now
        BY <2>1
      <4>2. t \in 0..now => past'[t + 1] \subseteq own
        BY <1>0, <1>2, PastIsOwn
      <4> QED BY <1>0, <1>2, <3>1, <4>1, <4>2 DEF TypeOK
    <3>2. CASE u \in 0..now
      <4>1. t \in 0..now
        BY <1>0, <2>2, <3>2 DEF TypeOK
      <4> QED BY <1>0, <1>2, <2>2, <3>2, <4>1 DEF PastOK
    <3> QED BY <2>1, <3>1, <3>2
  <2> QED BY <1>0, <1>3, <2>2 DEF PastOK
<1>7. CacheOK'
  <2>1. cachedAt # None => cachedAt \in 0..now' /\ past'[cachedAt + 1] = past[cachedAt + 1]
    BY <1>0, <1>1, <1>2 DEF CacheOK, TypeOK
  <2> QED BY <1>0, <1>1, <1>3, <2>1 DEF CacheOK
<1>8. ASSUME NEW d \in Connections PROVE HandlerOK(d)'
  <2>1. HandlerOK(d) /\ startedAt[d] \in Nat /\ deadline[d] \in Nat
    BY <1>0 DEF TypeOK
  <2>2. Scanning(d) => past'[startedAt[d] + 1] = past[startedAt[d] + 1]
    BY <1>2, <2>1 DEF HandlerOK
  <2>3. now \in Nat /\ now' = now + 1
    BY <1>0, <1>1 DEF TypeOK
  <2>4. pc' = pc /\ deadline' = deadline /\ startedAt' = startedAt /\ counted' = counted
        /\ lock' = lock /\ cache' = cache /\ cachedAt' = cachedAt
    BY <1>1
  <2>5. startedAt[d] \in 0..now => startedAt[d] \in 0..now'
    BY <2>1, <2>3
  <2>6. Timeout \in Nat /\ (deadline[d] - Timeout <= now => deadline[d] - Timeout <= now')
    BY <2>1, <2>3
  <2> QED BY <1>3, <2>1, <2>2, <2>4, <2>5, <2>6 DEF HandlerOK, Scanning
<1> QED BY <1>4, <1>5, <1>6, <1>7, <1>8 DEF IInv

LEMMA NextIInv == IInv /\ [Next]_vars => IInv'
<1> SUFFICES ASSUME IInv, [Next]_vars PROVE IInv'
  OBVIOUS
<1>1. CASE CloseServer \/ WaitClosed \/ UNCHANGED vars
  <2>1. UNCHANGED <<now, db, state, handler, history>>
    BY <1>1 DEF CloseServer, WaitClosed
  <2> QED BY <2>1 DEF IInv, TypeOK, DbOK, PastOK, CacheOK, HandlerOK, Scanning, Visible, db
<1>2. CASE Database
  <2>1. DbOnly
    BY <1>2 DEF Database, Lookup, Insert, InsertFails, Commit, RollsBack, OthersCommit, Delete
  <2>2. DbStep
    BY <1>2, VisibleGrows DEF IInv, PastOK
  <2> QED BY <2>1, <2>2, DbKeeps
<1> QED BY <1>1, <1>2, HandleStep, TickStep DEF Next

-------------------------------------------------------------------------------
\* The lock, the cache and the handlers are as the invariant says, whatever the
\* timers of the handlers cut short and the transaction makes of the table.
THEOREM Invariance == Spec => []IInv
  BY InitIInv, NextIInv, PTL DEF Spec

\* Which steps answer, and with what.
LEMMA AnswersBy ==
    ASSUME IInv, [Next]_vars, shown' # shown
    PROVE  \E c \in Connections :
              /\ shown' = [to |-> c, rows |-> shown'.rows]
              /\ \/ FromCache(c) /\ shown'.rows = cache
                 \/ Snapshot(c) /\ shown'.rows = counted[c]
<1>1. ~Database
  BY DEF Database, Lookup, Insert, InsertFails, Commit, RollsBack, OthersCommit, Delete, DbOnly
<1>2. \E c \in Connections : FromCache(c) \/ Snapshot(c)
  BY <1>1 DEF Next, Handle, Connect, Request, Reject, Acquire, Count, QueryFails, TimesOut, Refuse,
         CloseServer, WaitClosed, Tick
<1> QED BY <1>2 DEF FromCache, Snapshot, Respond

\* A row that an answer counted is counted by each later one or gone, since
\* HealthState.snapshot() takes a snapshot under its lock, and no transaction
\* hides what was visible.
THEOREM CountedStaysCounted == Spec => NeverGoesBack
<1>1. IInv /\ [Next]_vars => shown.rows \ gone' \subseteq shown'.rows
  <2> SUFFICES ASSUME IInv, [Next]_vars, shown' # shown
               PROVE  shown.rows \ gone' \subseteq shown'.rows
    OBVIOUS
  <2>1. PICK c \in Connections : \/ FromCache(c) /\ shown'.rows = cache
                                 \/ Snapshot(c) /\ shown'.rows = counted[c]
    BY AnswersBy
  <2>2. CacheOK /\ HandlerOK(c)
    BY DEF IInv
  <2>3. gone' = gone
    BY <2>1 DEF FromCache, Snapshot, Reads, db
  <2>4. CASE FromCache(c) /\ shown'.rows = cache
    BY <2>2, <2>3, <2>4 DEF FromCache, Fresh, CacheOK
  <2>5. CASE Snapshot(c) /\ shown'.rows = counted[c]
    BY <2>2, <2>3, <2>5 DEF Snapshot, CacheOK, HandlerOK
  <2> QED BY <2>1, <2>4, <2>5
<1> QED BY <1>1, Invariance, PTL DEF Spec, NeverGoesBack

\* An answer counts what the proxy had committed when its request came, or a time
\* to live ago: the time of a snapshot is that of its first query.
THEOREM OwnRowsAreCounted == Spec => AnswersAreFresh
<1>1. IInv /\ [Next]_vars =>
        (shown' # shown => past[Since(shown'.to) + 1] \ gone \subseteq shown'.rows)
  <2> SUFFICES ASSUME IInv, [Next]_vars, shown' # shown
               PROVE  past[Since(shown'.to) + 1] \ gone \subseteq shown'.rows
    OBVIOUS
  <2>1. PICK c \in Connections :
            /\ shown' = [to |-> c, rows |-> shown'.rows]
            /\ \/ FromCache(c) /\ shown'.rows = cache
               \/ Snapshot(c) /\ shown'.rows = counted[c]
    BY AnswersBy
  <2>2. shown'.to = c
    BY <2>1
  <2>3. TypeOK /\ PastOK /\ CacheOK /\ HandlerOK(c)
    BY DEF IInv
  <2> DEFINE since == Since(c)
             age   == Max({0, now - Ttl})
  <2>4. age \in {0, now - Ttl} /\ age >= 0 /\ age >= now - Ttl
    <3>1. 0 \in Int /\ now - Ttl \in Int
      BY <2>3 DEF TypeOK
    <3> QED BY <3>1, MaxOfTwo
  <2>5. pc[c] \notin {"none", "closed"}
    BY <2>1 DEF FromCache, Snapshot
  <2>6. deadline[c] - Timeout \in 0..now
    BY <2>3, <2>5 DEF HandlerOK, TypeOK
  <2>7. since \in {deadline[c] - Timeout, age} /\ since <= deadline[c] - Timeout /\ since <= age
    <3>1. deadline[c] - Timeout \in Int /\ age \in Int
      BY <2>3, <2>4, <2>6 DEF TypeOK
    <3> HIDE DEF age
    <3>2. since = Min({deadline[c] - Timeout, age})
      BY DEF Since, age
    <3> QED BY <3>1, <3>2, MinOfTwo
  <2> HIDE DEF since, age
  <2>8. since \in 0..now
    BY <2>3, <2>4, <2>6, <2>7 DEF TypeOK
  <2>9. CASE FromCache(c) /\ shown'.rows = cache
    <3>1. cachedAt # None /\ now - cachedAt < Ttl
      BY <2>9 DEF FromCache, Fresh
    <3>2. cachedAt \in 0..now /\ since <= cachedAt
      BY <2>3, <2>4, <2>7, <3>1 DEF CacheOK, TypeOK
    <3>3. past[since + 1] \subseteq past[cachedAt + 1] /\ past[cachedAt + 1] \ gone \subseteq cache
      BY <2>3, <2>8, <3>1, <3>2 DEF PastOK, CacheOK
    <3> QED BY <2>2, <2>9, <3>3 DEF since
  <2>10. CASE Snapshot(c) /\ shown'.rows = counted[c]
    <3>1. pc[c] = "last"
      BY <2>10 DEF Snapshot
    <3>2. /\ startedAt[c] \in 0..now /\ since <= startedAt[c]
          /\ past[startedAt[c] + 1] \ gone \subseteq counted[c]
      BY <2>3, <2>6, <2>7, <2>8, <3>1 DEF HandlerOK, Scanning, TypeOK
    <3>3. past[since + 1] \subseteq past[startedAt[c] + 1]
      BY <2>3, <2>8, <3>2 DEF PastOK
    <3> QED BY <2>2, <2>10, <3>2, <3>3 DEF since
  <2> QED BY <2>1, <2>9, <2>10
<1> QED BY <1>1, Invariance, PTL DEF Spec, AnswersAreFresh

\* Peers cannot make the table be scanned more than once in a time to live.
THEOREM ScansKeepApart == Spec => ScansAreRare
<1>1. IInv => \A c \in Connections :
            pc[c] = "count" /\ pc'[c] = "last" /\ cachedAt # None =>
                startedAt[c] - cachedAt >= Ttl
  BY DEF IInv, HandlerOK, Scanning
<1> QED BY <1>1, Invariance, PTL DEF Spec, ScansAreRare

-------------------------------------------------------------------------------
(* Telemetry.                                                              *)

Identities == {Old} \cup minted

TelemetryTypeOK ==
    /\ stage \in [Processes -> {"sleep", "stats", "identity", "read", "mint", "truncate",
                             "write", "send", "posting", "done"}]
    /\ id \in [Processes -> Identities]
    /\ sends \in [Processes -> Nat]
    /\ \A s \in posted : s.by \in Processes

\* The file holds an identity or is being replaced, and so is what was sent.
FileOK ==
    /\ file \in {Absent, Empty} \cup Identities
    /\ \A s \in posted \cup log \cup lost : s.id \in Identities

\* Until the file is removed nobody finds a reason to mint an identity.
KeptOK ==
    ~reset =>
        /\ file = Old /\ minted = {}
        /\ \A p \in Processes : stage[p] \notin {"mint", "truncate", "write"}

TelemetryInv == TelemetryTypeOK /\ FileOK /\ KeptOK /\ SentIsLogged

USE DEF disk, task, records, telemetryVars, Goto

\* The three things that the file may be are told apart.
LEMMA Distinct ==
    /\ Absent # Empty /\ Absent # Old /\ Empty # Old
    /\ \A p, n : Identity(p, n) # Absent /\ Identity(p, n) # Empty
<1>1. Absent.what = "absent" /\ Empty.what = "empty" /\ Old.what = "identity"
  BY DEF Absent, Empty, Old, Identity
<1>2. \A p, n : Identity(p, n).what = "identity"
  BY DEF Identity
<1> QED BY <1>1, <1>2

LEMMA TelemetryInvInit == TelemetryInit => TelemetryInv
<1> SUFFICES ASSUME TelemetryInit PROVE TelemetryInv
  OBVIOUS
<1>1. TelemetryTypeOK
  BY DEF TelemetryInit, TelemetryTypeOK, Identities
<1>2. FileOK
  BY DEF TelemetryInit, FileOK, Identities
<1>3. KeptOK
  BY DEF TelemetryInit, KeptOK
<1>4. SentIsLogged
  BY DEF TelemetryInit, SentIsLogged
<1> QED BY <1>1, <1>2, <1>3, <1>4 DEF TelemetryInv

-------------------------------------------------------------------------------
\* A payload is what its sender sends now: it remains so, unless its sender
\* goes on, which it does when the payload is logged.
LEMMA SentStays ==
    ASSUME TelemetryTypeOK, SentIsLogged, NEW p \in Processes,
           posted' = posted, log \cup lost \subseteq log' \cup lost',
           \A q \in Processes \ {p} : stage'[q] = stage[q] /\ id'[q] = id[q] /\ sends'[q] = sends[q],
           \/ stage[p] \notin {"posting", "done"}
           \/ stage'[p] \in {"posting", "done"} /\ id'[p] = id[p] /\ sends'[p] = sends[p]
           \/ Own(p) \in log' \cup lost'
    PROVE  SentIsLogged'
<1> SUFFICES ASSUME NEW s \in posted', s \notin log' \cup lost'
             PROVE  s = Own(s.by)' /\ stage'[s.by] \in {"posting", "done"}
  BY DEF SentIsLogged
<1>1. s.by \in Processes /\ s = Own(s.by) /\ stage[s.by] \in {"posting", "done"}
  BY DEF TelemetryTypeOK, SentIsLogged
<1>2. CASE s.by = p
  BY <1>1, <1>2 DEF Own
<1>3. CASE s.by # p
  BY <1>1, <1>3 DEF Own
<1> QED BY <1>2, <1>3

\* Each step of a proxy preserves the invariant.
LEMMA ProxyStep ==
    ASSUME TelemetryInv, NEW p \in Processes, Wake(p) \/ Step(p) \/ Answer(p) \/ Cancel(p) \/ Die(p)
    PROVE  TelemetryInv'
<1>0. TelemetryTypeOK /\ FileOK /\ KeptOK /\ SentIsLogged
  BY DEF TelemetryInv, TelemetryTypeOK
<1>1. CASE Wake(p) \/ Stats(p) \/ Ends(p) \/ Cancel(p) \/ Die(p)
  <2>1. UNCHANGED <<disk, id, records>> /\ \A q \in Processes \ {p} :
            stage'[q] = stage[q] /\ sends'[q] = sends[q]
    BY <1>0, <1>1 DEF Wake, Stats, Ends, Cancel, Die, TelemetryTypeOK
  <2>2. TelemetryTypeOK'
    BY <1>0, <1>1 DEF Wake, Stats, Ends, Cancel, Die, TelemetryTypeOK, Identities
  <2>3. stage'[p] \in {"stats", "identity", "sleep", "done", stage[p]}
    BY <1>0, <1>1 DEF Wake, Stats, Ends, Cancel, Die, TelemetryTypeOK
  <2>4. KeptOK'
    BY <1>0, <2>1, <2>3 DEF KeptOK
  <2>5. FileOK'
    BY <1>0, <2>1 DEF FileOK, Identities
  <2>6. stage[p] \notin {"posting", "done"} \/ (stage'[p] \in {"posting", "done"} /\ sends'[p] = sends[p])
    BY <1>0, <1>1 DEF Wake, Stats, Ends, Cancel, Die, TelemetryTypeOK
  <2>7. SentIsLogged'
    BY <1>0, <2>1, <2>6, SentStays
  <2> QED BY <2>2, <2>4, <2>5, <2>7 DEF TelemetryInv
<1>2. CASE Exists(p) \/ Read(p)
  <2>1. UNCHANGED <<file, log, records, sends>> /\ \A q \in Processes \ {p} :
            stage'[q] = stage[q] /\ id'[q] = id[q]
    BY <1>0, <1>2 DEF Exists, Read, TelemetryTypeOK
  <2>2. id'[p] \in {id[p]} \cup ({file} \ {Absent, Empty}) /\ id' = [id EXCEPT ![p] = id'[p]]
    BY <1>0, <1>2 DEF Exists, Read, TelemetryTypeOK
  <2>3. id'[p] \in Identities
    BY <1>0, <2>2 DEF FileOK, TelemetryTypeOK
  <2>4. TelemetryTypeOK'
    BY <1>0, <1>2, <2>2, <2>3 DEF Exists, Read, TelemetryTypeOK, Identities
  <2>5. file = Old => stage'[p] \in {"read", "sleep", "send"}
    BY <1>0, <1>2, Distinct DEF Exists, Read, TelemetryTypeOK
  <2>6. KeptOK'
    BY <1>0, <2>1, <2>5 DEF KeptOK
  <2>7. FileOK'
    BY <1>0, <2>1 DEF FileOK, Identities
  <2>8. stage[p] \notin {"posting", "done"}
    BY <1>2 DEF Exists, Read
  <2>9. SentIsLogged'
    BY <1>0, <2>1, <2>8, SentStays
  <2> QED BY <2>4, <2>6, <2>7, <2>9 DEF TelemetryInv
<1>3. CASE Mint(p) \/ Truncate(p) \/ Write(p)
  <2>1. reset /\ reset' = reset /\ UNCHANGED <<log, lost, posted, sends>>
        /\ stage[p] \notin {"posting", "done"}
    BY <1>0, <1>3 DEF Mint, Truncate, Write, KeptOK
  <2>2. \A q \in Processes \ {p} : stage'[q] = stage[q] /\ id'[q] = id[q] /\ sends'[q] = sends[q]
    BY <1>0, <1>3 DEF Mint, Truncate, Write, TelemetryTypeOK
  <2>3. Identities \subseteq Identities' /\ id'[p] \in Identities'
    BY <1>0, <1>3 DEF Mint, Truncate, Write, TelemetryTypeOK, Identities
  <2>4. id' = [id EXCEPT ![p] = id'[p]]
    BY <1>0, <1>3 DEF Mint, Truncate, Write, TelemetryTypeOK
  <2>5. TelemetryTypeOK'
    BY <1>0, <1>3, <2>1, <2>3, <2>4 DEF Mint, Truncate, Write, TelemetryTypeOK
  <2>6. file' \in {file, Empty, id[p]}
    BY <1>3 DEF Mint, Truncate, Write
  <2>7. FileOK'
    BY <1>0, <2>1, <2>3, <2>6 DEF FileOK, TelemetryTypeOK
  <2>8. SentIsLogged'
    BY <1>0, <2>1, <2>2, SentStays
  <2> QED BY <2>1, <2>5, <2>7, <2>8 DEF TelemetryInv, KeptOK
<1>4. CASE Send(p) \/ Answer(p)
  <2>1. UNCHANGED <<file, id, sends, minted, reset>> /\ \A q \in Processes \ {p} : stage'[q] = stage[q]
    BY <1>0, <1>4 DEF Send, Answer, TelemetryTypeOK
  <2>2. stage'[p] \in {"sleep", "posting"}
    BY <1>0, <1>4 DEF Send, Answer, TelemetryTypeOK
  <2>3. /\ posted' \in {posted, posted \cup {Own(p)}}
        /\ log' \in {log, log \cup {Own(p)}} /\ lost' \in {lost, lost \cup {Own(p)}}
    BY <1>4 DEF Send, Answer, AppendLog
  <2>4. Own(p).by = p /\ Own(p).id = id[p] /\ id[p] \in Identities
    BY <1>0 DEF Own, Payload, TelemetryTypeOK
  <2>5. TelemetryTypeOK'
    BY <1>0, <1>4, <2>1, <2>3, <2>4 DEF Send, Answer, TelemetryTypeOK, Identities
  <2>6. FileOK'
    BY <1>0, <2>1, <2>3, <2>4 DEF FileOK, Identities
  <2>7. KeptOK'
    BY <1>0, <2>1, <2>2 DEF KeptOK
  <2>8. SentIsLogged'
    <3>1. CASE posted' = posted
      <4>1. log \cup lost \subseteq log' \cup lost'
        BY <2>3
      <4>2. stage[p] = "send" \/ Own(p) \in log' \cup lost'
        BY <1>4 DEF Send, Answer, AppendLog
      <4> QED BY <1>0, <2>1, <3>1, <4>1, <4>2, SentStays
    <3>2. CASE posted' # posted
      <4>1. posted' = posted \cup {Own(p)} /\ stage'[p] = "posting" /\ stage[p] = "send"
            /\ UNCHANGED <<log, lost>>
        BY <1>0, <1>4, <3>2 DEF Send, Answer, TelemetryTypeOK
      <4>2. Own(p)' = Own(p)
        BY <2>1 DEF Own
      <4>3. ASSUME NEW s \in posted \ (log \cup lost)
            PROVE  s = Own(s.by)' /\ stage'[s.by] \in {"posting", "done"}
        <5>1. s = Own(s.by) /\ stage[s.by] \in {"posting", "done"} /\ s.by \in Processes
          BY <1>0, <4>3 DEF SentIsLogged, TelemetryTypeOK
        <5> QED BY <2>1, <4>1, <5>1 DEF Own
      <4> QED BY <2>4, <4>1, <4>2, <4>3 DEF SentIsLogged
    <3> QED BY <3>1, <3>2
  <2> QED BY <2>5, <2>6, <2>7, <2>8 DEF TelemetryInv
<1> QED BY <1>1, <1>2, <1>3, <1>4 DEF Step

LEMMA TelemetryInvNext == TelemetryInv /\ [TelemetryNext]_telemetryVars => TelemetryInv'
<1> SUFFICES ASSUME TelemetryInv, [TelemetryNext]_telemetryVars PROVE TelemetryInv'
  OBVIOUS
<1>1. CASE \E p \in Processes : Wake(p) \/ Step(p) \/ Answer(p) \/ Cancel(p) \/ Die(p)
  BY <1>1, ProxyStep
<1>2. CASE Remove
  BY <1>2 DEF Remove, TelemetryInv, TelemetryTypeOK, FileOK, KeptOK, SentIsLogged, Identities, Own
<1>3. CASE UNCHANGED telemetryVars
  BY <1>3 DEF TelemetryInv, TelemetryTypeOK, FileOK, KeptOK, SentIsLogged, Identities, Own
<1> QED BY <1>1, <1>2, <1>3 DEF TelemetryNext

\* What the proxies report, hold and log is as the invariant says, however many
\* there are, and whoever of them dies.
THEOREM TelemetryInvariance == TelemetrySpec => []TelemetryInv
  BY TelemetryInvInit, TelemetryInvNext, PTL DEF TelemetrySpec

\* send() logs what it posted, unless the log cannot be written or the process
\* ends meanwhile.
THEOREM PostedIsLogged == TelemetrySpec => []SentIsLogged
  BY TelemetryInvariance, PTL DEF TelemetryInv

\* _identity() of any proxy reports identities only, and the old one until it is
\* removed.
THEOREM IdentityStays == TelemetrySpec => []IdentityIsKept
<1>1. TelemetryInv => IdentityIsKept
  BY DEF TelemetryInv, TelemetryTypeOK, FileOK, KeptOK, IdentityIsKept, Identities
<1> QED BY <1>1, TelemetryInvariance, PTL
===============================================================================
