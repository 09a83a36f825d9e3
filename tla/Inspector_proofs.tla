----------------------------- MODULE Inspector_proofs -----------------------------
(***************************************************************************)
(* For any threshold, times, frames and policies: an open circuit breaker  *)
(* leaves Ollama alone for the whole cool-down, and a cached label is one  *)
(* that Ollama gave for the same content, recently.  For a kind of policy  *)
(* that the built-in one is of, what the rules block stays blocked.        *)
(*                                                                         *)
(* The breaker's counter is compared with the history of the calls, which  *)
(* it equals as long as a call can be made only by a closed breaker; the   *)
(* rows of the cache with the answers they go back to.                     *)
(***************************************************************************)
EXTENDS Inspector, WellFoundedInduction, TLAPS

Times == Nat \cup {Never}

Answers == [text : Texts, label : Labels, at : Nat]

TypesOK ==
    /\ now \in Nat /\ start \in Nat
    /\ failures \in Nat /\ streak \in Nat
    /\ openedAt \in Times /\ trippedAt \in Times
    /\ cache \in [Texts -> [label : Labels \cup {"none"}, answer : Answers \cup {NoAnswer}, at : Nat]]

\* The breaker knows how often Ollama failed, and when it was too often.
BreakerOK ==
    /\ streak = failures
    /\ openedAt = Never => failures < Threshold
    /\ pc = "call" => openedAt = Never
    /\ trippedAt # Never => openedAt = trippedAt \/ now >= trippedAt + OpenFor

\* classify() is awaited for at most the budget, and holds what Ollama said.
CallOK ==
    /\ pc \in {"lookup", "call", "upsert"} =>
        frame \in Frames /\ now \in start..(start + MaxLatency)
    /\ pc = "upsert" =>
        /\ answer \in Answers /\ answer.text = frame.text /\ answer.label = label
        /\ answer.at \in start..now

\* A row is as old as its answer, but for the budget of an inspection.
RowsOK ==
    \A t \in Texts :
        LET r == cache[t]
        IN  r.label \in Labels =>
                /\ r.answer \in Answers /\ r.answer.text = t /\ r.answer.label = r.label
                /\ r.at - r.answer.at <= MaxLatency

IInv == TypesOK /\ BreakerOK /\ CallOK /\ RowsOK

USE TimesAssumption, ThresholdAssumption
    DEF breaker, locals, history, fixed, vars, Never, Labels

LEMMA InitIInv == Init => IInv
<1> SUFFICES ASSUME Init PROVE IInv
  OBVIOUS
<1>1. TypesOK
  BY DEF Init, TypesOK, Times, Row
<1>2. BreakerOK
  BY DEF Init, BreakerOK
<1>3. CallOK
  BY DEF Init, CallOK
<1>4. RowsOK
  <2>1. \A t \in Texts : cache[t].label = "none"
    BY DEF Init, Row
  <2> QED BY <2>1 DEF RowsOK
<1> QED BY <1>1, <1>2, <1>3, <1>4 DEF IInv

\* The label that is stored is the one Ollama gave within the budget.
LEMMA StoredRows ==
    ASSUME IInv, pc = "upsert"
    PROVE  /\ Stored(label) \in
                [Texts -> [label : Labels \cup {"none"}, answer : Answers \cup {NoAnswer}, at : Nat]]
           /\ \A t \in Texts :
                LET r == Stored(label)[t]
                IN  r.label \in Labels =>
                        /\ r.answer \in Answers /\ r.answer.text = t /\ r.answer.label = r.label
                        /\ r.at - r.answer.at <= MaxLatency
<1>1. /\ TypesOK /\ RowsOK /\ frame \in Frames /\ now \in start..(start + MaxLatency)
      /\ answer \in Answers /\ answer.text = frame.text /\ answer.label = label
      /\ answer.at \in start..now
  BY DEF IInv, CallOK
<1>2. frame.text \in Texts /\ label \in Labels
  BY <1>1, FramesAssumption DEF Answers
<1> DEFINE row == Row(label, answer, now)
<1>3. /\ row.label = label /\ row.answer = answer /\ row.at = now
      /\ row \in [label : Labels \cup {"none"}, answer : Answers \cup {NoAnswer}, at : Nat]
  BY <1>1, <1>2 DEF Row, TypesOK
<1>4. now - answer.at <= MaxLatency
  BY <1>1 DEF TypesOK
<1> HIDE DEF row
<1>5. Stored(label) = [cache EXCEPT ![frame.text] = row]
  BY DEF Stored, row
<1>6. \A t \in Texts : Stored(label)[t] = IF t = frame.text THEN row ELSE cache[t]
  BY <1>1, <1>5 DEF TypesOK
<1>7. Stored(label) \in
        [Texts -> [label : Labels \cup {"none"}, answer : Answers \cup {NoAnswer}, at : Nat]]
  BY <1>1, <1>2, <1>3, <1>5 DEF TypesOK
<1>8. ASSUME NEW t \in Texts, Stored(label)[t].label \in Labels
      PROVE  LET r == Stored(label)[t]
             IN  /\ r.answer \in Answers /\ r.answer.text = t /\ r.answer.label = r.label
                 /\ r.at - r.answer.at <= MaxLatency
  <2>1. CASE t = frame.text
    BY <1>1, <1>3, <1>4, <1>6, <2>1
  <2>2. CASE t # frame.text
    BY <1>1, <1>6, <1>8, <2>2 DEF RowsOK
  <2> QED BY <2>1, <2>2
<1> QED BY <1>7, <1>8

LEMMA NextIInv == IInv /\ [Next]_vars => IInv'
<1> SUFFICES ASSUME IInv, [Next]_vars PROVE IInv'
  OBVIOUS
<1>0. TypesOK /\ BreakerOK /\ CallOK /\ RowsOK
  BY DEF IInv
<1>1. ASSUME NEW f \in Frames, Begin(f) PROVE IInv'
  <2>1. /\ frame' = f /\ start' = now /\ pc' \in {"lookup", "decide"}
        /\ UNCHANGED <<now, breaker, cache, history>>
    BY <1>1 DEF Begin
  <2> QED BY <1>0, <2>1 DEF IInv, TypesOK, BreakerOK, CallOK, RowsOK
<1>2. CASE CacheHit \/ CircuitOpen \/ StorageFails \/ Conclude \/ Deliver \/ Enough \/ UNCHANGED vars
  <2>1. /\ UNCHANGED <<now, breaker, cache, streak, trippedAt>>
        /\ start' \in {start, 0}
        /\ \/ UNCHANGED <<start, frame, pc, answer, label>>
           \/ pc' \in {"decide", "done", "idle"}
    BY <1>2 DEF CacheHit, CircuitOpen, StorageFails, Conclude, Deliver, Enough, Classified
  <2> QED BY <1>0, <2>1 DEF IInv, TypesOK, BreakerOK, CallOK, RowsOK
<1>3. CASE Call
  <2>1. /\ pc = "lookup" /\ ~IsOpen /\ pc' = "call" /\ openedAt' = Never
        /\ failures' = IF CooledDown THEN 0 ELSE failures
        /\ streak' = IF CooledDown THEN 0 ELSE streak
        /\ UNCHANGED <<now, cache, frame, start, trippedAt, answer>>
    BY <1>3 DEF Call
  <2>2. TypesOK'
    BY <1>0, <2>1 DEF TypesOK, Times
  <2>3. BreakerOK'
    BY <1>0, <2>1 DEF TypesOK, Times, BreakerOK, IsOpen, CooledDown
  <2> QED BY <1>0, <2>1, <2>2, <2>3 DEF IInv, CallOK, RowsOK
<1>4. ASSUME NEW l \in Labels \cup {"none"}, Answered(l) PROVE IInv'
  <2>1. /\ pc = "call" /\ failures' = 0 /\ openedAt' = Never /\ streak' = 0 /\ trippedAt' = Never
        /\ UNCHANGED <<now, cache, frame, start>>
        /\ \/ pc' = "decide"
           \/ l \in Labels /\ pc' = "upsert" /\ label' = l /\ answer' = Answer(frame.text, l, now)
    BY <1>4 DEF Answered, RecordSuccess, Classified
  <2>2. TypesOK' /\ BreakerOK' /\ RowsOK'
    BY <1>0, <2>1 DEF TypesOK, Times, BreakerOK, RowsOK
  <2>3. CallOK'
    <3>1. CASE pc' = "decide"
      BY <3>1 DEF CallOK
    <3>2. CASE l \in Labels /\ pc' = "upsert" /\ label' = l /\ answer' = Answer(frame.text, l, now)
      <4>1. frame \in Frames /\ frame.text \in Texts /\ now \in start..(start + MaxLatency)
        BY <1>0, <2>1, FramesAssumption DEF CallOK
      <4>2. /\ answer' \in Answers /\ answer'.text = frame.text /\ answer'.label = l
            /\ answer'.at = now
        BY <1>0, <3>2, <4>1 DEF Answer, Answers, TypesOK
      <4>3. now \in start..now
        BY <1>0, <4>1 DEF TypesOK
      <4> QED BY <2>1, <3>2, <4>1, <4>2, <4>3 DEF CallOK
    <3> QED BY <2>1, <3>1, <3>2
  <2> QED BY <2>2, <2>3 DEF IInv
<1>5. CASE CallFails
  <2>1. /\ pc = "call" /\ pc' = "decide" /\ failures' = failures + 1
        /\ openedAt' = IF failures' >= Threshold THEN now ELSE openedAt
        /\ streak' = Counted(streak)
        /\ trippedAt' = IF streak' >= Threshold THEN now ELSE trippedAt
        /\ UNCHANGED <<now, cache, start>>
    BY <1>5 DEF CallFails, RecordFailure, Classified
  <2>2. streak' = failures' /\ failures' \in Nat
    BY <1>0, <2>1 DEF BreakerOK, TypesOK, Counted
  <2>3. TypesOK' /\ BreakerOK'
    BY <1>0, <2>1, <2>2 DEF TypesOK, Times, BreakerOK
  <2> QED BY <1>0, <2>1, <2>3 DEF IInv, CallOK, RowsOK
<1>6. CASE Upserted \/ BudgetExpires
  <2>1. /\ pc' = "decide" /\ UNCHANGED <<now, breaker, start, streak, trippedAt>>
        /\ cache' = cache \/ (pc = "upsert" /\ cache' = Stored(label))
    BY <1>6 DEF Upserted, BudgetExpires, Classified
  <2>2. CASE cache' = cache
    BY <1>0, <2>1, <2>2 DEF IInv, TypesOK, BreakerOK, CallOK, RowsOK
  <2>3. CASE pc = "upsert" /\ cache' = Stored(label)
    <3>1. RowsOK'
      BY <2>3, StoredRows DEF RowsOK
    <3>2. TypesOK'
      BY <1>0, <2>1, <2>3, StoredRows DEF TypesOK
    <3> QED BY <1>0, <2>1, <3>1, <3>2 DEF IInv, BreakerOK, CallOK
  <2> QED BY <2>1, <2>2, <2>3
<1>7. CASE Tick
  <2>1. /\ now' = now + 1 /\ UNCHANGED <<breaker, cache, frame, pc, start, locals, history>>
        /\ pc \in {"lookup", "call", "upsert"} => now < start + MaxLatency
    BY <1>7 DEF Tick
  <2>2. TypesOK' /\ RowsOK'
    BY <1>0, <2>1 DEF TypesOK, RowsOK
  <2>3. BreakerOK'
    BY <1>0, <2>1 DEF TypesOK, Times, BreakerOK
  <2>4. CallOK'
    BY <1>0, <2>1 DEF TypesOK, CallOK
  <2> QED BY <2>2, <2>3, <2>4 DEF IInv
<1> QED BY <1>1, <1>2, <1>3, <1>4, <1>5, <1>6, <1>7 DEF Next

\* Breaker and cache agree with the history of the calls, in every sequence of
\* inspections.
THEOREM Invariance == Spec => []IInv
  BY InitIInv, NextIInv, PTL DEF Spec

\* _CircuitBreaker: no call before the cool-down is over, whatever cache hits,
\* cancellations and failing writes come between the failures.
THEOREM CoolDownHolds == Spec => OpenHolds
<1>1. IInv /\ [Next]_vars =>
        (pc' = "call" /\ pc # "call" => trippedAt = Never \/ now >= trippedAt + OpenFor)
  <2> SUFFICES ASSUME IInv, [Next]_vars, pc' = "call", pc # "call"
               PROVE  trippedAt = Never \/ now >= trippedAt + OpenFor
    OBVIOUS
  <2>1. Call
    BY DEF Next, Begin, CacheHit, CircuitOpen, Answered, CallFails, Upserted, StorageFails,
           BudgetExpires, Conclude, Deliver, Tick, Enough, Classified
  <2>2. ~IsOpen
    BY <2>1 DEF Call
  <2> QED BY <2>2 DEF IInv, TypesOK, Times, BreakerOK, IsOpen, CooledDown
<1> QED BY <1>1, Invariance, PTL DEF Spec, OpenHolds

\* lookup_classifier_cache() and upsert_classifier_cache(): a hit goes back to
\* an answer for the same content that is not too old.
THEOREM HitsAreHonest == Spec => CacheIsHonest
<1>1. IInv /\ [Next]_vars =>
        (note' = "cache_hit" /\ note # note' =>
            LET a == cache[frame.text].answer IN
            /\ a # NoAnswer /\ a.text = frame.text /\ a.label = label'
            /\ now - a.at <= Ttl + MaxLatency)
  <2> SUFFICES ASSUME IInv, [Next]_vars, note' = "cache_hit", note # note'
               PROVE  LET a == cache[frame.text].answer IN
                      /\ a # NoAnswer /\ a.text = frame.text /\ a.label = label'
                      /\ now - a.at <= Ttl + MaxLatency
    OBVIOUS
  <2>1. CacheHit
    BY DEF Next, Begin, InitialNote, CircuitOpen, Call, Answered, CallFails, Upserted, StorageFails,
           BudgetExpires, Conclude, Deliver, Tick, Enough, Classified
  <2> DEFINE r == cache[frame.text]
  <2>2. pc = "lookup" /\ r.label \in Labels /\ now - r.at <= Ttl /\ label' = r.label
    BY <2>1 DEF CacheHit, IsFresh, Classified
  <2>3. frame.text \in Texts /\ TypesOK
    BY <2>2, FramesAssumption DEF IInv, CallOK
  <2>4. /\ r.answer \in Answers /\ r.answer.text = frame.text /\ r.answer.label = r.label
        /\ r.at - r.answer.at <= MaxLatency /\ r.at \in Nat
    BY <2>2, <2>3 DEF IInv, RowsOK, TypesOK
  <2>5. r.answer.at \in Nat /\ r.answer # NoAnswer
    <3>1. NoAnswer.label = "none"
      BY DEF NoAnswer
    <3> QED BY <2>2, <2>4, <3>1 DEF Answers
  <2>6. now - r.answer.at <= Ttl + MaxLatency
    <3>1. now \in Nat
      BY <2>3 DEF TypesOK
    <3> HIDE DEF r
    <3> QED BY <2>2, <2>4, <2>5, <3>1
  <2> QED BY <2>2, <2>4, <2>5, <2>6
<1> QED BY <1>1, Invariance, PTL DEF Spec, CacheIsHonest

-------------------------------------------------------------------------------
(* What the rules block stays blocked, whatever the classifier says.  That *)
(* is not so of every policy: one may let a label pass first, or block     *)
(* only what has no label.                                                 *)

\* Two rules that cannot both match.
Apart(w, v) ==
    /\ "direction" \in DOMAIN w /\ "direction" \in DOMAIN v
    /\ w.direction # v.direction

\* What the classifier says may decide whether the rule matches.
Listens(w) == "classifier" \in DOMAIN w \/ "detector_score_at_least" \in DOMAIN w

\* A rule that does not block and listens to the classifier comes after the
\* rules that block in its direction; no block waits for the want of a label.
BlocksStand(p) ==
    /\ DOMAIN p.rules \subseteq Nat
    /\ \A i \in DOMAIN p.rules :
        LET rule == p.rules[i] IN
        /\ "detector_score_at_least" \in DOMAIN rule.when =>
                rule.when.detector_score_at_least \in Int
        /\ rule.action = "block" /\ "classifier" \in DOMAIN rule.when =>
                rule.when.classifier # "none"
        /\ rule.action # "block" /\ Listens(rule.when) =>
                /\ p.default # "block"
                /\ \A j \in DOMAIN p.rules :
                    j > i /\ p.rules[j].action = "block" => Apart(rule.when, p.rules[j].when)

\* The built-in policy is of this kind.
LEMMA BuiltinStands == BlocksStand(DefaultPolicy)
BY DEF BlocksStand, DefaultPolicy, Rule, Listens, Apart

\* Least and greatest elements, as Min and Max choose them.
LEMMA LeastOf ==
    ASSUME NEW T \in SUBSET Nat, T # {}
    PROVE  Min(T) \in T /\ \A m \in T : Min(T) <= m
<1>1. PICK n \in T : \A m \in T : ~ (<<m, n>> \in OpToRel(<, Nat))
  BY NatLessThanWellFounded, WFMin
<1>2. \A m \in T : ~(m < n)
  BY <1>1 DEF OpToRel
<1>3. \A m \in T : n <= m
  BY <1>2
<1> QED BY <1>3 DEF Min

LEMMA GreatestOf ==
    ASSUME NEW T \in SUBSET Nat, T # {}, NEW b \in Nat, \A m \in T : m <= b
    PROVE  Max(T) \in T /\ \A m \in T : Max(T) >= m
<1> DEFINE D == {b - m : m \in T}
<1>1. D \in SUBSET Nat /\ D # {}
  <2>1. \A m \in T : b - m \in Nat
    OBVIOUS
  <2> QED BY <2>1
<1>2. PICK d \in D : \A e \in D : d <= e
  <2> HIDE DEF D
  <2> QED BY <1>1, LeastOf
<1>3. PICK n \in T : d = b - n
  BY <1>2
<1>4. \A m \in T : n >= m
  <2> SUFFICES ASSUME NEW m \in T PROVE n >= m
    OBVIOUS
  <2>1. d <= b - m
    BY <1>2
  <2> QED BY <1>3, <2>1
<1> QED BY <1>4 DEF Max

\* The score of the rules is a number.
LEMMA RulesScoreType == ASSUME NEW f \in Frames PROVE ScoreOf(f) \in Nat
<1> DEFINE T == {0} \cup {Pack[r].score : r \in HitsOf(f)}
<1>1. HitsOf(f) \subseteq DOMAIN Pack
  BY FramesAssumption DEF HitsOf, Hits
<1>2. \A m \in T : m \in 0..100
  BY <1>1, PackAssumption
<1>3. T \in SUBSET Nat /\ T # {} /\ \A m \in T : m <= 100
  <2>1. T # {}
    OBVIOUS
  <2> HIDE DEF T
  <2> QED BY <1>2, <2>1
<1>4. ScoreOf(f) = Max(T)
  BY DEF ScoreOf, RulesScore
<1> HIDE DEF T
<1> QED BY <1>3, <1>4, GreatestOf

\* A greater score and another label leave a block of such a policy standing.
LEMMA BlockStands ==
    ASSUME NEW p, BlocksStand(p), NEW f, NEW s \in Nat, NEW t \in Nat, t >= s, NEW l,
           Decide(p, Facts(f, s, "none")) = "block"
    PROVE  Decide(p, Facts(f, t, l)) = "block"
<1> DEFINE g == Facts(f, s, "none")
           h == Facts(f, t, l)
           G == {i \in DOMAIN p.rules : Matches(p.rules[i].when, g)}
           H == {i \in DOMAIN p.rules : Matches(p.rules[i].when, h)}
<1>1. /\ g.direction = h.direction /\ g.method = h.method /\ g.markers = h.markers
      /\ g.hits = h.hits /\ g.score = s /\ h.score = t /\ g.classifier = "none"
  BY DEF Facts
<1>2. /\ Decide(p, g) = IF G = {} THEN p.default ELSE p.rules[Min(G)].action
      /\ Decide(p, h) = IF H = {} THEN p.default ELSE p.rules[Min(H)].action
  BY DEF Decide
<1>3. /\ G \in SUBSET Nat /\ H \in SUBSET Nat
      /\ G \subseteq DOMAIN p.rules /\ H \subseteq DOMAIN p.rules
  BY DEF BlocksStand
<1>4. Decide(p, g) = "block"
  OBVIOUS
<1>5. ASSUME NEW i \in H, ~Listens(p.rules[i].when) PROVE i \in G
  BY <1>1, <1>5 DEF Matches, Listens
<1>6. ASSUME NEW i \in G, p.rules[i].action = "block" PROVE i \in H
  BY <1>1, <1>6 DEF Matches, BlocksStand
<1>7. ASSUME NEW i \in G, NEW j \in H PROVE ~Apart(p.rules[i].when, p.rules[j].when)
                                             /\ ~Apart(p.rules[j].when, p.rules[i].when)
  BY <1>1 DEF Matches, Apart
<1> HIDE DEF g, h, G, H
<1>8. CASE G = {}
  <2>1. p.default = "block"
    BY <1>2, <1>4, <1>8
  <2>2. \A i \in H : p.rules[i].action = "block"
    BY <1>3, <1>5, <1>8, <2>1 DEF BlocksStand
  <2>3. H # {} => Min(H) \in H
    BY <1>3, LeastOf
  <2> QED BY <1>2, <2>1, <2>2, <2>3 DEF h
<1>9. CASE G # {}
  <2> DEFINE j == Min(G)
             i == Min(H)
  <2>1. j \in G /\ p.rules[j].action = "block" /\ \A m \in G : j <= m
    BY <1>2, <1>3, <1>4, <1>9, LeastOf
  <2>2. j \in H
    BY <1>6, <2>1
  <2>3. i \in H /\ i <= j
    BY <1>3, <2>2, LeastOf
  <2> HIDE DEF i, j
  <2>0. i \in Nat /\ j \in Nat /\ i \in DOMAIN p.rules /\ j \in DOMAIN p.rules
    BY <1>3, <2>1, <2>3
  <2>4. p.rules[i].action = "block"
    <3> SUFFICES ASSUME p.rules[i].action # "block" PROVE FALSE
      OBVIOUS
    <3>1. CASE Listens(p.rules[i].when)
      <4>1. i # j /\ j > i
        BY <2>0, <2>1, <2>3
      <4>2. Apart(p.rules[i].when, p.rules[j].when)
        BY <2>0, <2>1, <3>1, <4>1 DEF BlocksStand
      <4> QED BY <1>7, <2>1, <2>3, <4>2
    <3>2. CASE ~Listens(p.rules[i].when)
      <4>1. i \in G
        BY <1>5, <2>3, <3>2
      <4>2. i = j
        BY <2>0, <2>1, <2>3, <4>1
      <4> QED BY <2>1, <4>2
    <3> QED BY <3>1, <3>2
  <2> QED BY <1>2, <2>3, <2>4 DEF h, i
<1> QED BY <1>8, <1>9

\* Until the policy is asked, the score is at least that of the rules.
ScoreOK ==
    /\ policy \in Policies
    /\ pc \in {"lookup", "call", "upsert", "decide"} =>
        frame \in Frames /\ score \in Nat /\ score >= ScoreOf(frame)

LEMMA ClassifiedScore ==
    ASSUME NEW l, NEW why, Classified(l, why), score \in Nat
    PROVE  score' \in Nat /\ score' >= score
<1>1. CASE l = "none"
  BY <1>1 DEF Classified
<1>2. CASE l # "none"
  <2> DEFINE k == IF l = "INSTRUCTION" THEN 85 ELSE 5
             T == {score, k}
  <2>1. T \in SUBSET Nat /\ T # {} /\ score + 85 \in Nat /\ \A m \in T : m <= score + 85
    OBVIOUS
  <2>2. score' = Max(T) /\ score \in T
    BY <1>2 DEF Classified
  <2> HIDE DEF T
  <2> QED BY <2>1, <2>2, GreatestOf
<1> QED BY <1>1, <1>2

LEMMA ScoreStep == ScoreOK /\ [Next]_vars => ScoreOK'
<1> SUFFICES ASSUME ScoreOK, [Next]_vars PROVE ScoreOK'
  OBVIOUS
<1> USE DEF ScoreOK
<1>1. ASSUME NEW f \in Frames, Begin(f) PROVE ScoreOK'
  BY <1>1, RulesScoreType DEF Begin
<1>2. ASSUME pc \in {"lookup", "call", "upsert"}, UNCHANGED <<policy, frame>>,
             NEW l, NEW why, Classified(l, why)
      PROVE  ScoreOK'
  <2>1. score' \in Nat /\ score' >= score
    BY <1>2, ClassifiedScore
  <2>2. ScoreOf(frame) \in Nat
    BY <1>2, RulesScoreType
  <2> QED BY <1>2, <2>1, <2>2
<1>3. CASE CacheHit \/ CircuitOpen \/ CallFails \/ Upserted
  BY <1>2, <1>3 DEF CacheHit, CircuitOpen, CallFails, Upserted
<1>4. ASSUME NEW l \in Labels \cup {"none"}, Answered(l) PROVE ScoreOK'
  BY <1>2, <1>4 DEF Answered
<1>5. CASE Call \/ StorageFails \/ BudgetExpires \/ Tick \/ Enough \/ UNCHANGED vars
  BY <1>5 DEF Call, StorageFails, BudgetExpires, Tick, Enough
<1>6. CASE Conclude \/ Deliver
  BY <1>6 DEF Conclude, Deliver
<1> QED BY <1>1, <1>3, <1>4, <1>5, <1>6 DEF Next

\* inspect() and Policy.decide(): a policy whose blocks do not depend on what
\* the classifier leaves unsaid blocks at least what it would block by the
\* rules alone, whatever Ollama, the cache and the timers do.
THEOREM RulesBlockAlone ==
    ASSUME \A p \in Policies : BlocksStand(p)
    PROVE  Spec => []RulesStandAlone
<1>1. Init => ScoreOK /\ RulesStandAlone
  BY DEF Init, ScoreOK, RulesStandAlone
<1>2. ScoreOK /\ RulesStandAlone /\ [Next]_vars => RulesStandAlone'
  <2> SUFFICES ASSUME ScoreOK, RulesStandAlone, [Next]_vars PROVE RulesStandAlone'
    OBVIOUS
  <2>1. CASE Conclude
    <3>1. /\ frame \in Frames /\ score \in Nat /\ score >= ScoreOf(frame)
          /\ policy \in Policies /\ policy' = policy
      BY <2>1 DEF Conclude, ScoreOK
    <3>2. CASE result' = Judge
      <4> SUFFICES ASSUME result'.judged, Replaceable(result'.frame),
                          Decide(policy, Facts(result'.frame, ScoreOf(result'.frame), "none")) = "block"
                   PROVE  result'.action = "block"
        BY <3>1 DEF RulesStandAlone
      <4> DEFINE action == Decide(policy, Facts(frame, score, label))
      <4>1. result'.frame = frame
        BY <3>2 DEF Judge, Result
      <4>2. action = "block"
        BY <3>1, <4>1, RulesScoreType, BlockStands
      <4> HIDE DEF action
      <4>3. result' = Result(action, NoteFor(action), TRUE)
        BY <3>2, <4>1, <4>2 DEF Judge, action
      <4> QED BY <4>2, <4>3 DEF Result
    <3>3. CASE result' = Result("warn", "inspection_timeout", FALSE)
      BY <3>3 DEF Result, RulesStandAlone
    <3> QED BY <2>1, <3>2, <3>3 DEF Conclude
  <2>2. CASE Deliver
    BY <2>2 DEF Deliver, RulesStandAlone
  <2>3. CASE ~Conclude /\ ~Deliver
    <3>1. UNCHANGED <<policy, result>>
      BY <2>3 DEF Next, Begin, CacheHit, CircuitOpen, Call, Answered, CallFails, Upserted,
             StorageFails, BudgetExpires, Tick, Enough
    <3> QED BY <3>1 DEF RulesStandAlone
  <2> QED BY <2>1, <2>2, <2>3
<1> QED BY <1>1, <1>2, ScoreStep, PTL DEF Spec
===============================================================================
