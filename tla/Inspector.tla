------------------------------- MODULE Inspector -------------------------------
(***************************************************************************)
(* inspector.py and detectors/llm.py: the cascade a frame goes through     *)
(* before it is forwarded.  The rules always run; a response of the server *)
(* that carries text may then be shown to the classifier, which looks into *)
(* its cache, asks the circuit breaker, calls Ollama and stores the        *)
(* answer, all within the latency budget; the policy decides last.         *)
(*                                                                         *)
(* The client's pump inspects without an await, and the server's pump one  *)
(* frame at a time, so inspections follow one another.  Time is a counter. *)
(***************************************************************************)
EXTENDS Integers, Sequences, FiniteSets, Policy

CONSTANTS
    Frames,         \* the frames that may come, see FramesAssumption
    Pack,           \* the rules: from their ids to score and apply_to
    Policies,       \* the policies the proxy may have been started with
    Texts,          \* the contents to classify, up to their SHA-256
    MaxLatency,     \* the inspector's budget
    CallTimeout,    \* the HTTP client's timeout
    Threshold, OpenFor, \* the circuit breaker
    Ttl,            \* how long a cached label is good
    ShortCircuit,   \* the rules' score from which nobody is asked
    MaxTime         \* bound: the time at which the model ends

ASSUME TimesAssumption ==
    MaxLatency \in Nat \ {0} /\ CallTimeout \in Nat \ {0} /\ OpenFor \in Nat
        /\ Ttl \in Nat /\ MaxTime \in Nat /\ ShortCircuit \in 0..100
ASSUME FramesAssumption ==
    \A f \in Frames :
        /\ f.direction \in {"c2s", "s2c"}
        /\ f.kind \in {"request", "response", "notification", "parse_error"}
        /\ f.content \in {"text", "other", "none"}    \* of a response's result
        /\ f.size \in {"short", "blank", "fits", "truncated", "long"}
        /\ f.text \in Texts /\ f.matched \subseteq DOMAIN Pack
ASSUME ThresholdAssumption == Threshold \in Nat \ {0}
ASSUME PackAssumption ==
    \A r \in DOMAIN Pack :
        Pack[r].score \in 0..100 /\ Pack[r].apply_to \subseteq {"c2s", "s2c"}
ASSUME PoliciesAssumption == \A p \in Policies : Loadable(p)

VARIABLES
    policy, llm,        \* fixed at the start: the policy, and whether there
                        \* is a classifier
    now,
    failures, openedAt, \* _CircuitBreaker; Never if closed
    cache,              \* the table classifier_cache
    frame, pc, start, callEnd,  \* inspect(): where it stands, since when, and
                                \* when the HTTP client gives up
    label, score, note, \* its locals
    result,             \* the last InspectionResult
    streak, trippedAt, unanswered, answer   \* history, see the properties

breaker == <<failures, openedAt>>
locals  == <<label, score, note>>
history == <<streak, trippedAt, unanswered, answer>>
fixed   == <<policy, llm>>
vars == <<fixed, now, breaker, cache, frame, pc, start, callEnd, locals,
          result, history>>

Never == -1
Labels == {"DATA", "INSTRUCTION"}
NoFrame == [direction |-> "none"]
NoResult == [action |-> "none"]

\* History: what Ollama said, of which content and when; a row of the cache
\* and a result remember which answer they go back to.
Answer(t, l, when) == [text |-> t, label |-> l, at |-> when]
NoAnswer == [label |-> "none"]

Row(l, a, when) == [label |-> l, answer |-> a, at |-> when]

Init ==
    /\ policy \in Policies /\ llm \in BOOLEAN
    /\ now = 0
    /\ failures = 0 /\ openedAt = Never
    /\ cache = [t \in Texts |-> Row("none", NoAnswer, 0)]
    /\ frame = NoFrame /\ pc = "idle" /\ start = 0 /\ callEnd = 0
    /\ label = "none" /\ score = 0 /\ note = "none"
    /\ result = NoResult
    /\ streak = 0 /\ trippedAt = Never /\ unanswered = 0
    /\ answer = NoAnswer

-------------------------------------------------------------------------------
(* The beginning of inspect(): the rules, and whether to ask.              *)

HitsOf(f) == Hits(Pack, f.matched, f.direction)
ScoreOf(f) == RulesScore(Pack, HitsOf(f))

\* Why the classifier is not asked, or "candidate".
InitialNote(f) ==
    IF ~llm THEN "skipped:disabled"
    ELSE IF f.direction # "s2c" THEN "skipped:c2s"
    ELSE IF ScoreOf(f) >= ShortCircuit THEN "skipped:rules_short_circuit"
    ELSE IF f.kind # "response" \/ f.content = "none" THEN "skipped:not_candidate"
    ELSE IF f.content = "other" THEN "skipped:non_text_content"
    ELSE IF f.size = "short" THEN "skipped:too_short"
    ELSE IF f.size = "long" THEN "skipped:too_long"
    ELSE IF f.size = "blank" THEN "skipped:empty"
    ELSE "candidate"

Begin(f) ==
    /\ pc = "idle" /\ now + MaxLatency <= MaxTime
    /\ frame' = f /\ start' = now
    /\ label' = "none" /\ score' = ScoreOf(f) /\ note' = InitialNote(f)
    /\ pc' = IF InitialNote(f) = "candidate" THEN "lookup" ELSE "decide"
    /\ UNCHANGED <<fixed, now, breaker, cache, callEnd, result, history>>

-------------------------------------------------------------------------------
(* classify(), awaited for at most the budget.                             *)

\* The classifier's result is used.
Classified(l, why) ==
    /\ label' = l /\ note' = why
    /\ score' = IF l = "none" THEN score
                ELSE Max({score, IF l = "INSTRUCTION" THEN 85 ELSE 5})
    /\ pc' = "decide"

IsFresh(entry) == entry.label \in Labels /\ now - entry.at <= Ttl

\* Slip: the breaker closes a moment too early.
CooledDownEarly == openedAt # Never /\ now - openedAt >= OpenFor - 1

CooledDown == openedAt # Never /\ now - openedAt >= OpenFor
IsOpen == openedAt # Never /\ ~CooledDown

CacheHit ==
    /\ pc = "lookup" /\ IsFresh(cache[frame.text])
    /\ Classified(cache[frame.text].label, "cache_hit")
    /\ UNCHANGED <<fixed, now, breaker, cache, frame, start, callEnd, result, history>>

CircuitOpen ==
    /\ pc = "lookup" /\ ~IsFresh(cache[frame.text]) /\ IsOpen
    /\ Classified("none", "circuit_open")
    /\ UNCHANGED <<fixed, now, breaker, cache, frame, start, callEnd, result, history>>

\* A breaker that has cooled down is closed, its failures forgotten.
Call ==
    /\ pc = "lookup" /\ ~IsFresh(cache[frame.text]) /\ ~IsOpen
    /\ pc' = "call" /\ callEnd' = now + CallTimeout
    /\ openedAt' = Never
    /\ failures' = IF CooledDown THEN 0 ELSE failures
    /\ streak' = IF CooledDown THEN 0 ELSE streak
    /\ UNCHANGED <<fixed, now, cache, frame, start, locals, result,
                   trippedAt, unanswered, answer>>

RecordSuccess == failures' = 0 /\ openedAt' = Never

RecordFailure ==
    /\ failures' = failures + 1
    /\ openedAt' = IF failures' >= Threshold THEN now ELSE openedAt

\* Bound: counting up to where no property looks further.
Counted(n) == IF n > Threshold THEN n ELSE n + 1

\* Ollama answers with a label, or with something else.
Answered(l) ==
    /\ pc = "call"
    /\ RecordSuccess
    /\ IF l = "none"
         THEN Classified("none", "parse_error") /\ UNCHANGED answer
         ELSE /\ pc' = "upsert" /\ label' = l
              /\ answer' = Answer(frame.text, l, now)
              /\ UNCHANGED <<score, note>>
    /\ streak' = 0 /\ trippedAt' = Never /\ unanswered' = 0
    /\ UNCHANGED <<fixed, now, cache, frame, start, callEnd, result>>

\* The connection is refused, the answer is an error, or the HTTP client's
\* own timer fires.
CallFails ==
    /\ pc = "call"
    /\ RecordFailure
    /\ Classified("none", "error")
    /\ streak' = Counted(streak)
    /\ trippedAt' = IF streak' >= Threshold THEN now ELSE trippedAt
    /\ unanswered' = Counted(unanswered)
    /\ UNCHANGED <<fixed, now, cache, frame, start, callEnd, result, answer>>

\* Slip: the key does not tell contents apart.
StoredForAll(l) == [t \in Texts |-> Row(l, answer, now)]

Stored(l) == [cache EXCEPT ![frame.text] = Row(l, answer, now)]

\* The label is returned once it is stored.
Upserted ==
    /\ pc = "upsert"
    /\ cache' = Stored(label)
    /\ Classified(label, IF frame.size = "truncated" THEN "ok:truncated" ELSE "ok")
    /\ UNCHANGED <<fixed, now, breaker, frame, start, callEnd, result, history>>

\* The database refuses: classify() raises, and what Ollama said is lost.
StorageFails ==
    /\ pc \in {"lookup", "upsert"}
    /\ label' = "none" /\ note' = "classifier_error" /\ pc' = "decide"
    /\ UNCHANGED <<fixed, now, breaker, cache, frame, start, callEnd, score,
                   result, history>>

\* wait_for() cancels classify() wherever it is.  The breaker hears nothing of
\* it; a write that was submitted may still be executed.
BudgetExpires ==
    /\ pc \in {"lookup", "call", "upsert"} /\ now = start + MaxLatency
    /\ label' = "none" /\ note' = "inspection_timeout" /\ pc' = "decide"
    /\ cache' \in {cache} \cup (IF pc = "upsert" THEN {Stored(label)} ELSE {})
    /\ unanswered' = IF pc = "call" THEN Counted(unanswered) ELSE unanswered
    /\ UNCHANGED <<fixed, now, breaker, frame, start, callEnd, score,
                   result, streak, trippedAt, answer>>

-------------------------------------------------------------------------------
(* The end of inspect(): the policy and the replacement.                   *)

Replaceable(f) == f.kind = IF f.direction = "s2c" THEN "response" ELSE "request"

VerdictFor(action) ==
    CASE action = "block" -> "BLOCK" [] action = "warn" -> "WARN" [] OTHER -> "PASS"

\* History: whether the policy was asked, and what Ollama answered meanwhile.
Result(action, why, judged) ==
    [frame |-> frame, action |-> action, verdict |-> VerdictFor(action),
     score |-> score, classifier |-> label, note |-> why,
     judged |-> judged, answer |-> answer]

Facts(f, s, l) ==
    [direction |-> f.direction, method |-> f.method, score |-> s,
     classifier |-> l, hits |-> HitsOf(f), markers |-> f.markers]

\* The trace id goes into the note only if there is no other.
NoteFor(action) ==
    IF note # "ok" THEN note ELSE IF action = "block" THEN "trace" ELSE "none"

\* Slip: the classifier's score replaces the rules'.
JudgeByClassifier ==
    LET s == IF label = "DATA" THEN 5 ELSE score
        action == Decide(policy, Facts(frame, s, label)) IN
    IF action = "block" /\ ~Replaceable(frame)
      THEN Result("warn", "downgraded:no_replacement", TRUE)
      ELSE Result(action, NoteFor(action), TRUE)

Judge ==
    LET action == Decide(policy, Facts(frame, score, label)) IN
    IF action = "block" /\ ~Replaceable(frame)
      THEN Result("warn", "downgraded:no_replacement", TRUE)
      ELSE Result(action, NoteFor(action), TRUE)

\* An inspection that took too long in spite of the budget, because the rules
\* or the event loop did, ends in a warning.
Conclude ==
    /\ pc = "decide" /\ pc' = "done"
    /\ result' \in {Judge, Result("warn", "inspection_timeout", FALSE)}
    /\ frame' = NoFrame /\ start' = 0 /\ callEnd' = 0
    /\ label' = "none" /\ score' = 0 /\ note' = "none" /\ answer' = NoAnswer
    /\ UNCHANGED <<fixed, now, breaker, cache, streak, trippedAt, unanswered>>

\* The pump takes the result and acts on it.
Deliver ==
    /\ pc = "done" /\ pc' = "idle"
    /\ result' = NoResult
    /\ UNCHANGED <<fixed, now, breaker, cache, frame, start, callEnd, locals, history>>

-------------------------------------------------------------------------------
\* Time does not pass a timer that is due.
Tick ==
    /\ now < MaxTime /\ pc \notin {"decide", "done"}
    /\ pc \in {"lookup", "call", "upsert"} => now < start + MaxLatency
    /\ pc = "call" => now < callEnd
    /\ now' = now + 1
    /\ UNCHANGED <<fixed, breaker, cache, frame, pc, start, callEnd, locals,
                   result, history>>

\* The end of the model, not of the program.
Enough == pc = "idle" /\ now = MaxTime /\ UNCHANGED vars

Next ==
    \/ \E f \in Frames : Begin(f)
    \/ CacheHit \/ CircuitOpen \/ Call
    \/ \E l \in Labels \cup {"none"} : Answered(l)
    \/ CallFails \/ Upserted \/ StorageFails \/ BudgetExpires
    \/ Conclude \/ Deliver \/ Tick \/ Enough

\* Time passes and timers fire; neither Ollama nor the database need answer.
Fairness == WF_vars(Tick) /\ WF_vars(BudgetExpires) /\ WF_vars(Conclude)
                /\ WF_vars(Deliver)
                /\ WF_vars(CallFails /\ now = callEnd)

Spec == Init /\ [][Next]_vars /\ Fairness
-------------------------------------------------------------------------------
(* Properties.                                                             *)

TypeOK ==
    /\ policy \in Policies /\ llm \in BOOLEAN
    /\ now \in 0..MaxTime
    /\ failures \in 0..Threshold /\ openedAt \in {Never} \cup 0..now
    /\ \A t \in Texts :
        cache[t].label \in Labels \cup {"none"} /\ cache[t].at \in 0..now
    /\ result # NoResult <=> pc = "done"
    /\ frame \in Frames \cup {NoFrame}
    /\ pc \in {"idle", "lookup", "call", "upsert", "decide", "done"}
    /\ start \in 0..now /\ callEnd \in 0..(MaxTime + CallTimeout)
    /\ label \in Labels \cup {"none"} /\ score \in 0..100

\* After Threshold failures in a row, Ollama is left alone for OpenFor, whatever
\* the cache, the database and the inspector's timers do in between.
OpenHolds ==
    [][ pc' = "call" /\ pc # "call" =>
            trippedAt = Never \/ now >= trippedAt + OpenFor ]_vars

\* A frame is never held up for good: Ollama and the database may stay silent.
InspectionEnds == pc # "idle" ~> pc = "idle"

\* A label from the cache is one that Ollama gave for the same content, and
\* not longer ago than the time to live and the budget of an inspection.
CacheIsHonest ==
    [][ note' = "cache_hit" /\ note # note' =>
            LET a == cache[frame.text].answer IN
            /\ a # NoAnswer /\ a.text = frame.text /\ a.label = label'
            /\ now - a.at <= Ttl + MaxLatency ]_vars

\* What the rules alone would block stays blocked, whatever the classifier
\* says or fails to say.
RulesStandAlone ==
    result # NoResult /\ result.judged /\ Replaceable(result.frame)
    /\ Decide(policy, Facts(result.frame, ScoreOf(result.frame), "none")) = "block"
    => result.action = "block"

\* A frame that the classifier calls an instruction does not pass unmarked.
InstructionIsMarked ==
    result # NoResult /\ result.classifier = "INSTRUCTION" => result.verdict # "PASS"

(* What the documents and comments say, and the code does not do.          *)

\* "hits the timeout 3x in a row, the circuit breaker opens"
SlowOllamaOpens == unanswered = Threshold => openedAt # Never

\* "Half-open is implicit on first try after the cool-down expires."
ProbeReopens ==
    [][ trippedAt # Never /\ failures' > failures => openedAt' # Never ]_vars

\* "INSTRUCTION-only signal warns rather than blocks"
InstructionOnlyWarns ==
    result # NoResult /\ result.judged /\ result.classifier = "INSTRUCTION"
    /\ HitsOf(result.frame) = {} => result.action = "warn"

\* "a trace=<hex> correlation id we also record on the audit row"
TraceIsRecorded ==
    result # NoResult /\ result.action = "block" => result.note = "trace"

\* "score = max(rules, classifier)"
AnswerIsCombined ==
    result # NoResult /\ result.judged /\ result.answer.label = "INSTRUCTION"
        => result.score >= 85
===============================================================================
