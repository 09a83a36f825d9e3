----------------------------- MODULE Commands_proofs -----------------------------
(***************************************************************************)
(* The commands beside the proxy.                                          *)
(*                                                                         *)
(* Follow: for any number of writers and any sizes, stream_events() shows  *)
(* rows that follow one another without a gap or a repetition.  Each poll  *)
(* begins after the cursor, and the cursor is the last row that was shown, *)
(* but only when all rows of the poll before have been: in between, after  *)
(* the initial rows were fetched, it is ahead of them.                     *)
(*                                                                         *)
(* Setup: for any rules, policies and configurations, any edits and any    *)
(* number of commands, the linter agrees with the loader, its trials keep  *)
(* apart, and a rehearsal that succeeds foretells the start.  What a       *)
(* command has found out of a thing is kept as a fact about the thing for  *)
(* as long as nobody edits it, from the moment at which it was read.       *)
(*                                                                         *)
(* Stats: each number of a report is timely, for any log and window, since *)
(* the rows that a query selects only become more; and an interpolated     *)
(* percentile is a quantile of any number of samples.                      *)
(***************************************************************************)
EXTENDS Follow, Setup, Stats, FiniteSetTheorems, SequenceTheorems,
        WellFoundedInduction, TLAPS

-------------------------------------------------------------------------------
(* Follow.                                                                 *)

TypeOK ==
    /\ table \in Nat /\ tx \in Nat /\ cursor \in Nat
    /\ pc \in {"seed", "yield"}
    /\ rows \in Seq(Nat) /\ shown \in Seq(Nat)

\* Each id is as far from each other one as their places are.
Consecutive(s) == \A i, j \in 1..Len(s) : s[j] = s[i] + (j - i)

OrderOK ==
    /\ Consecutive(rows) /\ Consecutive(shown)
    /\ pc = "seed" => rows = <<>> /\ shown = <<>>
    /\ rows # <<>> => cursor <= rows[Len(rows)]
    /\ rows # <<>> /\ shown # <<>> => rows[1] = shown[Len(shown)] + 1
    /\ rows = <<>> /\ shown # <<>> => cursor = shown[Len(shown)]

IInv == TypeOK /\ OrderOK

USE SizesAssumption DEF vars, viewer

\* Ids() is a sequence of consecutive ids.
LEMMA IdsInOrder ==
    ASSUME NEW first \in Nat, NEW last \in Nat
    PROVE  /\ Ids(first, last) \in Seq(Nat) /\ Consecutive(Ids(first, last))
           /\ Ids(first, last) # <<>> => 
                /\ first <= last
                /\ Ids(first, last)[1] = first
                /\ Ids(first, last)[Len(Ids(first, last))] = last
<1> DEFINE n == IF first > last THEN 0 ELSE last - first + 1
           s == [i \in 1..n |-> first + i - 1]
<1>1. n \in Nat
  OBVIOUS
<1>2. \A i \in 1..n : first + i - 1 \in Nat
  OBVIOUS
<1>3. Ids(first, last) = s
  BY DEF Ids
<1> HIDE DEF n
<1>4. s \in Seq(Nat) /\ Len(s) = n
  BY <1>1, <1>2
<1>5. \A i \in 1..n : s[i] = first + i - 1
  OBVIOUS
<1> HIDE DEF s
<1>6. Consecutive(s)
  BY <1>1, <1>4, <1>5 DEF Consecutive
<1>7. s # <<>> => n # 0
  BY <1>1, <1>4
<1>8. n # 0 => first <= last /\ s[1] = first /\ s[n] = last
  <2>1. n # 0 => first <= last /\ n = last - first + 1
    BY DEF n
  <2> QED BY <1>1, <1>5, <2>1
<1> QED BY <1>3, <1>4, <1>6, <1>7, <1>8

\* The smaller of two.
LEMMA LeastOfTwo ==
    ASSUME NEW a \in Nat, NEW b \in Nat PROVE Least(a, b) \in Nat /\ Least(a, b) <= b
  BY DEF Least

LEMMA InitIInv == Init => IInv
<1> SUFFICES ASSUME Init PROVE IInv
  OBVIOUS
<1>1. TypeOK
  BY DEF Init, TypeOK
<1>2. OrderOK
  BY DEF Init, OrderOK, Consecutive
<1> QED BY <1>1, <1>2 DEF IInv

LEMMA NextIInv == IInv /\ [Next]_vars => IInv'
<1> SUFFICES ASSUME IInv, [Next]_vars PROVE IInv'
  OBVIOUS
<1>0. TypeOK /\ OrderOK
  BY DEF IInv
<1>1. ASSUME NEW w \in Writers, Insert(w) \/ Finish(w) PROVE IInv'
  <2>1. table' \in Nat /\ tx' \in Nat /\ UNCHANGED viewer
    BY <1>0, <1>1 DEF Insert, Finish, TypeOK
  <2> QED BY <1>0, <2>1 DEF IInv, TypeOK, OrderOK, Consecutive
<1>2. CASE UNCHANGED vars
  BY <1>0, <1>2 DEF IInv, TypeOK, OrderOK, Consecutive
<1>3. CASE Seed
  <2>1. /\ rows' = Latest(InitialTail) /\ pc' = "yield" /\ UNCHANGED <<table, tx, shown>>
        /\ shown = <<>> /\ cursor' = IF rows' = <<>> THEN 0 ELSE rows'[Len(rows')]
    BY <1>0, <1>3 DEF Seed, OrderOK, Last
  <2> DEFINE first == table - Least(InitialTail, table) + 1
  <2>2. first \in Nat
    <3>1. table \in Nat /\ InitialTail \in Nat
      BY <1>0 DEF TypeOK
    <3>2. Least(InitialTail, table) \in Nat /\ Least(InitialTail, table) <= table
      BY <3>1, LeastOfTwo
    <3> QED BY <3>1, <3>2
  <2> HIDE DEF first
  <2>3. rows' = Ids(first, table)
    BY <2>1 DEF Latest, first
  <2>4. rows' \in Seq(Nat) /\ Consecutive(rows')
    BY <1>0, <2>2, <2>3, IdsInOrder DEF TypeOK
  <2>5. cursor' \in Nat
    <3>1. rows' # <<>> => rows'[Len(rows')] = table
      BY <1>0, <2>2, <2>3, IdsInOrder DEF TypeOK
    <3> QED BY <1>0, <2>1, <3>1 DEF TypeOK
  <2>6. rows' # <<>> => cursor' <= rows'[Len(rows')]
    BY <2>1, <2>5
  <2> QED BY <1>0, <2>1, <2>4, <2>5, <2>6 DEF IInv, TypeOK, OrderOK, Consecutive
<1>4. CASE Poll
  <2>1. rows = <<>> /\ rows' = Newer(cursor, Chunk) /\ UNCHANGED <<table, tx, pc, cursor, shown>>
        /\ pc = "yield"
    BY <1>4 DEF Poll
  <2> DEFINE last == Least(table, cursor + Chunk)
  <2>2. last \in Nat /\ cursor + 1 \in Nat
    <3>1. table \in Nat /\ cursor \in Nat /\ cursor + Chunk \in Nat
      BY <1>0 DEF TypeOK
    <3> QED BY <3>1, LeastOfTwo
  <2> HIDE DEF last
  <2>3. rows' = Ids(cursor + 1, last)
    BY <2>1 DEF Newer, last
  <2>4. /\ rows' \in Seq(Nat) /\ Consecutive(rows')
        /\ rows' # <<>> => cursor + 1 <= last /\ rows'[1] = cursor + 1 /\ rows'[Len(rows')] = last
    BY <2>2, <2>3, IdsInOrder
  <2>5. TypeOK'
    BY <1>0, <2>1, <2>4 DEF TypeOK
  <2>6. OrderOK'
    BY <1>0, <2>1, <2>2, <2>4 DEF OrderOK, TypeOK, Consecutive
  <2> QED BY <2>5, <2>6 DEF IInv
<1>5. CASE Yield
  <2> DEFINE n == Len(rows)
             m == Len(shown)
  <2>1. /\ rows # <<>> /\ shown' = Append(shown, rows[1]) /\ rows' = SubSeq(rows, 2, n)
        /\ cursor' = IF cursor > rows[1] THEN cursor ELSE rows[1]
        /\ UNCHANGED <<table, tx, pc>> /\ pc = "yield"
    BY <1>5 DEF Yield
  <2>2. n \in Nat \ {0} /\ m \in Nat /\ rows[1] \in Nat /\ rows[n] \in Nat
        /\ \A i \in 1..n : rows[i] \in Nat
    BY <1>0, <2>1 DEF TypeOK
  <2>3. shown' \in Seq(Nat) /\ Len(shown') = m + 1 /\ shown'[m + 1] = rows[1]
        /\ \A i \in 1..m : shown'[i] = shown[i]
    BY <1>0, <2>1, <2>2 DEF TypeOK
  <2>4. rows' \in Seq(Nat) /\ Len(rows') = n - 1 /\ \A i \in 1..(n - 1) : rows'[i] = rows[i + 1]
    <3>1. rows \in Seq(Nat) /\ n \in Nat /\ rows # <<>>
      BY <1>0, <2>1 DEF TypeOK
    <3>2. rows' = Tail(rows)
      BY <2>1, <3>1
    <3> QED BY <3>1, <3>2
  <2>5. cursor' \in Nat
    BY <1>0, <2>1, <2>2 DEF TypeOK
  <2>6. TypeOK'
    BY <1>0, <2>1, <2>3, <2>4, <2>5 DEF TypeOK
  <2>7. \A i, j \in 1..n : rows[j] = rows[i] + (j - i)
    BY <1>0 DEF OrderOK, Consecutive
  <2>8. rows[n] = rows[1] + (n - 1)
    <3>1. 1 \in 1..n /\ n \in 1..n
      BY <2>2
    <3> HIDE DEF n
    <3> QED BY <2>7, <3>1
  <2>9. cursor' <= rows[n] /\ cursor' >= rows[1]
    BY SMTT(30), <1>0, <2>1, <2>2, <2>8 DEF OrderOK, TypeOK
  <2>10. n > 1 => rows'[1] = rows[1] + 1 /\ rows'[n - 1] = rows[n]
    <3> SUFFICES ASSUME n > 1 PROVE rows'[1] = rows[1] + 1 /\ rows'[n - 1] = rows[n]
      OBVIOUS
    <3> HIDE DEF n
    <3>1. 1 \in 1..n /\ 2 \in 1..n /\ 1 \in 1..(n - 1) /\ n - 1 \in 1..(n - 1) /\ (n - 1) + 1 = n
      BY <2>2
    <3>2. rows[2] = rows[1] + (2 - 1) /\ rows'[1] = rows[1 + 1] /\ rows'[n - 1] = rows[(n - 1) + 1]
      BY <2>4, <2>7, <3>1
    <3> QED BY <2>2, <3>1, <3>2
  <2>11. Consecutive(rows')
    <3> SUFFICES ASSUME NEW i \in 1..(n - 1), NEW j \in 1..(n - 1)
                 PROVE  rows'[j] = rows'[i] + (j - i)
      BY <2>4 DEF Consecutive
    <3>1. i + 1 \in 1..n /\ j + 1 \in 1..n /\ (j + 1) - (i + 1) = j - i
      BY <2>2
    <3>2. rows[j + 1] = rows[i + 1] + ((j + 1) - (i + 1))
      BY <2>7, <3>1
    <3> QED BY <2>4, <3>1, <3>2
  <2>12. Consecutive(shown')
    <3>1. \A i, j \in 1..m : shown[j] = shown[i] + (j - i)
      BY <1>0 DEF OrderOK, Consecutive
    <3>2. m # 0 => rows[1] = shown[m] + 1 /\ \A i \in 1..m : shown[i] \in Nat
      <4>1. shown \in Seq(Nat) /\ rows # <<>>
        BY <1>0, <2>1 DEF TypeOK
      <4>2. m # 0 => shown # <<>>
        OBVIOUS
      <4>3. \A i \in 1..m : shown[i] \in Nat
        BY <4>1
      <4> QED BY <1>0, <4>1, <4>2, <4>3 DEF OrderOK
    <3>3. ASSUME NEW i \in 1..m PROVE rows[1] = shown[i] + (m + 1 - i)
      <4> HIDE DEF m
      <4>1. m \in 1..m /\ m # 0
        BY <2>2, <3>3
      <4>2. shown[m] = shown[i] + (m - i)
        BY <3>1, <4>1
      <4> QED BY <2>2, <3>2, <4>1, <4>2
    <3> SUFFICES ASSUME NEW i \in 1..(m + 1), NEW j \in 1..(m + 1)
                 PROVE  shown'[j] = shown'[i] + (j - i)
      BY <2>3 DEF Consecutive
    <3>4. CASE i \in 1..m /\ j \in 1..m
      BY <2>3, <3>1, <3>4
    <3>5. CASE i \in 1..m /\ j = m + 1
      BY <2>3, <3>3, <3>5
    <3>6. CASE i = m + 1 /\ j \in 1..m
      BY <2>2, <2>3, <3>2, <3>3, <3>6
    <3>7. CASE i = m + 1 /\ j = m + 1
      BY <2>2, <2>3, <3>7
    <3> QED BY <2>2, <3>4, <3>5, <3>6, <3>7
  <2>13. rows' # <<>> => n > 1
    BY <2>2, <2>4
  <2>14. rows' = <<>> => n = 1
    BY <2>2, <2>4
  <2>15. OrderOK'
    <3>1. shown' # <<>> /\ shown'[Len(shown')] = rows[1] /\ pc' = "yield"
      BY <2>1, <2>2, <2>3
    <3>2. rows' # <<>> => cursor' <= rows'[Len(rows')] /\ rows'[1] = rows[1] + 1
      BY <2>4, <2>9, <2>10, <2>13
    <3>3. rows' = <<>> => cursor' = rows[1]
      BY <2>1, <2>2, <2>5, <2>8, <2>9, <2>14
    <3> QED BY <2>11, <2>12, <3>1, <3>2, <3>3 DEF OrderOK
  <2> QED BY <2>6, <2>15 DEF IInv
<1> QED BY <1>1, <1>2, <1>3, <1>4, <1>5 DEF Next

\* The cursor and the rows of a poll are as the invariant says.
THEOREM Invariance == Spec => []IInv
  BY InitIInv, NextIInv, PTL DEF Spec

\* stream_events() leaves no row out and shows none twice, whatever is written
\* between two of its polls.
THEOREM RowsComeInOrder == Spec => []ShownInOrder
<1>1. IInv => ShownInOrder
  <2> SUFFICES ASSUME IInv, NEW i \in DOMAIN (shown \o rows) \ {1}
               PROVE  (shown \o rows)[i] = (shown \o rows)[i - 1] + 1
    BY DEF ShownInOrder
  <2> DEFINE n == Len(rows)
             m == Len(shown)
  <2>1. rows \in Seq(Nat) /\ shown \in Seq(Nat) /\ n \in Nat /\ m \in Nat
    BY DEF IInv, TypeOK
  <2>2. /\ DOMAIN (shown \o rows) = 1..(m + n)
        /\ \A k \in 1..(m + n) :
            (shown \o rows)[k] = IF k <= m THEN shown[k] ELSE rows[k - m]
    BY <2>1
  <2>3. i \in 2..(m + n) /\ i - 1 \in 1..(m + n)
    BY <2>1, <2>2
  <2>4. \A j, k \in 1..m : shown[k] = shown[j] + (k - j)
    BY DEF IInv, OrderOK, Consecutive
  <2>5. \A j, k \in 1..n : rows[k] = rows[j] + (k - j)
    BY DEF IInv, OrderOK, Consecutive
  <2>6. CASE i <= m
    <3>1. i \in 1..m /\ i - 1 \in 1..m
      BY <2>1, <2>3, <2>6
    <3>2. shown[i] = shown[i - 1] + (i - (i - 1))
      BY <2>4, <3>1
    <3> QED BY <2>1, <2>2, <2>3, <2>6, <3>1, <3>2
  <2>7. CASE i = m + 1
    <3>1. rows # <<>> /\ shown # <<>>
      BY <2>1, <2>3, <2>7
    <3>2. rows[1] = shown[m] + 1
      BY <3>1 DEF IInv, OrderOK
    <3> QED BY <2>1, <2>2, <2>3, <2>7, <3>2
  <2>8. CASE i > m + 1
    <3>1. i - m \in 1..n /\ (i - 1) - m \in 1..n
      BY <2>1, <2>3, <2>8
    <3>2. rows[i - m] = rows[(i - 1) - m] + ((i - m) - ((i - 1) - m))
      BY <2>5, <3>1
    <3>3. (i - m) - ((i - 1) - m) = 1
      BY <2>1, <2>3
    <3> QED BY SMTT(30), <2>1, <2>2, <2>3, <2>8, <3>2, <3>3
  <2> QED BY <2>1, <2>3, <2>6, <2>7, <2>8
<1> QED BY <1>1, Invariance, PTL

-------------------------------------------------------------------------------
(* Setup.                                                                  *)

Results == {"none", "ok", "pass", "warn", "fail", "failed", "missing", "raised",
            "busy", "no server"}

\* Where the strict linter stands once it has read the files.
Trials == {"next", "set", "try", "search", "finally", "restore"}

\* Which command can stand where.
PlaceOK ==
    \/ cmd = "none" /\ step = "idle"
    \/ cmd \in {"doctor", "detect", "run"} /\ step = "resolve"
    \/ cmd \in {"detect", "run"} /\ step \in {"open", "rules", "policy"}
    \/ cmd = "run" /\ step \in {"session", "spawn", "patch"}
    \/ /\ cmd = "doctor"
       /\ step \in {"environment", "database", "check rules", "check load", "check policy"}
    \/ cmd \in {"lint", "strict"} /\ step = "lint"
    \/ cmd = "strict" /\ step \in Trials

Flags == [detector : {"unset", "on", "off"}, policies : BOOLEAN, server : Servers]

SetupTypeOK ==
    /\ outcome \in [Commands -> Results]
    /\ current \in [Commands -> SUBSET Things]
    /\ flags \in [Commands -> Flags]
    /\ ~flags["doctor"].policies
    /\ \A c \in Commands \ {"run"} : flags[c].server = "starts"
    /\ config.rules \in {"default", "custom"}
    /\ \A f \in DOMAIN place.files : place.files[f].form \in Forms
    /\ tripped \in BOOLEAN

\* A signal that is on its way holds up the trial it belongs to.
TimerInv ==
    /\ timer = "on" => step \in {"try", "search", "finally"} /\ ~tripped
    /\ tripped => step \in {"try", "search", "finally", "restore"}
    /\ step \in {"lint", "next"} => handler = "default"

\* What the linter said of rules that nobody has edited is true of them.
LintInv ==
    /\ cmd = "strict" /\ step = "lint" => outcome["strict"] = "none"
    /\ "rules" \in current["lint"] =>
        /\ outcome["lint"] = "pass" => ~LintRaises(place) /\ LintErrors(place) = {}
        /\ outcome["lint"] = "fail" => LintErrors(place) # {}
        /\ outcome["lint"] = "raised" => LintRaises(place)
    /\ "rules" \in current["strict"] =>
        /\ outcome["strict"] = "pass" => ~LintRaises(place) /\ LintErrors(place) = {}
        /\ step \in Trials => read = place /\ ~LintRaises(place)

\* The policy that a command uses, as far as its flags go, would load.
OriginOf(c) ==
    IF flags[c].policies THEN "given"
    ELSE IF config.policies THEN "configured" ELSE "built-in"

PolicySuits(c) == OriginOf(c) = "built-in" \/ policies[OriginOf(c)] = "sound"

\* What doctor has seen of things that nobody has edited since.
DoctorInv ==
    /\ cmd = "doctor" /\ step # "resolve" /\ "config" \in current["doctor"] => config.sound
    /\ step = "check policy" /\ {"config", "rules"} \subseteq current["doctor"] => RulesLoad
    /\ /\ step \in {"check rules", "check load", "check policy"}
       /\ "fail" \notin checks /\ "db" \in current["doctor"]
       => db # "unwritable"
    /\ cmd = "doctor" => outcome["doctor"] = "none"
    /\ outcome["doctor"] \in {"pass", "warn"} /\ current["doctor"] = Things =>
        RulesLoad /\ PolicySuits("doctor") /\ db # "unwritable" /\ config.sound

\* The same of detect.
DetectInv ==
    /\ cmd = "detect" /\ step # "resolve" /\ "config" \in current["detect"] => config.sound
    /\ /\ cmd = "detect" /\ step \in {"policy", "open"}
       /\ {"config", "rules"} \subseteq current["detect"]
       => RulesLoad
    /\ /\ cmd = "detect" /\ step = "open"
       /\ {"config", "policy"} \subseteq current["detect"]
       => PolicySuits("detect")
    /\ cmd = "detect" => outcome["detect"] = "none"
    /\ outcome["detect"] = "ok" /\ current["detect"] = Things =>
        RulesLoad /\ PolicySuits("detect") /\ db # "unwritable" /\ config.sound

SetupIInv == PlaceOK /\ SetupTypeOK /\ TimerInv /\ LintInv /\ DoctorInv /\ DetectInv

USE DEF Commands, Things, Trials, setupVars, world, command, probe

\* What the linter has nothing against, the loader loads, unless an id occurs
\* twice (lint.py: _lint_one, detectors/rules.py: from_directory).
LEMMA PassedLoads ==
    ASSUME NEW p, p.kind = "directory",
           \A f \in DOMAIN p.files : p.files[f].form \in Forms,
           ~LintRaises(p), LintErrors(p) = {}
    PROVE  Loads(p) \/ ~DistinctIds(p)
<1>1. \A f \in DOMAIN p.files : p.files[f].form = "rules"
  <2> TAKE f \in DOMAIN p.files
  <2>1. p.files[f].form # "undecodable"
    BY DEF LintRaises
  <2>2. ~Unusable(p.files[f])
    BY DEF LintErrors
  <2> QED BY <2>1, <2>2 DEF Unusable, Forms
<1>2. \A r \in RulesOf(p) : Compiles(RuleAt(p, r[1], r[2]))
  BY DEF LintErrors
<1> QED BY <1>1, <1>2 DEF Loads

\* The linter has nothing against what the loader loads, if there is a file.
LEMMA LoadedPasses ==
    ASSUME NEW p, Loads(p), p.files # <<>>
    PROVE  ~LintRaises(p) /\ LintErrors(p) = {}
<1>1. \A f \in DOMAIN p.files : p.files[f].form = "rules"
  BY DEF Loads
<1>2. \A r \in RulesOf(p) : Compiles(RuleAt(p, r[1], r[2]))
  BY DEF Loads
<1>3. ~LintRaises(p)
  <2>1. \A r \in RulesOf(p) : ~CompileRaises(RuleAt(p, r[1], r[2]))
    BY <1>2 DEF Compiles, CompileRaises, Directions, Unhashable
  <2> QED BY <1>1, <2>1 DEF LintRaises
<1>4. LintErrors(p) = {}
  <2>1. {<<>> : x \in {p.files} \cap {<<>>}} = {}
    OBVIOUS
  <2>2. {<<f>> : f \in {g \in DOMAIN p.files : Unusable(p.files[g])}} = {}
    BY <1>1 DEF Unusable
  <2>3. {r \in RulesOf(p) : ~Compiles(RuleAt(p, r[1], r[2]))} = {}
    BY <1>2
  <2> QED BY <2>1, <2>2, <2>3 DEF LintErrors
<1> QED BY <1>3, <1>4

LEMMA SetupInitHolds == SetupInit => SetupIInv
<1> SUFFICES ASSUME SetupInit PROVE SetupIInv
  OBVIOUS
<1>1. PlaceOK /\ TimerInv
  BY DEF SetupInit, PlaceOK, TimerInv
<1>2. SetupTypeOK
  <2>1. PICK w \in Worlds :
            place = w.place /\ policies = w.policies /\ config = w.config /\ db = w.db
    BY DEF SetupInit
  <2> QED BY <2>1, WorldsAssumption DEF SetupInit, SetupTypeOK, Results, Flags, Servers
<1>3. LintInv /\ DoctorInv /\ DetectInv
  BY DEF SetupInit, LintInv, DoctorInv, DetectInv
<1> QED BY <1>1, <1>2, <1>3 DEF SetupIInv

LEMMA PlaceStep == PlaceOK /\ SetupTypeOK /\ [SetupNext]_setupVars => PlaceOK'
<1> SUFFICES ASSUME PlaceOK, SetupTypeOK, [SetupNext]_setupVars PROVE PlaceOK'
  OBVIOUS
<1> USE DEF PlaceOK, Goes, Ends
<1>1. ASSUME NEW c \in Commands, Begin(c) PROVE PlaceOK'
  BY <1>1 DEF Begin
<1>2. CASE Resolve
  BY <1>2 DEF Resolve, SetupTypeOK
<1>3. CASE Open \/ StartSession \/ Spawn \/ PatchPid
  BY <1>3 DEF Open, StartSession, Spawn, PatchPid, GoesOrEnds
<1>4. CASE LoadRules
  BY <1>4 DEF LoadRules
<1>5. CASE LoadPolicy
  BY <1>5 DEF LoadPolicy
<1>6. CASE Doctor
  <2>1. CASE CheckRules
    BY <2>1 DEF CheckRules, EndDoctor, SetupTypeOK
  <2> QED
    BY <1>6, <2>1 DEF Doctor, CheckEnvironment, CheckDb, CheckLoad, CheckPolicy, EndDoctor
<1>7. CASE Lint
  BY <1>7 DEF Lint
<1>8. CASE Install \/ SetTimer \/ Try \/ Search \/ StopTimer \/ Restore
  BY <1>8 DEF Install, SetTimer, Try, Search, StopTimer, Restore
<1>9. CASE Alarm \/ Handle \/ EndLint
  BY <1>9 DEF Alarm, Handle, EndLint
<1>10. CASE Edit
  BY <1>10 DEF Edit
<1>11. CASE UNCHANGED setupVars
  BY <1>11
<1> QED
  BY <1>1, <1>2, <1>3, <1>4, <1>5, <1>6, <1>7, <1>8, <1>9, <1>10, <1>11
  DEF SetupNext, Start, Linter

\* The reads of a command are its own, and its end ends no other.
LEMMA ReadsOwn ==
    ASSUME SetupTypeOK, cmd \in Commands, NEW things \in SUBSET Things, Reads(things)
    PROVE  /\ current' \in [Commands -> SUBSET Things]
           /\ current'[cmd] = current[cmd] \cup things
           /\ \A c \in Commands : c # cmd => current'[c] = current[c]
BY DEF Reads, SetupTypeOK

LEMMA EndsOwn ==
    ASSUME SetupTypeOK, cmd \in Commands, NEW how \in Results, Ends(how)
    PROVE  /\ outcome' \in [Commands -> Results]
           /\ outcome'[cmd] = how
           /\ \A c \in Commands : c # cmd => outcome'[c] = outcome[c]
BY DEF Ends, SetupTypeOK

\* doctor reports the worst of its results.
LEMMA OverallResult ==
    ASSUME NEW results
    PROVE  /\ Overall(results) \in Results
           /\ Overall(results) \in {"pass", "warn"} <=> "fail" \notin results
BY DEF Overall, Results

LEMMA TypeStep == PlaceOK /\ SetupTypeOK /\ [SetupNext]_setupVars => SetupTypeOK'
<1> SUFFICES ASSUME PlaceOK, SetupTypeOK, [SetupNext]_setupVars PROVE SetupTypeOK'
  OBVIOUS
<1> USE DEF Goes
<1>1. ASSUME NEW c \in Commands, Begin(c) PROVE SetupTypeOK'
  <2>1. PICK f \in [detector : IF c = "run" THEN {"unset", "on", "off"} ELSE {"unset"},
                    policies : IF c \in {"run", "detect"} THEN BOOLEAN ELSE {FALSE},
                    server : IF c = "run" THEN Servers ELSE {"starts"}] :
            flags' = [flags EXCEPT ![c] = f]
    BY <1>1 DEF Begin
  <2>2. f \in Flags /\ (c = "doctor" => ~f.policies) /\ (c # "run" => f.server = "starts")
    BY DEF Flags, Servers
  <2>3. /\ flags' \in [Commands -> Flags] /\ ~flags'["doctor"].policies
        /\ \A d \in Commands \ {"run"} : flags'[d].server = "starts"
    BY <2>1, <2>2 DEF SetupTypeOK
  <2>4. outcome' \in [Commands -> Results] /\ current' \in [Commands -> SUBSET Things]
    BY <1>1 DEF Begin, SetupTypeOK, Results
  <2> QED BY <1>1, <2>3, <2>4 DEF Begin, SetupTypeOK
<1>2. CASE Start
  <2>1. cmd \in Commands
    BY <1>2 DEF Start, Resolve, Open, StartSession, Spawn, PatchPid, GoesOrEnds,
       Same, LoadRules, LoadPolicy, PlaceOK
  <2>2. current' \in [Commands -> SUBSET Things]
    <3>1. current' = current \/ \E things \in SUBSET Things : Reads(things)
      BY <1>2 DEF Start, Resolve, Open, StartSession, Spawn, PatchPid, Same, LoadRules, LoadPolicy
    <3> QED BY <2>1, <3>1, ReadsOwn DEF SetupTypeOK
  <2>3. outcome' \in [Commands -> Results]
    <3>1. outcome' = outcome \/ \E how \in Results : outcome' = [outcome EXCEPT ![cmd] = how]
      BY <1>2 DEF Start, Resolve, Open, StartSession, Spawn, PatchPid, GoesOrEnds,
         LoadRules, LoadPolicy, Ends, PlaceOK, Results
    <3> QED BY <2>1, <3>1 DEF SetupTypeOK
  <2>4. UNCHANGED <<flags, config, place, tripped>>
    BY <1>2, <2>1 DEF Start, Resolve, Open, StartSession, Spawn, PatchPid, GoesOrEnds,
       Same, LoadRules, LoadPolicy, Ends, PlaceOK
  <2> QED BY <2>2, <2>3, <2>4 DEF SetupTypeOK
<1>3. CASE Doctor
  <2>1. cmd = "doctor"
    BY <1>3 DEF Doctor, CheckEnvironment, CheckDb, CheckRules, CheckLoad, CheckPolicy, PlaceOK
  <2>2. current' \in [Commands -> SUBSET Things]
    BY <1>3, <2>1, ReadsOwn DEF Doctor, CheckEnvironment, CheckDb, CheckRules, CheckLoad,
       CheckPolicy, SetupTypeOK
  <2>3. outcome' \in [Commands -> Results] /\ UNCHANGED flags
    <3>1. CASE CheckRules
      BY <2>1, <3>1, OverallResult, EndsOwn DEF CheckRules, EndDoctor, Ends, SetupTypeOK, Results
    <3>2. CASE CheckLoad \/ CheckPolicy
      BY <2>1, <3>2, OverallResult, EndsOwn DEF CheckLoad, CheckPolicy, EndDoctor, Ends, SetupTypeOK
    <3> QED BY <1>3, <3>1, <3>2 DEF Doctor, CheckEnvironment, CheckDb, SetupTypeOK
  <2>4. UNCHANGED <<config, place, tripped>>
    BY <1>3 DEF Doctor, CheckEnvironment, CheckDb, CheckRules, CheckLoad, CheckPolicy
  <2> QED BY <2>2, <2>3, <2>4 DEF SetupTypeOK
<1>4. CASE Lint
  <2>1. cmd \in {"lint", "strict"} /\ Verdict(place) \in Results
    BY <1>4 DEF Lint, PlaceOK, Verdict, Results
  <2>2. current' \in [Commands -> SUBSET Things]
    BY <1>4, <2>1, ReadsOwn DEF Lint
  <2>3. outcome' \in [Commands -> Results] /\ UNCHANGED flags
    BY <1>4, <2>1, EndsOwn DEF Lint, Ends, SetupTypeOK, Results
  <2> QED BY <1>4, <2>2, <2>3 DEF Lint, SetupTypeOK
<1>5. CASE Install \/ SetTimer \/ Try \/ Search \/ StopTimer \/ Restore \/ Alarm
  BY <1>5 DEF Install, SetTimer, Try, Search, StopTimer, Restore, Alarm, Still, SetupTypeOK
<1>6. CASE Handle \/ EndLint
  <2>1. cmd \in Commands \/ step = "idle"
    BY DEF PlaceOK
  <2>2. cmd \in Commands
    BY <1>6, <2>1 DEF Handle, EndLint
  <2>3. outcome' \in [Commands -> Results] /\ UNCHANGED flags
    <3>1. Verdict(read) \in Results
      BY DEF Verdict, Results
    <3> QED BY <1>6, <2>2, <3>1, EndsOwn DEF Handle, EndLint, Ends, SetupTypeOK, Results
  <2> QED BY <1>6, <2>3 DEF Handle, EndLint, SetupTypeOK
<1>7. CASE Edit
  <2>1. PICK w \in Edited :
            /\ place' \in {place, w.place}
            /\ config' \in {config, w.config}
            /\ \E thing \in Things : Changed(thing)
    BY <1>7 DEF Edit
  <2>2. current' \in [Commands -> SUBSET Things]
    BY <2>1 DEF Changed, SetupTypeOK
  <2>3. config'.rules \in {"default", "custom"}
    BY <2>1, WorldsAssumption DEF SetupTypeOK
  <2>4. \A f \in DOMAIN place'.files : place'.files[f].form \in Forms
    BY <2>1, WorldsAssumption DEF SetupTypeOK
  <2> QED BY <1>7, <2>2, <2>3, <2>4 DEF Edit, SetupTypeOK
<1>8. CASE UNCHANGED setupVars
  BY <1>8 DEF SetupTypeOK
<1> QED
  BY <1>1, <1>2, <1>3, <1>4, <1>5, <1>6, <1>7, <1>8 DEF SetupNext, Linter

\* The timer of a trial is off before its signal can be handled anywhere else.
LEMMA TimerStep ==
    PlaceOK /\ SetupTypeOK /\ TimerInv /\ [SetupNext]_setupVars => TimerInv'
<1> SUFFICES ASSUME PlaceOK, SetupTypeOK, TimerInv, [SetupNext]_setupVars PROVE TimerInv'
  OBVIOUS
<1> USE DEF Goes, Ends, TimerInv
<1>1. ASSUME NEW c \in Commands, Begin(c) PROVE TimerInv'
  BY <1>1 DEF Begin
<1>2. CASE Start \/ Doctor
  <2>1. UNCHANGED <<timer, tripped, handler>>
    BY <1>2 DEF Start, Resolve, Open, StartSession, Spawn, PatchPid, GoesOrEnds,
       Same, LoadRules, LoadPolicy, Doctor, CheckEnvironment,
       CheckDb, CheckRules, CheckLoad, CheckPolicy
  <2>2. step \notin Trials /\ step' \notin {"lint", "next"}
    <3>1. CASE CheckRules
      BY <3>1 DEF CheckRules, EndDoctor, SetupTypeOK
    <3> QED
      BY <1>2, <3>1 DEF Start, Resolve, Open, StartSession, Spawn, PatchPid, GoesOrEnds,
       Same, LoadRules, LoadPolicy, Doctor, CheckEnvironment,
         CheckDb, CheckRules, CheckLoad, CheckPolicy, EndDoctor, PlaceOK
  <2> QED BY <2>1, <2>2
<1>3. CASE Lint
  BY <1>3 DEF Lint
<1>4. CASE Install \/ SetTimer \/ Try \/ Search \/ StopTimer \/ Restore
  BY <1>4 DEF Install, SetTimer, Try, Search, StopTimer, Restore
<1>5. CASE Alarm \/ Handle \/ EndLint
  BY <1>5 DEF Alarm, Handle, EndLint
<1>6. CASE Edit \/ UNCHANGED setupVars
  BY <1>6 DEF Edit
<1> QED
  BY <1>1, <1>2, <1>3, <1>4, <1>5, <1>6 DEF SetupNext, Linter

\* A verdict is one on the rules as they were read, and is forgotten when the
\* rules are edited.
LEMMA LintStep ==
    PlaceOK /\ SetupTypeOK /\ TimerInv /\ LintInv /\ [SetupNext]_setupVars => LintInv'
<1> SUFFICES ASSUME PlaceOK, SetupTypeOK, TimerInv, LintInv, [SetupNext]_setupVars
             PROVE  LintInv'
  OBVIOUS
<1> DEFINE Said(c) == <<outcome[c], current[c]>>
<1>0. ASSUME UNCHANGED place, Said("lint")' = Said("lint"), Said("strict")' = Said("strict"),
             step' \in Trials => step \in Trials /\ UNCHANGED read,
             step' # "lint" \/ UNCHANGED <<cmd, step>>
      PROVE  LintInv'
  BY <1>0 DEF LintInv
<1>1. ASSUME NEW c \in Commands, Begin(c) PROVE LintInv'
  <2>1. current' = [current EXCEPT ![c] = {}] /\ outcome' = [outcome EXCEPT ![c] = "none"]
        /\ UNCHANGED place /\ step' \notin Trials /\ cmd' = c
    BY <1>1 DEF Begin
  <2> QED BY <2>1 DEF LintInv, SetupTypeOK
<1>2. CASE Start \/ Doctor
  <2>1. cmd \in {"doctor", "detect", "run"} /\ step \notin Trials
    BY <1>2 DEF Start, Resolve, Open, StartSession, Spawn, PatchPid, GoesOrEnds,
       Same, LoadRules, LoadPolicy, Doctor, CheckEnvironment,
       CheckDb, CheckRules, CheckLoad, CheckPolicy, PlaceOK
  <2>2. UNCHANGED place /\ step' \notin Trials /\ step' # "lint"
    <3>1. CASE CheckRules
      BY <3>1 DEF CheckRules, EndDoctor, SetupTypeOK, Goes, Ends
    <3> QED
      BY <1>2, <2>1, <3>1 DEF Start, Resolve, Open, StartSession, Spawn, PatchPid, GoesOrEnds,
       Same, LoadRules, LoadPolicy, Doctor,
         CheckEnvironment, CheckDb, CheckRules, CheckLoad, CheckPolicy, EndDoctor, PlaceOK,
         Goes, Ends
  <2>3. current' = current \/ \E things : Reads(things)
    BY <1>2 DEF Start, Resolve, Open, StartSession, Spawn, PatchPid, GoesOrEnds,
       Same, LoadRules, LoadPolicy, Doctor, CheckEnvironment,
       CheckDb, CheckRules, CheckLoad, CheckPolicy
  <2>4. outcome' = outcome \/ \E how : outcome' = [outcome EXCEPT ![cmd] = how]
    <3>1. CASE CheckRules
      BY <3>1 DEF CheckRules, EndDoctor, SetupTypeOK, Ends
    <3> QED
      BY <1>2, <2>1, <3>1 DEF Start, Resolve, Open, StartSession, Spawn, PatchPid, GoesOrEnds,
       Same, LoadRules, LoadPolicy, Doctor,
         CheckEnvironment, CheckDb, CheckLoad, CheckPolicy, EndDoctor, Ends, PlaceOK
  <2>5. Said("lint")' = Said("lint") /\ Said("strict")' = Said("strict")
    BY <2>1, <2>3, <2>4 DEF Reads, SetupTypeOK
  <2> QED BY <1>0, <2>2, <2>5
<1>3. CASE Lint
  <2>1. /\ cmd \in {"lint", "strict"} /\ step = "lint"
        /\ UNCHANGED <<place, slow>> /\ read' = place /\ Reads({"rules"})
    BY <1>3 DEF Lint, PlaceOK
  <2>2. \A c \in Commands : c # cmd => current'[c] = current[c]
    BY <2>1, ReadsOwn
  <2>3. \/ /\ LintRaises(place) /\ outcome' = [outcome EXCEPT ![cmd] = "raised"]
           /\ step' = "idle"
        \/ /\ ~LintRaises(place) /\ cmd = "lint" /\ step' = "idle"
           /\ outcome' = [outcome EXCEPT ![cmd] = Verdict(place)]
        \/ ~LintRaises(place) /\ cmd = "strict" /\ step' = "next" /\ UNCHANGED outcome
    BY <1>3, <2>1 DEF Lint, Ends, Goes
  <2>4. cmd = "lint" => Verdict(place) = IF LintErrors(place) # {} THEN "fail" ELSE "pass"
    BY DEF Verdict
  <2>5. CASE cmd = "lint"
    BY <2>1, <2>2, <2>3, <2>4, <2>5 DEF LintInv, SetupTypeOK
  <2>6. CASE cmd = "strict"
    <3>1. outcome["strict"] = "none"
      BY <2>1, <2>6 DEF LintInv
    <3> QED BY <2>1, <2>2, <2>3, <2>6, <3>1 DEF LintInv, SetupTypeOK
  <2> QED BY <2>1, <2>5, <2>6
<1>4. CASE Install \/ SetTimer \/ Try \/ Search \/ StopTimer \/ Restore \/ Alarm
  BY <1>0, <1>4 DEF Install, SetTimer, Try, Search, StopTimer, Restore, Alarm, Still, Goes,
     TimerInv
<1>5. CASE Handle
  <2>1. cmd = "strict" /\ step \in Trials
    BY <1>5 DEF Handle, TimerInv, PlaceOK
  <2>2. /\ UNCHANGED <<place, read, current>>
        /\ outcome' = outcome \/ outcome' = [outcome EXCEPT !["strict"] = "raised"]
        /\ step' # "lint"
    BY <1>5, <2>1 DEF Handle, Ends, Goes
  <2> QED BY <2>1, <2>2 DEF LintInv, SetupTypeOK
<1>6. CASE EndLint
  <2>1. cmd = "strict" /\ step \in Trials
    BY <1>6 DEF EndLint, PlaceOK
  <2>2. /\ UNCHANGED <<place, read, current>> /\ step' = "idle"
        /\ outcome' = [outcome EXCEPT !["strict"] = Verdict(read)]
    BY <1>6, <2>1 DEF EndLint, Ends
  <2>3. Verdict(read) = "pass" => LintErrors(read) = {}
    BY DEF Verdict
  <2> QED BY <2>1, <2>2, <2>3 DEF LintInv, SetupTypeOK
<1>7. CASE Edit
  <2>1. UNCHANGED <<outcome, cmd, step, read>>
    BY <1>7 DEF Edit
  <2>2. \/ Changed("rules")
        \/ UNCHANGED place /\ \E thing \in Things \ {"rules"} : Changed(thing)
    BY <1>7 DEF Edit
  <2> QED BY <2>1, <2>2 DEF Changed, LintInv, SetupTypeOK
<1>8. CASE UNCHANGED setupVars
  BY <1>0, <1>8
<1> QED
  BY <1>1, <1>2, <1>3, <1>4, <1>5, <1>6, <1>7, <1>8 DEF SetupNext, Linter

\* The first steps of run and detect, and the linter, are no steps of doctor;
\* a file that cannot be written remains one, and no other becomes one.
LEMMA StartSteps ==
    ASSUME PlaceOK, SetupTypeOK, Start
    PROVE  /\ cmd \in {"doctor", "detect", "run"} /\ (cmd = "doctor" => Resolve)
           /\ cmd' \in {cmd, "none"}
           /\ UNCHANGED <<place, policies, config, flags>>
           /\ db' = "unwritable" <=> db = "unwritable"
           /\ \A c \in Commands \ {cmd} : outcome'[c] = outcome[c] /\ current'[c] = current[c]
<1>1. cmd \in {"doctor", "detect", "run"} /\ (cmd = "doctor" => Resolve)
  BY DEF Start, Resolve, Open, StartSession, Spawn, PatchPid, LoadRules, LoadPolicy, PlaceOK
<1>2. current' = current \/ \E things \in SUBSET Things : Reads(things)
  BY DEF Start, Resolve, Open, StartSession, Spawn, PatchPid, Same, LoadRules, LoadPolicy
<1>3. /\ outcome' = outcome \/ \E how : outcome' = [outcome EXCEPT ![cmd] = how]
      /\ cmd' \in {cmd, "none"} /\ UNCHANGED flags
  BY <1>1 DEF Start, Resolve, Open, StartSession, Spawn, PatchPid, GoesOrEnds, LoadRules,
     LoadPolicy, Goes, Ends
<1>4. UNCHANGED <<place, policies, config>> /\ (db' = "unwritable" <=> db = "unwritable")
  BY DEF Start, Resolve, Open, Opened, LeftBehind, StartSession, Spawn, PatchPid, Same,
     LoadRules, LoadPolicy
<1>5. \A c \in Commands \ {cmd} : outcome'[c] = outcome[c]
  BY <1>1, <1>3 DEF SetupTypeOK
<1>6. \A c \in Commands \ {cmd} : current'[c] = current[c]
  BY <1>1, <1>2, ReadsOwn DEF SetupTypeOK
<1> QED BY <1>1, <1>3, <1>4, <1>5, <1>6

LEMMA LinterSteps ==
    ASSUME PlaceOK, SetupTypeOK, TimerInv, Linter
    PROVE  /\ cmd \in {"lint", "strict"} /\ step' \in Trials \cup {"idle"}
           /\ UNCHANGED <<place, policies, config, db, flags, checks>>
           /\ cmd' \in {cmd, "none"}
           /\ \A c \in Commands \ {cmd} : outcome'[c] = outcome[c] /\ current'[c] = current[c]
<1> USE DEF Goes, Ends
<1>1. CASE Lint
  <2>1. cmd \in {"lint", "strict"} /\ Reads({"rules"})
    BY <1>1 DEF Lint, PlaceOK
  <2>2. \A c \in Commands \ {cmd} : outcome'[c] = outcome[c]
    <3>1. outcome' = outcome \/ \E how : outcome' = [outcome EXCEPT ![cmd] = how]
      BY <1>1, <2>1 DEF Lint
    <3> QED BY <2>1, <3>1 DEF SetupTypeOK
  <2> QED BY <1>1, <2>1, <2>2, ReadsOwn DEF Lint
<1>2. CASE Install \/ SetTimer \/ Try \/ Search \/ StopTimer \/ Restore
  BY <1>2 DEF Install, SetTimer, Try, Search, StopTimer, Restore, Still, PlaceOK
<1>3. CASE Alarm
  BY <1>3 DEF Alarm, TimerInv, PlaceOK
<1>4. CASE Handle \/ EndLint
  <2>1. cmd = "strict" /\ step \in Trials
    BY <1>4 DEF Handle, EndLint, TimerInv, PlaceOK
  <2>2. outcome' = outcome \/ \E how : outcome' = [outcome EXCEPT ![cmd] = how]
    BY <1>4 DEF Handle, EndLint
  <2>3. \A c \in Commands \ {cmd} : outcome'[c] = outcome[c]
    BY <2>1, <2>2 DEF SetupTypeOK
  <2> QED BY <1>4, <2>1, <2>3 DEF Handle, EndLint
<1> QED BY <1>1, <1>2, <1>3, <1>4 DEF Linter

\* Nothing that doctor has read fails, as long as it says so.
LEMMA DoctorStep ==
    PlaceOK /\ SetupTypeOK /\ TimerInv /\ DoctorInv /\ [SetupNext]_setupVars => DoctorInv'
<1> SUFFICES ASSUME PlaceOK, SetupTypeOK, TimerInv, DoctorInv, [SetupNext]_setupVars
             PROVE  DoctorInv'
  OBVIOUS
<1> DEFINE Checking == {"check rules", "check load", "check policy"}
<1>0. ASSUME UNCHANGED <<place, policies, config, flags>>,
             outcome'["doctor"] = outcome["doctor"], current'["doctor"] = current["doctor"],
             db' = "unwritable" => db = "unwritable",
             step' \notin Checking \/ UNCHANGED <<step, checks>>,
             cmd' # "doctor" \/ (cmd = "doctor" /\ (step = "resolve" => step' = "resolve"))
      PROVE  DoctorInv'
  <2>1. RulesLoad' = RulesLoad /\ PolicySuits("doctor")' = PolicySuits("doctor")
    BY <1>0 DEF RulesLoad, PolicySuits, OriginOf
  <2> QED BY <1>0, <2>1 DEF DoctorInv
<1>1. ASSUME NEW c \in Commands, Begin(c) PROVE DoctorInv'
  <2>1. /\ current' = [current EXCEPT ![c] = {}] /\ outcome' = [outcome EXCEPT ![c] = "none"]
        /\ UNCHANGED <<place, policies, config, db>> /\ step' \notin Checking /\ cmd' = c
        /\ \E f : flags' = [flags EXCEPT ![c] = f]
    BY <1>1 DEF Begin
  <2>2. CASE c = "doctor"
    BY <2>1, <2>2 DEF DoctorInv, SetupTypeOK
  <2>3. CASE c # "doctor"
    <3>1. flags'["doctor"] = flags["doctor"]
      BY <2>1, <2>3 DEF SetupTypeOK
    <3>2. RulesLoad' = RulesLoad /\ PolicySuits("doctor")' = PolicySuits("doctor")
      BY <2>1, <3>1 DEF RulesLoad, PolicySuits, OriginOf
    <3> QED BY <2>1, <2>3, <3>2 DEF DoctorInv, SetupTypeOK
  <2> QED BY <2>2, <2>3
<1>2. CASE Start
  <2>1. step' \notin Checking
    BY <1>2, StartSteps DEF Start, Resolve, Open, StartSession, Spawn, PatchPid, GoesOrEnds,
       LoadRules, LoadPolicy, Goes, Ends, PlaceOK
  <2>2. CASE cmd # "doctor"
    BY <1>0, <1>2, <2>1, <2>2, StartSteps
  <2>3. CASE Resolve /\ cmd = "doctor"
    <3>1. \/ outcome'["doctor"] = outcome["doctor"] /\ outcome["doctor"] = "none" /\ config.sound
          \/ outcome'["doctor"] \in {"missing", "raised"} /\ cmd' = "none"
      BY <2>3 DEF Resolve, Goes, Ends, SetupTypeOK, DoctorInv
    <3> QED BY <1>2, <2>1, <3>1, StartSteps DEF DoctorInv
  <2> QED BY <1>2, <2>2, <2>3, StartSteps
<1>3. CASE Linter
  BY <1>0, <1>3, LinterSteps
<1>4. CASE CheckEnvironment
  <2>1. cmd = "doctor" /\ cmd' = cmd /\ step = "environment" /\ step' = "database"
        /\ UNCHANGED <<outcome, current, world, flags>>
    BY <1>4 DEF CheckEnvironment, Goes, PlaceOK
  <2> QED BY <1>0, <2>1
<1>5. CASE CheckDb
  <2>1. /\ cmd = "doctor" /\ step' = "check rules"
        /\ UNCHANGED <<outcome, place, policies, config, flags>>
        /\ db' = Opened \/ db' \in LeftBehind
        /\ db = "unwritable" => "fail" \in checks'
        /\ Reads({"db"})
    BY <1>5 DEF CheckDb, Goes, PlaceOK
  <2>2. outcome["doctor"] = "none"
    BY <2>1 DEF DoctorInv
  <2>3. db' = "unwritable" => db = "unwritable"
    BY <2>1 DEF Opened, LeftBehind
  <2>4. "config" \in current'["doctor"] => "config" \in current["doctor"]
    <3>1. current'["doctor"] = current["doctor"] \cup {"db"}
      BY <2>1, ReadsOwn
    <3> QED BY <3>1
  <2> QED BY <1>5, <2>1, <2>2, <2>3, <2>4 DEF DoctorInv, CheckDb
<1>6. CASE CheckRules
  <2>1. cmd = "doctor" /\ UNCHANGED <<world, flags, current, checks>>
    BY <1>6 DEF CheckRules, EndDoctor, SetupTypeOK, Goes, Ends, PlaceOK
  <2>2. \/ step' = "check load" /\ UNCHANGED outcome
        \/ /\ step' = "idle" /\ cmd' = "none"
           /\ outcome' = [outcome EXCEPT !["doctor"] = "raised"]
        \/ /\ step' = "idle" /\ cmd' = "none"
           /\ outcome' = [outcome EXCEPT !["doctor"] = Overall(checks \cup {"fail"})]
    BY <1>6, <2>1 DEF CheckRules, EndDoctor, SetupTypeOK, Goes, Ends
  <2>3. Overall(checks \cup {"fail"}) = "fail"
    BY DEF Overall
  <2>4. \/ outcome'["doctor"] = "none"
        \/ outcome'["doctor"] \in {"raised", "fail"} /\ cmd' = "none"
    BY <2>1, <2>2, <2>3 DEF DoctorInv, SetupTypeOK
  <2>5. RulesLoad' = RulesLoad /\ PolicySuits("doctor")' = PolicySuits("doctor")
    BY <2>1 DEF RulesLoad, PolicySuits, OriginOf
  <2> QED BY <1>6, <2>1, <2>2, <2>4, <2>5 DEF DoctorInv, CheckRules
<1>7. CASE CheckLoad
  <2>1. /\ cmd = "doctor" /\ UNCHANGED <<world, flags, checks>>
        /\ current'["doctor"] = current["doctor"] \cup {"rules"}
    BY <1>7, ReadsOwn DEF CheckLoad, EndDoctor, Goes, Ends, PlaceOK
  <2>2. \/ step' = "check policy" /\ RulesLoad /\ UNCHANGED outcome
        \/ /\ step' = "idle" /\ cmd' = "none"
           /\ outcome' = [outcome EXCEPT !["doctor"] = Overall(checks \cup {"fail"})]
    BY <1>7, <2>1 DEF CheckLoad, EndDoctor, Goes, Ends
  <2>3. Overall(checks \cup {"fail"}) = "fail"
    BY DEF Overall
  <2>4. outcome["doctor"] = "none"
    BY <2>1 DEF DoctorInv
  <2>5. outcome'["doctor"] = "none" \/ (outcome'["doctor"] = "fail" /\ cmd' = "none")
    BY <2>2, <2>3, <2>4 DEF SetupTypeOK
  <2>6. RulesLoad' = RulesLoad
    BY <2>1 DEF RulesLoad
  <2> QED BY <1>7, <2>1, <2>2, <2>5, <2>6 DEF DoctorInv, CheckLoad
<1>8. CASE CheckPolicy
  <2>1. /\ cmd = "doctor" /\ UNCHANGED <<world, flags, checks>>
        /\ step' = "idle" /\ cmd' = "none"
        /\ current'["doctor"] = current["doctor"] \cup {"policy"}
        /\ outcome' = [outcome EXCEPT !["doctor"] =
                Overall(checks \cup {IF PolicyLoads THEN "pass" ELSE "fail"})]
    BY <1>8, ReadsOwn DEF CheckPolicy, EndDoctor, Goes, Ends, PlaceOK
  <2>2. ASSUME outcome'["doctor"] \in {"pass", "warn"}, current'["doctor"] = Things
        PROVE  RulesLoad /\ PolicySuits("doctor") /\ db # "unwritable" /\ config.sound
    <3>1. "fail" \notin checks /\ PolicyLoads
      BY <2>1, <2>2, OverallResult DEF SetupTypeOK
    <3>2. {"config", "rules", "db"} \subseteq current["doctor"]
      BY <2>1, <2>2
    <3>3. RulesLoad /\ db # "unwritable" /\ config.sound
      BY <1>8, <2>1, <3>1, <3>2 DEF DoctorInv, CheckPolicy, PlaceOK
    <3>4. PolicySuits("doctor")
      BY <2>1, <3>1 DEF PolicySuits, OriginOf, PolicyLoads, PolicyOrigin
    <3> QED BY <3>3, <3>4
  <2>3. RulesLoad' = RulesLoad /\ PolicySuits("doctor")' = PolicySuits("doctor")
    BY <2>1 DEF RulesLoad, PolicySuits, OriginOf
  <2> QED BY <2>1, <2>2, <2>3 DEF DoctorInv
<1>9. CASE Edit
  <2>1. UNCHANGED <<outcome, cmd, step, checks, flags>>
    BY <1>9 DEF Edit
  <2>2. \/ Changed("rules") /\ UNCHANGED <<policies, config, db>>
        \/ Changed("policy") /\ UNCHANGED <<place, config, db>>
        \/ Changed("config") /\ UNCHANGED <<place, policies, db>>
        \/ Changed("db") /\ UNCHANGED <<place, policies, config>>
    BY <1>9 DEF Edit
  <2>3. "config" \in current'["doctor"] /\ "rules" \in current'["doctor"] =>
            RulesLoad' = RulesLoad
    BY <2>2 DEF Changed, RulesLoad, SetupTypeOK
  <2>4. "config" \in current'["doctor"] /\ "policy" \in current'["doctor"] =>
            PolicySuits("doctor")' = PolicySuits("doctor")
    BY <2>1, <2>2 DEF Changed, PolicySuits, OriginOf, SetupTypeOK
  <2>5. /\ "db" \in current'["doctor"] => UNCHANGED db
        /\ "config" \in current'["doctor"] => UNCHANGED config
    BY <2>2 DEF Changed, SetupTypeOK
  <2>6. current'["doctor"] \subseteq current["doctor"] /\ current["doctor"] \subseteq Things
    BY <2>2 DEF Changed, SetupTypeOK
  <2> QED BY <2>1, <2>3, <2>4, <2>5, <2>6 DEF DoctorInv
<1>10. CASE UNCHANGED setupVars
  BY <1>0, <1>10
<1> QED
  BY <1>1, <1>2, <1>3, <1>4, <1>5, <1>6, <1>7, <1>8, <1>9, <1>10 DEF SetupNext, Doctor

\* The same of detect, which reads all that run reads.
LEMMA DetectStep ==
    PlaceOK /\ SetupTypeOK /\ TimerInv /\ DetectInv /\ [SetupNext]_setupVars => DetectInv'
<1> SUFFICES ASSUME PlaceOK, SetupTypeOK, TimerInv, DetectInv, [SetupNext]_setupVars
             PROVE  DetectInv'
  OBVIOUS
<1>0. ASSUME UNCHANGED <<place, policies, config, flags>>,
             outcome'["detect"] = outcome["detect"], current'["detect"] = current["detect"],
             db' = "unwritable" => db = "unwritable",
             cmd' # "detect" \/ step' \notin {"policy", "open"} \/ UNCHANGED <<cmd, step>>,
             cmd' # "detect" \/ (cmd = "detect" /\ (step = "resolve" => step' = "resolve"))
      PROVE  DetectInv'
  <2>1. RulesLoad' = RulesLoad /\ PolicySuits("detect")' = PolicySuits("detect")
    BY <1>0 DEF RulesLoad, PolicySuits, OriginOf
  <2> QED BY <1>0, <2>1 DEF DetectInv
<1>1. ASSUME NEW c \in Commands, Begin(c) PROVE DetectInv'
  <2>1. /\ current' = [current EXCEPT ![c] = {}] /\ outcome' = [outcome EXCEPT ![c] = "none"]
        /\ UNCHANGED <<place, policies, config, db>> /\ step' \in {"lint", "resolve"}
        /\ cmd' = c /\ \E f : flags' = [flags EXCEPT ![c] = f]
    BY <1>1 DEF Begin
  <2>2. CASE c = "detect"
    BY <2>1, <2>2 DEF DetectInv, SetupTypeOK
  <2>3. CASE c # "detect"
    <3>1. flags'["detect"] = flags["detect"]
      BY <2>1, <2>3 DEF SetupTypeOK
    <3>2. RulesLoad' = RulesLoad /\ PolicySuits("detect")' = PolicySuits("detect")
      BY <2>1, <3>1 DEF RulesLoad, PolicySuits, OriginOf
    <3> QED BY <2>1, <2>3, <3>2 DEF DetectInv, SetupTypeOK
  <2> QED BY <2>2, <2>3
<1>2. CASE Start /\ cmd # "detect"
  BY <1>0, <1>2, StartSteps
<1>3. CASE Resolve /\ cmd = "detect"
  <2>1. outcome["detect"] = "none"
    BY <1>3 DEF DetectInv
  <2>2. \/ outcome'["detect"] = "none" /\ step' = "rules" /\ config.sound /\ UNCHANGED config
        \/ outcome'["detect"] \in {"missing", "raised"} /\ cmd' = "none"
    BY <1>3, <2>1 DEF Resolve, Goes, Ends, SetupTypeOK
  <2> QED BY <2>2 DEF DetectInv
<1>4. CASE LoadRules /\ cmd = "detect"
  <2>1. /\ UNCHANGED <<world, flags>> /\ Detecting
        /\ current'["detect"] = current["detect"] \cup {"rules"}
    BY <1>4, ReadsOwn DEF LoadRules, Goes, Ends, Detecting
  <2>2. \/ RulesLoad /\ step' = "policy" /\ UNCHANGED outcome
        \/ cmd' = "none" /\ \E how \in {"missing", "failed"} :
                                outcome' = [outcome EXCEPT !["detect"] = how]
    BY <1>4, <2>1 DEF LoadRules, Goes, Ends
  <2>3. outcome["detect"] = "none"
    BY <1>4 DEF DetectInv
  <2>4. \/ outcome'["detect"] = "none" /\ RulesLoad /\ step' = "policy"
        \/ outcome'["detect"] \in {"missing", "failed"} /\ cmd' = "none"
    BY <2>2, <2>3 DEF SetupTypeOK
  <2>5. RulesLoad' = RulesLoad
    BY <2>1 DEF RulesLoad
  <2>6. "config" \in current'["detect"] => config.sound
    BY <1>4, <2>1 DEF DetectInv, LoadRules
  <2> QED BY <2>1, <2>4, <2>5, <2>6 DEF DetectInv
<1>5. CASE LoadPolicy /\ cmd = "detect"
  <2>1. /\ UNCHANGED <<world, flags>>
        /\ current'["detect"] = current["detect"] \cup {"policy"}
    BY <1>5, ReadsOwn DEF LoadPolicy, Goes, Ends
  <2>2. \/ PolicyLoads /\ step' = "open" /\ UNCHANGED outcome
        \/ cmd' = "none" /\ \E how \in {"missing", "failed"} :
                                outcome' = [outcome EXCEPT !["detect"] = how]
    BY <1>5 DEF LoadPolicy, Goes, Ends
  <2>3. outcome["detect"] = "none"
    BY <1>5 DEF DetectInv
  <2>4. \/ outcome'["detect"] = "none" /\ PolicyLoads /\ step' = "open"
        \/ outcome'["detect"] \in {"missing", "failed"} /\ cmd' = "none"
    BY <2>2, <2>3 DEF SetupTypeOK
  <2>5. PolicyLoads => PolicySuits("detect")
    BY <1>5 DEF PolicySuits, OriginOf, PolicyLoads, PolicyOrigin
  <2>6. RulesLoad' = RulesLoad /\ PolicySuits("detect")' = PolicySuits("detect")
    BY <2>1 DEF RulesLoad, PolicySuits, OriginOf
  <2>7. /\ {"config", "rules"} \subseteq current'["detect"] => RulesLoad
        /\ "config" \in current'["detect"] => config.sound
    BY <1>5, <2>1 DEF DetectInv, LoadPolicy
  <2> QED BY <2>1, <2>4, <2>5, <2>6, <2>7 DEF DetectInv
<1>6. CASE Open /\ cmd = "detect"
  <2>1. /\ UNCHANGED <<place, policies, config, flags>> /\ cmd' = "none"
        /\ current'["detect"] = current["detect"] \cup {"db"}
    BY <1>6, ReadsOwn DEF Open, Goes, Ends
  <2>2. outcome'["detect"] = "ok" => db' # "unwritable"
    BY <1>6 DEF Open, Opened, Goes, Ends, SetupTypeOK
  <2>3. RulesLoad' = RulesLoad /\ PolicySuits("detect")' = PolicySuits("detect")
    BY <2>1 DEF RulesLoad, PolicySuits, OriginOf
  <2>4. current'["detect"] = Things => {"config", "rules", "policy"} \subseteq current["detect"]
    BY <2>1
  <2>5. current'["detect"] = Things => RulesLoad /\ PolicySuits("detect") /\ config.sound
    BY <1>6, <2>4 DEF DetectInv, Open
  <2> QED BY <2>1, <2>2, <2>3, <2>5 DEF DetectInv
<1>7. CASE Linter
  BY <1>0, <1>7, LinterSteps
<1>8. CASE Doctor
  <2>1. cmd = "doctor" /\ cmd' \in {"doctor", "none"}
    <3>1. CASE CheckRules
      BY <3>1 DEF CheckRules, EndDoctor, SetupTypeOK, Goes, Ends, PlaceOK
    <3> QED BY <1>8, <3>1 DEF Doctor, CheckEnvironment, CheckDb, CheckLoad, CheckPolicy,
               EndDoctor, Goes, Ends, PlaceOK
  <2>2. /\ UNCHANGED <<place, policies, config, flags>>
        /\ db' = "unwritable" => db = "unwritable"
        /\ current' = current \/ \E things : Reads(things)
    <3>1. CASE CheckRules
      BY <3>1 DEF CheckRules, EndDoctor, SetupTypeOK, Goes, Ends
    <3> QED BY <1>8, <3>1 DEF Doctor, CheckEnvironment, CheckDb, CheckLoad, CheckPolicy,
               EndDoctor, Goes, Ends, Opened, LeftBehind
  <2>3. outcome' = outcome \/ \E how : outcome' = [outcome EXCEPT !["doctor"] = how]
    <3>1. CASE CheckRules
      BY <2>1, <3>1 DEF CheckRules, EndDoctor, SetupTypeOK, Ends
    <3> QED BY <1>8, <2>1, <3>1 DEF Doctor, CheckEnvironment, CheckDb, CheckLoad, CheckPolicy,
               EndDoctor, Ends
  <2>4. outcome'["detect"] = outcome["detect"] /\ current'["detect"] = current["detect"]
    BY <2>1, <2>2, <2>3 DEF Reads, SetupTypeOK
  <2> QED BY <1>0, <2>1, <2>2, <2>4
<1>9. CASE Edit
  <2>1. UNCHANGED <<outcome, cmd, step, flags>>
    BY <1>9 DEF Edit
  <2>2. \/ Changed("rules") /\ UNCHANGED <<policies, config, db>>
        \/ Changed("policy") /\ UNCHANGED <<place, config, db>>
        \/ Changed("config") /\ UNCHANGED <<place, policies, db>>
        \/ Changed("db") /\ UNCHANGED <<place, policies, config>>
    BY <1>9 DEF Edit
  <2>3. "config" \in current'["detect"] /\ "rules" \in current'["detect"] =>
            RulesLoad' = RulesLoad
    BY <2>2 DEF Changed, RulesLoad, SetupTypeOK
  <2>4. "config" \in current'["detect"] /\ "policy" \in current'["detect"] =>
            PolicySuits("detect")' = PolicySuits("detect")
    BY <2>1, <2>2 DEF Changed, PolicySuits, OriginOf, SetupTypeOK
  <2>5. /\ "db" \in current'["detect"] => UNCHANGED db
        /\ "config" \in current'["detect"] => UNCHANGED config
    BY <2>2 DEF Changed, SetupTypeOK
  <2>6. current'["detect"] \subseteq current["detect"] /\ current["detect"] \subseteq Things
    BY <2>2 DEF Changed, SetupTypeOK
  <2> QED BY <2>1, <2>3, <2>4, <2>5, <2>6 DEF DetectInv
<1>10. CASE UNCHANGED setupVars
  BY <1>0, <1>10
<1> QED
  BY <1>1, <1>2, <1>3, <1>4, <1>5, <1>6, <1>7, <1>8, <1>9, <1>10
  DEF SetupNext, Start, StartSession, Spawn, PatchPid, PlaceOK

LEMMA SetupStep == SetupIInv /\ [SetupNext]_setupVars => SetupIInv'
BY PlaceStep, TypeStep, TimerStep, LintStep, DoctorStep, DetectStep DEF SetupIInv

\* The invariant of the commands around a start of the proxy.
THEOREM SetupInvariance == SetupSpec => []SetupIInv
<1>1. SetupInit => SetupIInv
  BY SetupInitHolds
<1>2. SetupIInv /\ [SetupNext]_setupVars => SetupIInv'
  BY SetupStep
<1> QED BY <1>1, <1>2, PTL DEF SetupSpec

\* The trials of the strict linter never meet a timer, a signal or a handler
\* of the trial before (lint.py, _timed_match_ok).
THEOREM TrialsKeepApart == SetupSpec => []TrialsAreApart
<1>1. SetupIInv => TrialsAreApart
  BY DEF SetupIInv, TimerInv, TrialsAreApart
<1> QED BY <1>1, SetupInvariance, PTL

\* For any packs whatever: linter and loader agree about rules that nobody has
\* edited since they were linted, but for ids that occur twice and directories
\* without files (lint.py: lint_path, detectors/rules.py: from_directory).
THEOREM LinterAgreesWithLoader == SetupSpec => []LintIsRight
<1>1. SetupIInv => LintIsRight
  <2> SUFFICES ASSUME SetupIInv, NEW c \in {"lint", "strict"},
                      place.kind = "directory", "rules" \in current[c]
               PROVE  /\ outcome[c] = "pass" => Loads(place) \/ ~DistinctIds(place)
                      /\ c = "lint" /\ outcome[c] \in {"fail", "raised"} =>
                            ~Loads(place) \/ place.files = <<>>
    BY DEF LintIsRight
  <2>1. ASSUME outcome[c] = "pass"
        PROVE  Loads(place) \/ ~DistinctIds(place)
    <3>1. ~LintRaises(place) /\ LintErrors(place) = {}
      BY <2>1 DEF SetupIInv, LintInv
    <3> QED BY <3>1, PassedLoads DEF SetupIInv, SetupTypeOK
  <2>2. ASSUME c = "lint", outcome[c] \in {"fail", "raised"}, Loads(place)
        PROVE  place.files = <<>>
    <3>1. LintErrors(place) # {} \/ LintRaises(place)
      BY <2>2 DEF SetupIInv, LintInv
    <3> QED BY <2>2, <3>1, LoadedPasses
  <2> QED BY <2>1, <2>2
<1> QED BY <1>1, SetupInvariance, PTL

\* A start of the proxy meets nothing unsuitable among the settings, the audit
\* file, the rules and the policy that doctor or detect has passed and nobody has
\* edited since: whatever they read, at whichever moment, they read it before it
\* could change unnoticed (doctor.py, run_checks; cli.py, cmd_detect).  It may
\* still end because of its server command or of a database that is busy.
THEOREM RehearsedThingsSuit == SetupSpec => RehearsalIsRight
<1>1. SetupIInv /\ [SetupNext]_setupVars =>
        (outcome'["run"] \in Unsuitable /\ outcome["run"] \notin Unsuitable =>
            /\ ~flags["run"].policies /\ current["doctor"] = Things =>
                    outcome["doctor"] \notin {"pass", "warn"}
            /\ flags["run"].policies = flags["detect"].policies /\ current["detect"] = Things =>
                    outcome["detect"] # "ok")
  <2> SUFFICES ASSUME SetupIInv, [SetupNext]_setupVars,
                      outcome'["run"] \in Unsuitable, outcome["run"] \notin Unsuitable
               PROVE  /\ ~flags["run"].policies /\ current["doctor"] = Things =>
                            outcome["doctor"] \notin {"pass", "warn"}
                      /\ /\ flags["run"].policies = flags["detect"].policies
                         /\ current["detect"] = Things
                         => outcome["detect"] # "ok"
    OBVIOUS
  <2> USE DEF Unsuitable
  <2> USE DEF SetupIInv
  <2>1. Start /\ cmd = "run"
    <3>1. ASSUME NEW c \in Commands, Begin(c) PROVE FALSE
      BY <3>1 DEF Begin, SetupTypeOK
    <3>2. CASE Linter
      BY <3>2, LinterSteps
    <3>3. CASE Doctor
      <4>1. cmd = "doctor" /\ (outcome' = outcome
                                \/ \E how : outcome' = [outcome EXCEPT !["doctor"] = how])
        <5>1. CASE CheckRules
          BY <5>1 DEF CheckRules, EndDoctor, SetupTypeOK, Ends, PlaceOK
        <5> QED BY <3>3, <5>1 DEF Doctor, CheckEnvironment, CheckDb, CheckLoad, CheckPolicy,
                   EndDoctor, Ends, PlaceOK
      <4> QED BY <4>1 DEF SetupTypeOK
    <3>4. CASE Start /\ cmd # "run"
      BY <3>4, StartSteps DEF SetupTypeOK
    <3>5. CASE Edit \/ UNCHANGED setupVars
      BY <3>5 DEF Edit
    <3> QED BY <3>1, <3>2, <3>3, <3>4, <3>5 DEF SetupNext
  <2>2. ~RulesLoad \/ ~PolicySuits("run") \/ db = "unwritable" \/ ~config.sound
    <3>1. CASE Resolve
      <4>1. Refused => ~PolicySuits("run")
        BY <2>1 DEF Refused, PolicySuits, OriginOf
      <4> QED BY <2>1, <3>1, <4>1 DEF Resolve, Ends, SetupTypeOK
    <3>2. CASE Open \/ StartSession \/ Spawn \/ PatchPid
      BY <2>1, <3>2 DEF Open, StartSession, Spawn, PatchPid, GoesOrEnds, Ends, SetupTypeOK
    <3>3. CASE LoadRules
      BY <2>1, <3>3 DEF LoadRules, Ends, SetupTypeOK
    <3>4. CASE LoadPolicy
      <4>1. PolicyLoads = PolicySuits("run")
        BY <2>1 DEF PolicySuits, OriginOf, PolicyLoads, PolicyOrigin
      <4> QED BY <2>1, <3>4, <4>1 DEF LoadPolicy, Ends, SetupTypeOK
    <3> QED BY <2>1, <3>1, <3>2, <3>3, <3>4 DEF Start
  <2>3. ASSUME ~flags["run"].policies PROVE PolicySuits("run") = PolicySuits("doctor")
    BY <2>3 DEF PolicySuits, OriginOf, SetupTypeOK
  <2>4. ASSUME flags["run"].policies = flags["detect"].policies
        PROVE  PolicySuits("run") = PolicySuits("detect")
    BY <2>4 DEF PolicySuits, OriginOf
  <2> QED BY <2>2, <2>3, <2>4 DEF DoctorInv, DetectInv
<1> QED BY <1>1, SetupInvariance, PTL DEF SetupSpec, RehearsalIsRight

-------------------------------------------------------------------------------
(* Stats.                                                                  *)

\* A set of numbers that is not empty has a least element.
LEMMA LeastElement ==
    ASSUME NEW T \in SUBSET Nat, T # {}
    PROVE  \E n \in T : \A m \in T : n <= m
<1>1. PICK n \in T : \A m \in T : ~ (<<m, n>> \in OpToRel(<, Nat))
  BY NatLessThanWellFounded, WFMin
<1>2. \A m \in T : ~(m < n)
  BY <1>1 DEF OpToRel
<1> QED BY <1>2

\* f lists the members of T once each, by their keys.
IsOrder(f, T, key) ==
    /\ f \in [1..Cardinality(T) -> T] /\ IsInjective(f)
    /\ \A i, j \in DOMAIN f : i < j => key[f[i]] <= key[f[j]]

\* An order of a set without one member becomes one of the set: the member
\* goes before the first whose key is greater.
LEMMA Inserted ==
    ASSUME NEW S, NEW key \in [S -> Int], NEW T \in SUBSET S, IsFiniteSet(T), NEW x \in T,
           NEW f, IsOrder(f, T \ {x}, key)
    PROVE  \E g : IsOrder(g, T, key)
<1> DEFINE n == Cardinality(T \ {x})
           D == {i \in 1..n : key[f[i]] > key[x]} \cup {n + 1}
<1>1. n \in Nat /\ Cardinality(T) = n + 1
  <2>1. IsFiniteSet(T \ {x}) /\ Cardinality(T \ {x}) = Cardinality(T) - 1
    BY FS_RemoveElement
  <2> QED BY <2>1, FS_CardinalityType
<1>2. /\ f \in [1..n -> T \ {x}] /\ DOMAIN f = 1..n
      /\ \A i, j \in 1..n : f[i] = f[j] => i = j
      /\ \A i, j \in 1..n : i < j => key[f[i]] <= key[f[j]]
  BY DEF IsOrder, IsInjective
<1> HIDE DEF n
<1>3. PICK k \in D : \A i \in D : k <= i
  <2>1. D \in SUBSET Nat /\ D # {}
    BY <1>1
  <2> HIDE DEF D
  <2> QED BY <2>1, LeastElement
<1>4. /\ k \in 1..(n + 1)
      /\ \A i \in 1..n : i < k => key[f[i]] <= key[x]
      /\ k <= n => key[f[k]] > key[x]
  <2>1. k \in 1..(n + 1)
    BY <1>1
  <2>2. ASSUME NEW i \in 1..n, i < k PROVE key[f[i]] <= key[x]
    <3>1. ~(i \in D)
      BY <1>1, <1>3, <2>1, <2>2
    <3>2. key[f[i]] \in Int /\ key[x] \in Int
      BY <1>2
    <3> QED BY <3>1, <3>2
  <2>3. k <= n => key[f[k]] > key[x]
    BY <1>1, <1>3
  <2> QED BY <2>1, <2>2, <2>3
<1> HIDE DEF D
<1> DEFINE g == [i \in 1..(n + 1) |-> IF i < k THEN f[i] ELSE IF i = k THEN x ELSE f[i - 1]]
<1>5. ASSUME NEW i \in 1..(n + 1)
      PROVE  \/ i < k /\ i \in 1..n /\ g[i] = f[i]
             \/ i = k /\ g[i] = x
             \/ i > k /\ i - 1 \in 1..n /\ g[i] = f[i - 1]
  BY <1>1, <1>4
<1>6. g \in [1..(n + 1) -> T] /\ DOMAIN g = 1..(n + 1)
  <2>1. \A i \in 1..(n + 1) : g[i] \in T
    BY <1>2, <1>5
  <2> QED BY <2>1
<1> HIDE DEF g
<1>7. ASSUME NEW i \in 1..(n + 1), NEW j \in 1..(n + 1), g[i] = g[j] PROVE i = j
  BY SMTT(30), <1>1, <1>2, <1>4, <1>5, <1>7
<1>8. ASSUME NEW i \in 1..(n + 1), NEW j \in 1..(n + 1), i < j PROVE key[g[i]] <= key[g[j]]
  <2>0. /\ \A m \in 1..n : key[f[m]] \in Int
        /\ key[x] \in Int
    BY <1>2
  <2>1. \A m \in 1..n : k <= m => key[f[m]] > key[x]
    <3> SUFFICES ASSUME NEW m \in 1..n, k <= m PROVE key[f[m]] > key[x]
      OBVIOUS
    <3>1. k \in 1..n /\ key[f[k]] > key[x]
      BY <1>1, <1>4
    <3>2. k = m \/ key[f[k]] <= key[f[m]]
      BY <1>2, <1>4, <3>1
    <3> QED BY <2>0, <3>1, <3>2
  <2>2. CASE i < k /\ i \in 1..n /\ g[i] = f[i]
    BY <1>1, <1>2, <1>4, <1>5, <1>8, <2>0, <2>1, <2>2
  <2>3. CASE i = k /\ g[i] = x
    BY <1>1, <1>4, <1>5, <1>8, <2>0, <2>1, <2>3
  <2>4. CASE i > k /\ i - 1 \in 1..n /\ g[i] = f[i - 1]
    <3>1. j > k /\ j - 1 \in 1..n /\ g[j] = f[j - 1] /\ i - 1 < j - 1
      BY <1>1, <1>4, <1>5, <1>8, <2>4
    <3> QED BY <1>2, <2>4, <3>1
  <2> QED BY <1>5, <2>2, <2>3, <2>4
<1>9. IsOrder(g, T, key)
  BY <1>1, <1>6, <1>7, <1>8 DEF IsOrder, IsInjective
<1> QED BY <1>9

\* Every finite set can be put in order.
LEMMA OrderExists ==
    ASSUME NEW S, NEW key \in [S -> Int], IsFiniteSet(S)
    PROVE  \E f : IsOrder(f, S, key)
<1> DEFINE B == {n \in Nat : \E T \in SUBSET S : Cardinality(T) = n /\ ~ \E f : IsOrder(f, T, key)}
<1>1. B = {}
  <2> SUFFICES ASSUME B # {} PROVE FALSE
    OBVIOUS
  <2>1. PICK n \in B : \A m \in B : n <= m
    <3>1. B \in SUBSET Nat
      OBVIOUS
    <3> HIDE DEF B
    <3> QED BY <3>1, LeastElement
  <2>2. PICK T \in SUBSET S : Cardinality(T) = n /\ ~ \E f : IsOrder(f, T, key)
    OBVIOUS
  <2>3. IsFiniteSet(T)
    BY FS_Subset
  <2>4. CASE T = {}
    <3>1. Cardinality(T) = 0
      BY <2>4, FS_EmptySet
    <3>2. IsOrder(<<>>, T, key)
      BY <2>4, <3>1 DEF IsOrder, IsInjective
    <3> QED BY <2>2, <3>2
  <2>5. CASE T # {}
    <3>1. PICK x \in T : TRUE
      BY <2>5
    <3>2. Cardinality(T \ {x}) = n - 1 /\ n - 1 \in Nat
      <4>1. IsFiniteSet(T \ {x}) /\ Cardinality(T \ {x}) = Cardinality(T) - 1
        BY <2>3, <3>1, FS_RemoveElement
      <4> QED BY <2>2, <4>1, FS_CardinalityType
    <3>3. n - 1 \notin B
      <4> HIDE DEF B
      <4>1. n \in Nat
        BY <3>2, <2>2, <2>3, FS_CardinalityType
      <4> QED BY <2>1, <4>1
    <3>4. PICK f : IsOrder(f, T \ {x}, key)
      BY <3>2, <3>3
    <3> QED BY <2>2, <2>3, <3>1, <3>4, Inserted
  <2> QED BY <2>4, <2>5
<1>2. Cardinality(S) \in Nat
  BY FS_CardinalityType
<1> QED BY <1>1, <1>2

\* The latencies that are measured are all there, in ascending order.
LEMMA SortedIsSorted ==
    ASSUME NEW ids, IsFiniteSet(ids), \A id \in ids : log[id].latency \in Int
    PROVE  /\ Sorted(ids) \in Seq(Int) /\ Len(Sorted(ids)) = Cardinality(ids)
           /\ \A i, j \in 1..Cardinality(ids) : i < j => Sorted(ids)[i] <= Sorted(ids)[j]
<1> DEFINE n == Cardinality(ids)
           key == [id \in ids |-> log[id].latency]
           Good(f) == IsInjective(f) /\ \A i, j \in DOMAIN f :
                        i < j => log[f[i]].latency <= log[f[j]].latency
           order == CHOOSE f \in [1..n -> ids] : Good(f)
<1>1. key \in [ids -> Int]
  OBVIOUS
<1>2. PICK f : IsOrder(f, ids, key)
  <2> HIDE DEF key
  <2> QED BY <1>1, OrderExists
<1>3. f \in [1..n -> ids] /\ Good(f)
  BY <1>2 DEF IsOrder
<1>4. order \in [1..n -> ids] /\ Good(order)
  <2> HIDE DEF Good
  <2> QED BY <1>3
<1>5. n \in Nat
  BY FS_CardinalityType
<1>6. Sorted(ids) = [i \in 1..n |-> log[order[i]].latency]
  BY DEF Sorted
<1> HIDE DEF order
<1>7. \A i \in 1..n : log[order[i]].latency \in Int
  BY <1>4
<1> HIDE DEF n
<1>8. Sorted(ids) \in Seq(Int) /\ Len(Sorted(ids)) = n
  BY <1>5, <1>6, <1>7
<1>9. \A i, j \in 1..n : i < j => Sorted(ids)[i] <= Sorted(ids)[j]
  BY <1>4, <1>6
<1> QED BY <1>8, <1>9 DEF n
\* The share of a distance is within the distance.
LEMMA ShareOf ==
    ASSUME NEW d \in Nat, NEW r \in 0..99
    PROVE  d * r \in Nat /\ d * r <= d * 100
<1>1. d * r \in Nat
  OBVIOUS
<1>2. d * (100 - r) \in Nat
  OBVIOUS
<1>3. d * 100 = d * r + d * (100 - r)
  OBVIOUS
<1> QED BY <1>1, <1>2, <1>3

\* _percentile(): at least the samples before the rank are at or below the
\* value, and at least those after it at or above.
LEMMA PercentileIsQuantile ==
    ASSUME NEW s \in Seq(Int), s # <<>>, \A i, j \in 1..Len(s) : i < j => s[i] <= s[j],
           NEW p \in 0..100
    PROVE  IsQuantile(Percentile(s, p), s, p)
<1> DEFINE n == Len(s)
           rank == (n - 1) * p
           lo == rank \div 100
           hi == Least(lo + 1, n - 1)
           r == rank % 100
           v == Percentile(s, p)
           A == {i \in DOMAIN s : s[i] * 100 <= v}
           B == {i \in DOMAIN s : s[i] * 100 >= v}
<1>1. n \in Nat \ {0} /\ DOMAIN s = 1..n /\ \A i \in 1..n : s[i] \in Int
  OBVIOUS
<1>2. rank \in Nat /\ rank <= (n - 1) * 100
  <2>1. (n - 1) * p \in Nat
    BY <1>1
  <2>2. (n - 1) * (100 - p) \in Nat
    BY <1>1
  <2>3. (n - 1) * 100 = (n - 1) * p + (n - 1) * (100 - p)
    BY <1>1
  <2> QED BY <1>1, <2>1, <2>2, <2>3
<1>3. (n - 1) * (100 - p) = (n - 1) * 100 - rank
  BY <1>1
<1> HIDE DEF n, rank
<1>4. lo \in Nat /\ r \in 0..99 /\ rank = lo * 100 + r
  BY <1>2
<1> HIDE DEF lo, r
<1>5. /\ lo <= n - 1
      /\ \/ hi = lo + 1 /\ lo + 1 <= n - 1
         \/ hi = lo /\ lo = n - 1 /\ r = 0
  <2>1. lo <= n - 1 /\ (lo = n - 1 => r = 0)
    BY <1>1, <1>2, <1>4
  <2>2. hi = IF lo + 1 < n - 1 THEN lo + 1 ELSE n - 1
    BY DEF Least
  <2> QED BY <1>1, <1>4, <2>1, <2>2
<1>6. v = s[lo + 1] * 100 + (s[hi + 1] - s[lo + 1]) * r
  BY DEF Percentile, n, rank, lo, hi, r
<1> HIDE DEF hi, v
<1>7. lo + 1 \in 1..n /\ hi + 1 \in 1..n /\ s[lo + 1] <= s[hi + 1]
  <2>1. lo + 1 \in 1..n /\ hi + 1 \in 1..n /\ lo + 1 <= hi + 1
    BY <1>1, <1>4, <1>5
  <2>2. lo + 1 = hi + 1 \/ s[lo + 1] <= s[hi + 1]
    BY <1>5, <2>1 DEF n
  <2> QED BY <1>1, <2>1, <2>2
<1>8. s[lo + 1] * 100 <= v /\ v <= s[hi + 1] * 100 /\ (r = 0 => v = s[lo + 1] * 100) /\ v \in Int
  <2> DEFINE a == s[lo + 1]
             d == s[hi + 1] - s[lo + 1]
  <2>1. d \in Nat /\ a \in Int /\ s[hi + 1] = a + d
    BY <1>1, <1>7
  <2>2. d * r \in Nat /\ d * r <= d * 100 /\ (r = 0 => d * r = 0)
    <3> HIDE DEF d
    <3>1. r = 0 => d * r = 0
      BY <2>1
    <3> QED BY <1>4, <2>1, <3>1, ShareOf
  <2>3. v = a * 100 + d * r
    BY <1>6
  <2> HIDE DEF a, d
  <2>4. a * 100 <= v /\ v <= (a + d) * 100 /\ (r = 0 => v = a * 100) /\ v \in Int
    BY <2>1, <2>2, <2>3
  <2> QED BY <2>1, <2>4 DEF a
<1>9. IsFiniteSet(A) /\ IsFiniteSet(B) /\ Cardinality(A) \in Nat /\ Cardinality(B) \in Nat
  <2>1. IsFiniteSet(1..n)
    BY <1>1, FS_Interval
  <2>2. A \in SUBSET (1..n) /\ B \in SUBSET (1..n)
    BY <1>1
  <2> HIDE DEF A, B
  <2> QED BY <2>1, <2>2, FS_Subset, FS_CardinalityType
<1>10. Cardinality(A) >= lo + 1
  <2>1. 1..(lo + 1) \in SUBSET A
    <3> SUFFICES ASSUME NEW i \in 1..(lo + 1) PROVE i \in A
      OBVIOUS
    <3>1. i \in 1..n /\ s[i] \in Int /\ s[lo + 1] \in Int /\ s[i] <= s[lo + 1]
      BY <1>1, <1>4, <1>7 DEF n
    <3> QED BY <1>1, <1>8, <3>1
  <2>2. Cardinality(1..(lo + 1)) = lo + 1
    BY <1>4, FS_Interval
  <2>3. Cardinality(1..(lo + 1)) <= Cardinality(A)
    <3> HIDE DEF A
    <3> QED BY <1>9, <2>1, FS_Subset
  <2> HIDE DEF A
  <2> QED BY <1>4, <1>9, <2>2, <2>3
<1>11. ASSUME NEW k \in 1..n, v <= s[k] * 100 PROVE Cardinality(B) >= n - k + 1
  <2>1. k..n \in SUBSET B
    <3> SUFFICES ASSUME NEW i \in k..n PROVE i \in B
      OBVIOUS
    <3>1. i \in 1..n /\ s[i] \in Int /\ s[k] \in Int /\ s[k] <= s[i]
      BY <1>1 DEF n
    <3> QED BY <1>1, <1>8, <1>11, <3>1
  <2>2. Cardinality(k..n) = n - k + 1
    <3>1. k \in Int /\ n \in Int /\ k <= n
      BY <1>1
    <3>2. Cardinality(k..n) = IF k > n THEN 0 ELSE n - k + 1
      BY ONLY <3>1, FS_Interval
    <3> QED BY <3>1, <3>2
  <2>3. Cardinality(k..n) <= Cardinality(B)
    <3> HIDE DEF B
    <3> QED BY <1>9, <2>1, FS_Subset
  <2> HIDE DEF B
  <2> QED BY <1>1, <1>9, <2>2, <2>3
<1>12. Cardinality(A) * 100 > rank
  <2> HIDE DEF A
  <2> QED BY <1>4, <1>9, <1>10
<1>13. Cardinality(B) * 100 > (n - 1) * 100 - rank
  <2>1. CASE r = 0
    <3>1. Cardinality(B) >= n - lo
      <4>1. Cardinality(B) >= n - (lo + 1) + 1
        BY <1>7, <1>8, <1>11, <2>1
      <4> HIDE DEF B
      <4> QED BY <1>1, <1>4, <1>9, <4>1
    <3> HIDE DEF B
    <3> QED BY <1>1, <1>2, <1>4, <1>9, <2>1, <3>1
  <2>2. CASE r # 0
    <3>1. hi = lo + 1
      BY <1>5, <2>2
    <3>2. Cardinality(B) >= n - (hi + 1) + 1
      BY <1>7, <1>8, <1>11
    <3> HIDE DEF B
    <3> QED BY <1>1, <1>2, <1>4, <1>9, <2>2, <3>1, <3>2
  <2> QED BY <2>1, <2>2
<1> QED BY <1>3, <1>12, <1>13 DEF IsQuantile, n, rank, v
\* A number that was counted between the state at the start and the present one.
Timely(n, S, T) == n \in Nat /\ Cardinality(S) <= n /\ n <= Cardinality(T)

TotalOK    == Timely(total, InWindow(atStart), InWindow(table))
VerdictsOK == \A v \in Verdicts : Timely(verdicts[v], Judged(v, atStart), Judged(v, table))
HitsOK     == \A r \in DOMAIN hits : Timely(hits[r], Hit(r, atStart), Hit(r, table))
SamplesOK  ==
    /\ samples \in Seq(Int)
    /\ \A i, j \in 1..Len(samples) : i < j => samples[i] <= samples[j]
    /\ Timely(Len(samples), Measured(atStart), Measured(table))

ReportTypes ==
    /\ table \in Nat /\ tx \in Nat /\ table + tx <= MaxRows
    /\ log \in Logs /\ end \in Nat /\ atStart \in 0..table
    /\ at \in {"idle", "total", "verdicts", "rules", "latency", "done"}

\* The queries whose answers are there were each right.
ReportInv ==
    /\ ReportTypes
    /\ at \in {"verdicts", "rules", "latency", "done"} => TotalOK
    /\ at \in {"rules", "latency", "done"} => VerdictsOK
    /\ at \in {"latency", "done"} => HitsOK
    /\ at = "done" => SamplesOK

\* What a query selects of the first rows it selects of more of them.
LEMMA Selected ==
    ASSUME NEW a \in Nat, NEW b \in Nat, a <= b, NEW v, NEW r
    PROVE  /\ InWindow(a) \subseteq InWindow(b) /\ Judged(v, a) \subseteq Judged(v, b)
           /\ Hit(r, a) \subseteq Hit(r, b) /\ Measured(a) \subseteq Measured(b)
           /\ IsFiniteSet(InWindow(b)) /\ IsFiniteSet(Judged(v, b))
           /\ IsFiniteSet(Hit(r, b)) /\ IsFiniteSet(Measured(b))
<1>1. 1..a \subseteq 1..b
  OBVIOUS
<1>2. /\ InWindow(a) \subseteq InWindow(b) /\ Judged(v, a) \subseteq Judged(v, b)
      /\ Hit(r, a) \subseteq Hit(r, b) /\ Measured(a) \subseteq Measured(b)
  BY <1>1 DEF InWindow, Judged, Hit, Readable, Measured
<1>3. IsFiniteSet(1..b)
  BY FS_Interval
<1>4. /\ InWindow(b) \in SUBSET (1..b) /\ Judged(v, b) \in SUBSET (1..b)
      /\ Hit(r, b) \in SUBSET (1..b) /\ Measured(b) \in SUBSET (1..b)
  BY DEF InWindow, Judged, Hit, Readable, Measured
<1> QED BY <1>2, <1>3, <1>4, FS_Subset

\* A number that is timely stays so while rows are added.
LEMMA StaysTimely ==
    ASSUME NEW n, NEW R, NEW S, NEW T, Timely(n, R, S), S \subseteq T, IsFiniteSet(T)
    PROVE  Timely(n, R, T)
<1>1. IsFiniteSet(S) /\ Cardinality(S) <= Cardinality(T)
  BY FS_Subset
<1>2. Cardinality(S) \in Nat /\ Cardinality(T) \in Nat
  BY <1>1, FS_CardinalityType
<1>3. n \in Nat /\ n <= Cardinality(S) /\ Cardinality(R) <= n
  BY DEF Timely
<1>4. n <= Cardinality(T)
  BY <1>1, <1>2, <1>3
<1> QED BY <1>3, <1>4 DEF Timely

\* What is counted now is timely.
LEMMA CountedNow ==
    ASSUME NEW S, NEW T, S \subseteq T, IsFiniteSet(T)
    PROVE  Timely(Cardinality(T), S, T)
BY FS_Subset, FS_CardinalityType DEF Timely

LEMMA ReportStays ==
    ASSUME ReportTypes, ReportTypes', table <= table', UNCHANGED <<log, end, atStart>>
    PROVE  /\ TotalOK /\ total' = total => TotalOK'
           /\ VerdictsOK /\ verdicts' = verdicts => VerdictsOK'
           /\ HitsOK /\ hits' = hits => HitsOK'
           /\ SamplesOK /\ samples' = samples => SamplesOK'
<1>1. table \in Nat /\ table' \in Nat
  BY DEF ReportTypes
<1>2. \A v, r : /\ InWindow(table) \subseteq InWindow(table') /\ IsFiniteSet(InWindow(table'))
                /\ Judged(v, table) \subseteq Judged(v, table') /\ IsFiniteSet(Judged(v, table'))
                /\ Hit(r, table) \subseteq Hit(r, table') /\ IsFiniteSet(Hit(r, table'))
                /\ Measured(table) \subseteq Measured(table') /\ IsFiniteSet(Measured(table'))
  BY <1>1, Selected
<1>3. \A v, r :
        /\ InWindow(table)' = InWindow(table') /\ Judged(v, table)' = Judged(v, table')
        /\ Hit(r, table)' = Hit(r, table') /\ Measured(table)' = Measured(table')
        /\ InWindow(atStart)' = InWindow(atStart) /\ Judged(v, atStart)' = Judged(v, atStart)
        /\ Hit(r, atStart)' = Hit(r, atStart) /\ Measured(atStart)' = Measured(atStart)
  BY DEF InWindow, Judged, Hit, Readable, Measured
<1>4. ASSUME TotalOK, total' = total PROVE TotalOK'
  <2>1. Timely(total, InWindow(atStart), InWindow(table'))
    BY <1>2, <1>4, StaysTimely DEF TotalOK
  <2> QED BY <1>3, <1>4, <2>1 DEF TotalOK, Timely
<1>5. ASSUME VerdictsOK, verdicts' = verdicts PROVE VerdictsOK'
  <2> SUFFICES ASSUME NEW v \in Verdicts
               PROVE  Timely(verdicts[v], Judged(v, atStart), Judged(v, table))'
    BY DEF VerdictsOK, Verdicts
  <2>1. Timely(verdicts[v], Judged(v, atStart), Judged(v, table'))
    BY <1>2, <1>5, StaysTimely DEF VerdictsOK
  <2> QED BY <1>3, <1>5, <2>1 DEF Timely
<1>6. ASSUME HitsOK, hits' = hits PROVE HitsOK'
  <2> SUFFICES ASSUME NEW r \in DOMAIN hits
               PROVE  Timely(hits[r], Hit(r, atStart), Hit(r, table))'
    BY <1>6 DEF HitsOK
  <2>1. Timely(hits[r], Hit(r, atStart), Hit(r, table'))
    BY <1>2, <1>6, StaysTimely DEF HitsOK
  <2> QED BY <1>3, <1>6, <2>1 DEF Timely
<1>7. ASSUME SamplesOK, samples' = samples PROVE SamplesOK'
  <2>1. Timely(Len(samples), Measured(atStart), Measured(table'))
    BY <1>2, <1>7, StaysTimely DEF SamplesOK
  <2> QED BY <1>3, <1>7, <2>1 DEF SamplesOK, Timely
<1> QED BY <1>4, <1>5, <1>6, <1>7

LEMMA ReportTypesStep ==
    ASSUME ReportTypes, [StatsNext]_statsVars
    PROVE  ReportTypes' /\ table <= table'
<1> USE DEF ReportTypes, statistics
<1>1. CASE Next /\ UNCHANGED statistics
  <2>1. ASSUME NEW w \in Writers, Insert(w) PROVE ReportTypes' /\ table <= table'
    BY <1>1, <2>1 DEF Insert
  <2>2. ASSUME NEW w \in Writers, Finish(w) PROVE ReportTypes' /\ table <= table'
    <3>1. table' \in {table, table + tx} /\ tx' = 0 /\ UNCHANGED statistics
      BY <1>1, <2>2 DEF Finish
    <3>2. table' \in Nat /\ table <= table' /\ table' + tx' <= MaxRows /\ tx' \in Nat
      <4>1. table' = table \/ table' = table + tx
        BY <3>1
      <4>2. table \in Nat /\ tx \in Nat /\ table + tx <= MaxRows /\ tx' = 0
        BY <3>1
      <4> QED BY <4>1, <4>2
    <3>3. atStart' \in 0..table'
      BY <3>1, <3>2
    <3> QED BY <3>1, <3>2, <3>3
  <2>3. CASE Seed \/ Yield \/ Poll
    BY <1>1, <2>3 DEF Seed, Yield, Poll
  <2> QED BY <1>1, <2>1, <2>2, <2>3 DEF Next
<1>2. CASE TakeWindow
  BY <1>2, WindowAssumption DEF TakeWindow
<1>3. CASE CountAll \/ CountVerdicts \/ CountRules \/ Measure
  BY <1>3 DEF CountAll, CountVerdicts, CountRules, Measure, Answers
<1>4. CASE UNCHANGED statsVars
  BY <1>4 DEF statsVars
<1> QED BY <1>1, <1>2, <1>3, <1>4 DEF StatsNext, ComputeStats

LEMMA ReportStep == ReportInv /\ [StatsNext]_statsVars => ReportInv'
<1> SUFFICES ASSUME ReportInv, [StatsNext]_statsVars PROVE ReportInv'
  OBVIOUS
<1>0. ReportTypes /\ ReportTypes' /\ table <= table'
  BY ReportTypesStep DEF ReportInv
<1>1. table \in Nat /\ atStart \in Nat /\ atStart <= table
  BY <1>0 DEF ReportTypes
<1>2. CASE \/ Next /\ UNCHANGED statistics
           \/ UNCHANGED statsVars
  <2>1. UNCHANGED <<log, end, atStart, at, total, verdicts, hits, samples>>
    BY <1>2 DEF statistics, statsVars
  <2> QED BY <1>0, <2>1, ReportStays DEF ReportInv
<1>3. CASE TakeWindow
  BY <1>0, <1>3 DEF TakeWindow, ReportInv
<1>4. CASE CountAll
  <2>1. /\ at' = "verdicts" /\ total' = Cardinality(InWindow(table))
        /\ UNCHANGED <<table, log, end, atStart>>
    BY <1>4 DEF CountAll, Answers
  <2>2. Timely(Cardinality(InWindow(table)), InWindow(atStart), InWindow(table))
    BY <1>1, Selected, CountedNow
  <2>3. TotalOK'
    BY <2>1, <2>2 DEF TotalOK, Timely, InWindow
  <2> QED BY <1>0, <2>1, <2>3 DEF ReportInv
<1>5. CASE CountVerdicts
  <2>1. /\ at = "verdicts" /\ at' = "rules" /\ total' = total
        /\ verdicts' = [v \in Verdicts |-> Cardinality(Judged(v, table))]
        /\ UNCHANGED <<table, log, end, atStart>>
    BY <1>5 DEF CountVerdicts, Answers
  <2>2. ASSUME NEW v \in Verdicts
        PROVE  Timely(Cardinality(Judged(v, table)), Judged(v, atStart), Judged(v, table))
    BY <1>1, Selected, CountedNow
  <2>3. VerdictsOK'
    <3> SUFFICES ASSUME NEW v \in Verdicts
                 PROVE  Timely(verdicts[v], Judged(v, atStart), Judged(v, table))'
      BY DEF VerdictsOK, Verdicts
    <3>1. verdicts'[v] = Cardinality(Judged(v, table))
      BY <2>1
    <3>2. Judged(v, atStart)' = Judged(v, atStart) /\ Judged(v, table)' = Judged(v, table)
      BY <2>1 DEF Judged, InWindow
    <3> QED BY <2>2, <3>1, <3>2 DEF Timely
  <2>4. TotalOK'
    BY <1>0, <2>1, ReportStays DEF ReportInv
  <2> QED BY <1>0, <2>1, <2>3, <2>4 DEF ReportInv
<1>6. CASE CountRules
  <2>1. /\ at = "rules" /\ at' = "latency" /\ total' = total /\ verdicts' = verdicts
        /\ UNCHANGED <<table, log, end, atStart>>
    BY <1>6 DEF CountRules, Answers
  <2>2. PICK listed : hits' = [r \in listed |-> Cardinality(Hit(r, table))]
    BY <1>6 DEF CountRules
  <2>3. ASSUME NEW r PROVE Timely(Cardinality(Hit(r, table)), Hit(r, atStart), Hit(r, table))
    BY <1>1, Selected, CountedNow
  <2>4. HitsOK'
    <3> SUFFICES ASSUME NEW r \in listed
                 PROVE  Timely(hits[r], Hit(r, atStart), Hit(r, table))'
      BY <2>2 DEF HitsOK
    <3>1. hits'[r] = Cardinality(Hit(r, table))
      BY <2>2
    <3>2. Hit(r, atStart)' = Hit(r, atStart) /\ Hit(r, table)' = Hit(r, table)
      BY <2>1 DEF Hit, Readable, InWindow
    <3> QED BY <2>3, <3>1, <3>2 DEF Timely
  <2>5. TotalOK' /\ VerdictsOK'
    BY <1>0, <2>1, ReportStays DEF ReportInv
  <2> QED BY <1>0, <2>1, <2>4, <2>5 DEF ReportInv
<1>7. CASE Measure
  <2>1. /\ at = "latency" /\ at' = "done" /\ total' = total /\ verdicts' = verdicts /\ hits' = hits
        /\ samples' = Sorted(Measured(table))
        /\ UNCHANGED <<table, log, end, atStart>>
    BY <1>7 DEF Measure, Answers
  <2>2. IsFiniteSet(Measured(table)) /\ Measured(atStart) \subseteq Measured(table)
    BY <1>1, Selected
  <2>3. \A id \in Measured(table) : log[id].latency \in Int
    <3>1. \A id \in Measured(table) : id \in 1..MaxRows
      BY <1>0 DEF Measured, InWindow, ReportTypes
    <3> QED BY <1>0, <3>1, LogsAssumption DEF ReportTypes
  <2>4. /\ samples' \in Seq(Int) /\ Len(samples') = Cardinality(Measured(table))
        /\ \A i, j \in 1..Len(samples') : i < j => samples'[i] <= samples'[j]
    BY <2>1, <2>2, <2>3, SortedIsSorted
  <2>5. Timely(Len(samples'), Measured(atStart), Measured(table))
    BY <2>2, <2>4, CountedNow
  <2>6. Measured(atStart)' = Measured(atStart) /\ Measured(table)' = Measured(table)
    BY <2>1 DEF Measured, InWindow
  <2>7. SamplesOK'
    BY <2>4, <2>5, <2>6 DEF SamplesOK, Timely
  <2>8. TotalOK' /\ VerdictsOK' /\ HitsOK'
    BY <1>0, <2>1, ReportStays DEF ReportInv
  <2> QED BY <1>0, <2>1, <2>7, <2>8 DEF ReportInv
<1> QED BY <1>2, <1>3, <1>4, <1>5, <1>6, <1>7 DEF StatsNext, ComputeStats

THEOREM ReportInvariance == StatsSpec => []ReportInv
<1>1. StatsInit => ReportInv
  BY DEF StatsInit, Init, ReportInv, ReportTypes
<1> QED BY <1>1, ReportStep, PTL DEF StatsSpec

\* compute_stats(): for any log, window and number of writers, each number of
\* a report is that of some moment while it was made, and the percentiles are
\* quantiles of any number of samples.
THEOREM ReportsAreTimely == StatsSpec => []ReportsAreRight
<1>1. ReportInv => ReportsAreRight
  <2> SUFFICES ASSUME ReportInv, at = "done"
               PROVE  /\ NumbersAreTimely
                      /\ samples # <<>> =>
                            \A p \in {50, 95} : IsQuantile(Percentile(samples, p), samples, p)
    BY DEF ReportsAreRight
  <2>1. ReportTypes /\ TotalOK /\ VerdictsOK /\ HitsOK /\ SamplesOK
    BY DEF ReportInv
  <2>2. InWindow(table) = {id \in 1..table : log[id].ts \in (end - Span)..(end - 1)}
    <3>1. \A id \in 1..table : log[id].ts \in Int
      BY <2>1, LogsAssumption DEF ReportTypes
    <3>2. end \in Int /\ Span \in Int
      BY <2>1, WindowAssumption DEF ReportTypes
    <3> QED BY <3>1, <3>2 DEF InWindow
  <2>3. Counts(total, InWindow) /\ Counts(Len(samples), Measured)
    BY <2>1 DEF TotalOK, SamplesOK, Timely, Counts
  <2>4. /\ \A v \in Verdicts : Counts(verdicts[v], LAMBDA n : Judged(v, n))
        /\ \A r \in DOMAIN hits : Counts(hits[r], LAMBDA n : Hit(r, n))
    BY <2>1 DEF VerdictsOK, HitsOK, Timely, Counts
  <2>5. NumbersAreTimely
    BY <2>1, <2>2, <2>3, <2>4 DEF NumbersAreTimely, TotalOK, Timely
  <2>6. ASSUME samples # <<>>, NEW p \in {50, 95}
        PROVE  IsQuantile(Percentile(samples, p), samples, p)
    <3>1. p \in 0..100
      BY <2>6
    <3>2. /\ samples \in Seq(Int)
          /\ \A i, j \in 1..Len(samples) : i < j => samples[i] <= samples[j]
      BY <2>1 DEF SamplesOK
    <3> QED BY <2>6, <3>1, <3>2, PercentileIsQuantile
  <2> QED BY <2>5, <2>6
<1> QED BY <1>1, ReportInvariance, PTL
===============================================================================
