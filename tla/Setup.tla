---------------------------------- MODULE Setup ---------------------------------
(***************************************************************************)
(* The commands around a start of the proxy (cli.py): doctor, rules lint,  *)
(* detect and the first steps of run, on the same configuration, rules,    *)
(* policies and database (config.py, doctor.py, lint.py), while somebody   *)
(* edits the files.  One command runs at a time, beside other processes    *)
(* that may hold the database for longer than SQLite waits; run counts as  *)
(* ended when it has all it needs to pump (proxy.py: run_proxy).           *)
(*                                                                         *)
(* With --strict the linter tries each pattern under a real-time timer,    *)
(* whose signal Python handles between two steps of the program, wherever  *)
(* it is then.                                                             *)
(***************************************************************************)
EXTENDS RulePacks

CONSTANTS
    Worlds,         \* what the commands may find: rules, policies, ...
    Edited,         \* what somebody may put in the place of one of these
    MaxCommands,    \* bound: commands in a behaviour
    MaxEdits        \* bound: edits in a behaviour

ASSUME BoundsAssumption == MaxCommands \in Nat /\ MaxEdits \in Nat
ASSUME WorldsAssumption ==
    \A w \in Worlds \cup Edited :
        /\ w.config.rules \in {"default", "custom"}
        /\ \A f \in DOMAIN w.place.files : w.place.files[f].form \in Forms

VARIABLES
    place, policies, config, db,    \* what the commands find
    cmd, step, flags,               \* the command that runs, and each one's flags
    checks,                         \* doctor: the results so far
    read, todo, trying, slow,       \* linter: what it read; the rules to try, the
                                    \* one it tries, and those that were too slow
    timer, tripped, handler,        \* SIGALRM of the process
    outcome,                        \* how each command ended when it last ran
    current,                        \* history: what each read that is still the same
    begun, edits                    \* commands and edits so far

world     == <<place, policies, config, db>>
command   == <<cmd, step, flags, checks>>
probe     == <<read, todo, trying, slow, timer, tripped, handler>>
setupVars == <<world, command, probe, outcome, current, begun, edits>>

Commands == {"doctor", "lint", "strict", "detect", "run"}

\* Where the policy comes from: a flag, the configuration, or the code.
Origins == {"given", "configured", "built-in"}

Things == {"config", "rules", "policy", "db"}

\* The command in --server: one that starts, one that does not, or no command.
Servers == {"starts", "absent", "malformed"}

SetupInit ==
    /\ \E w \in Worlds :
        place = w.place /\ policies = w.policies /\ config = w.config /\ db = w.db
    /\ cmd = "none" /\ step = "idle" /\ checks = {}
    /\ flags = [c \in Commands |-> [detector |-> "unset", policies |-> FALSE, server |-> "starts"]]
    /\ read = place /\ todo = {} /\ trying = <<>> /\ slow = {}
    /\ timer = "off" /\ tripped = FALSE /\ handler = "default"
    /\ outcome = [c \in Commands |-> "none"]
    /\ current = [c \in Commands |-> {}]
    /\ begun = 0 /\ edits = 0

-------------------------------------------------------------------------------
(* Settings: a flag wins over the file, the file over the defaults.        *)

Detecting ==
    \/ cmd = "detect" \/ flags[cmd].detector = "on"
    \/ flags[cmd].detector = "unset" /\ config.enabled

\* The rules that are shipped with the program always load.
RulesLoad == config.rules = "default" \/ Loads(place)

RulesMissing == config.rules = "custom" /\ place.kind # "directory"

PolicyOrigin ==
    IF flags[cmd].policies THEN "given"
    ELSE IF config.policies THEN "configured" ELSE "built-in"

PolicyLoads == PolicyOrigin = "built-in" \/ policies[PolicyOrigin] = "sound"

PolicyMissing == PolicyOrigin # "built-in" /\ policies[PolicyOrigin] = "missing"

-------------------------------------------------------------------------------
Goes(to) == step' = to /\ UNCHANGED <<cmd, flags>>

\* The command ends, and the process with what it had of the signal.
Ends(how) ==
    /\ step' = "idle" /\ cmd' = "none" /\ UNCHANGED flags
    /\ outcome' = [outcome EXCEPT ![cmd] = how]

Reads(things) == current' = [current EXCEPT ![cmd] = @ \cup things]

\* doctor takes no flags about the detector, detect no --detector.
Begin(c) ==
    /\ step = "idle" /\ begun < MaxCommands /\ begun' = begun + 1
    /\ cmd' = c
    /\ \E f \in [detector : IF c = "run" THEN {"unset", "on", "off"} ELSE {"unset"},
                policies : IF c \in {"run", "detect"} THEN BOOLEAN ELSE {FALSE},
                server : IF c = "run" THEN Servers ELSE {"starts"}] :
        flags' = [flags EXCEPT ![c] = f]
    /\ step' = IF c \in {"lint", "strict"} THEN "lint" ELSE "resolve"
    /\ checks' = {}
    /\ read' = place /\ todo' = {} /\ trying' = <<>> /\ slow' = {}
    /\ timer' = "off" /\ tripped' = FALSE /\ handler' = "default"
    /\ outcome' = [outcome EXCEPT ![c] = "none"]
    /\ current' = [current EXCEPT ![c] = {}]
    /\ UNCHANGED <<world, edits>>

\* click refuses a policy file that is not there before the command begins.
Refused == flags[cmd].policies /\ policies["given"] = "missing"

\* A configuration that is not a mapping, or has a word where a number belongs,
\* and a server command that shlex cannot split or that is empty.
Resolve ==
    /\ step = "resolve"
    /\ Reads({"config"})
    /\ CASE Refused                    -> Ends("missing")
         [] ~Refused /\ ~config.sound  -> Ends("raised")
         [] ~Refused /\ config.sound   ->
                IF flags[cmd].server = "malformed" THEN Ends("no server")
                ELSE /\ Goes(CASE cmd = "doctor" -> "environment" [] cmd = "run" -> "open"
                               [] cmd = "detect" -> "rules")
                     /\ UNCHANGED outcome
    /\ UNCHANGED <<world, checks, probe, begun, edits>>

\* Storage.open(): a new or old file is brought up to date.
Opened == IF db \in {"absent", "v1"} THEN "v2" ELSE db

\* What is left where another process holds the file for too long.
LeftBehind == {db} \cup (IF db = "absent" THEN {"v1"} ELSE {})

Open ==
    /\ step = "open" /\ cmd # "doctor"
    /\ Reads({"db"})
    /\ \/ db' = Opened
          /\ CASE db = "unwritable"                   -> Ends("failed")
               [] db # "unwritable" /\ cmd = "run"    -> Goes("session") /\ UNCHANGED outcome
               [] db # "unwritable" /\ cmd = "detect" -> Ends("ok")
       \/ db # "unwritable" /\ db' \in LeftBehind /\ Ends("busy")
    /\ UNCHANGED <<place, policies, config, checks, probe, begun, edits>>

\* run_proxy() goes on, or fails for a reason that no other command meets.
GoesOrEnds(to, how) == (Goes(to) /\ UNCHANGED outcome) \/ Ends(how)

Same == UNCHANGED <<world, checks, probe, current, begun, edits>>

\* start_session(), which waits for the file's write lock once more.
StartSession == step = "session" /\ GoesOrEnds("spawn", "busy") /\ Same

\* create_subprocess_exec().
Spawn ==
    /\ step = "spawn"
    /\ IF flags["run"].server = "starts" THEN Goes("patch") /\ UNCHANGED outcome
       ELSE Ends("no server")
    /\ Same

\* _patch_session_with_server_pid().  (Pipes that cannot be connected are no
\* reason to fail: there is a fallback.)
PatchPid == step = "patch" /\ GoesOrEnds("rules", "busy") /\ Same

\* _build_inspector(), of which nothing is done if the detector is off.  Only
\* detect tells a missing file from a broken one.
LoadRules ==
    /\ step = "rules" /\ cmd \in {"run", "detect"}
    /\ Reads({"rules"})
    /\ CASE ~Detecting               -> Ends("ok")
         [] Detecting /\ RulesLoad   -> Goes("policy") /\ UNCHANGED outcome
         [] Detecting /\ ~RulesLoad  ->
                Ends(IF cmd = "detect" /\ RulesMissing THEN "missing" ELSE "failed")
    /\ UNCHANGED <<world, checks, probe, begun, edits>>

LoadPolicy ==
    /\ step = "policy" /\ cmd \in {"run", "detect"}
    /\ Reads({"policy"})
    /\ CASE PolicyLoads /\ cmd = "run"     -> Ends("ok")
         [] PolicyLoads /\ cmd = "detect"  -> Goes("open") /\ UNCHANGED outcome
         [] ~PolicyLoads                   ->
                Ends(IF cmd = "detect" /\ PolicyMissing THEN "missing" ELSE "failed")
    /\ UNCHANGED <<world, checks, probe, begun, edits>>

Start == Resolve \/ Open \/ StartSession \/ Spawn \/ PatchPid \/ LoadRules \/ LoadPolicy

-------------------------------------------------------------------------------
(* doctor: run_checks() and overall_status().                              *)

Overall(results) ==
    IF "fail" \in results THEN "fail" ELSE IF "warn" \in results THEN "warn" ELSE "pass"

\* _check_python() and _check_ollama(), which only warns.
CheckEnvironment ==
    /\ step = "environment"
    /\ \E python \in {"pass", "fail"}, ollama \in {"pass", "warn"} :
        checks' = {python, ollama}
    /\ Goes("database")
    /\ UNCHANGED <<world, probe, outcome, current, begun, edits>>

\* _check_db() opens the storage, which migrates it; it fails on any exception.
CheckDb ==
    /\ step = "database"
    /\ Reads({"db"})
    /\ \/ /\ db' = Opened
          /\ checks' = checks \cup
                {CASE db = "unwritable" -> "fail" [] db = "newer" -> "warn"
                   [] db \notin {"unwritable", "newer"} -> "pass"}
       \/ db' \in LeftBehind /\ checks' = checks \cup {"fail"}
    /\ Goes("check rules")
    /\ UNCHANGED <<place, policies, config, probe, outcome, begun, edits>>

EndDoctor(result) == Ends(Overall(checks \cup {result})) /\ UNCHANGED checks

\* _check_rules_and_policy(): an exception of the linter is not caught.
CheckRules ==
    /\ step = "check rules"
    /\ CASE config.rules = "default" \/ (~LintRaises(place) /\ LintErrors(place) = {}) ->
                Goes("check load") /\ UNCHANGED <<checks, outcome>>
         [] config.rules = "custom" /\ LintRaises(place) -> Ends("raised") /\ UNCHANGED checks
         [] config.rules = "custom" /\ ~LintRaises(place) /\ LintErrors(place) # {} ->
                EndDoctor("fail")
    /\ UNCHANGED <<world, probe, current, begun, edits>>

\* Slip: rules that pass the linter are taken to load.
CheckLoadTrusting ==
    /\ step = "check load"
    /\ Reads({"rules"})
    /\ Goes("check policy") /\ UNCHANGED <<checks, outcome>>
    /\ UNCHANGED <<world, probe, begun, edits>>

CheckLoad ==
    /\ step = "check load"
    /\ Reads({"rules"})
    /\ IF RulesLoad THEN Goes("check policy") /\ UNCHANGED <<checks, outcome>>
       ELSE EndDoctor("fail")
    /\ UNCHANGED <<world, probe, begun, edits>>

CheckPolicy ==
    /\ step = "check policy"
    /\ Reads({"policy"})
    /\ EndDoctor(IF PolicyLoads THEN "pass" ELSE "fail")
    /\ UNCHANGED <<world, probe, begun, edits>>

Doctor == CheckEnvironment \/ CheckDb \/ CheckRules \/ CheckLoad \/ CheckPolicy

-------------------------------------------------------------------------------
(* rules lint: lint_path() on the place of the rules.                      *)

\* The exit code of cmd_rules_lint: only the strict mode makes remarks.
Verdict(p) ==
    LET remarked == slow # {} \/ \E r \in RulesOf(p) : Remarks(RuleAt(p, r[1], r[2])) # {}
    IN  IF LintErrors(p) # {} \/ (cmd = "strict" /\ remarked) THEN "fail" ELSE "pass"

\* The files are read; in strict mode each rule that compiles is tried.  (An
\* exception comes up after the trials of the rules before it.)
Lint ==
    /\ step = "lint"
    /\ Reads({"rules"})
    /\ read' = place
    /\ CASE LintRaises(place)                    -> Ends("raised") /\ UNCHANGED todo
         [] ~LintRaises(place) /\ cmd = "lint"   -> Ends(Verdict(place)) /\ UNCHANGED todo
         [] ~LintRaises(place) /\ cmd = "strict" ->
                /\ todo' = {r \in RulesOf(place) : Compiles(RuleAt(place, r[1], r[2]))}
                /\ Goes("next") /\ UNCHANGED outcome
    /\ UNCHANGED <<world, checks, trying, slow, timer, tripped, handler, begun, edits>>

Still == UNCHANGED <<world, checks, outcome, current, begun, edits>>

\* _timed_match_ok(): the handler is installed, the timer set, ...
Install ==
    /\ step = "next" /\ ~tripped
    /\ trying' \in todo /\ todo' = todo \ {trying'}
    /\ handler' = "lint" /\ Goes("set")
    /\ UNCHANGED <<read, slow, timer, tripped>> /\ Still

SetTimer ==
    /\ step = "set" /\ ~tripped
    /\ timer' = "on" /\ Goes("try")
    /\ UNCHANGED <<read, todo, trying, slow, tripped, handler>> /\ Still

Try ==
    /\ step = "try" /\ ~tripped
    /\ Goes("search")
    /\ UNCHANGED probe /\ Still

\* ... and the search comes to an end, unless the pattern is a slow one.
Search ==
    /\ step = "search" /\ RuleAt(read, trying[1], trying[2]).pattern # "slow"
    /\ Goes("finally")
    /\ UNCHANGED probe /\ Still

\* Slip: the timer is not stopped.
ForgetTimer ==
    /\ step = "finally"
    /\ Goes("restore")
    /\ UNCHANGED probe /\ Still

\* finally: the timer is stopped, and then the old handler put back.
StopTimer ==
    /\ step = "finally"
    /\ timer' = "off" /\ Goes("restore")
    /\ UNCHANGED <<read, todo, trying, slow, tripped, handler>> /\ Still

Restore ==
    /\ step = "restore" /\ ~tripped
    /\ handler' = "default" /\ Goes("next")
    /\ UNCHANGED <<read, todo, trying, slow, timer, tripped>> /\ Still

\* The time is up.
Alarm ==
    /\ timer = "on" /\ step # "idle"
    /\ timer' = "off" /\ tripped' = TRUE
    /\ UNCHANGED <<command, read, todo, trying, slow, handler>>
    /\ UNCHANGED <<world, outcome, current, begun, edits>>

\* The handler raises TimeoutError where the program is: the search turns it
\* into a remark, before and after the search it leaves the function.
Handle ==
    /\ tripped /\ step # "idle"
    /\ tripped' = FALSE
    /\ IF step = "search"
         THEN slow' = slow \cup {trying} /\ Goes("finally") /\ UNCHANGED outcome
         ELSE Ends("raised") /\ UNCHANGED slow
    /\ UNCHANGED <<world, checks, read, todo, trying, timer, handler, current, begun, edits>>

EndLint ==
    /\ step = "next" /\ todo = {} /\ ~tripped
    /\ Ends(Verdict(read))
    /\ UNCHANGED <<world, checks, probe, current, begun, edits>>

Linter == Lint \/ Install \/ SetTimer \/ Try \/ Search \/ StopTimer \/ Restore
            \/ Alarm \/ Handle \/ EndLint

-------------------------------------------------------------------------------
\* What the commands read of a thing is out of date.
Changed(thing) == current' = [c \in Commands |-> current[c] \ {thing}]

\* Somebody edits one of the things.
Edit ==
    /\ edits < MaxEdits /\ edits' = edits + 1
    /\ \E w \in Edited :
        \/ place' = w.place /\ Changed("rules") /\ UNCHANGED <<policies, config, db>>
        \/ policies' = w.policies /\ Changed("policy") /\ UNCHANGED <<place, config, db>>
        \/ config' = w.config /\ Changed("config") /\ UNCHANGED <<place, policies, db>>
        \/ db' = w.db /\ Changed("db") /\ UNCHANGED <<place, policies, config>>
    /\ UNCHANGED <<command, probe, outcome, begun>>

SetupNext == (\E c \in Commands : Begin(c)) \/ Start \/ Doctor \/ Linter \/ Edit

\* A command goes on, and a timer that is set goes off.
SetupSpec == SetupInit /\ [][SetupNext]_setupVars /\ WF_setupVars(Start \/ Doctor \/ Linter)
-------------------------------------------------------------------------------
(* Properties.                                                             *)

\* What a start does with settings, policy, database or rules that will not do.
Unsuitable == {"missing", "raised", "failed"}

\* A start of the proxy never meets settings, an audit file, rules or a policy
\* that will not do after a doctor that reports no failure, or a detect that
\* comes to a verdict, has passed the same ones with the same policies, as long
\* as nothing is edited after they read it, whatever changed while they ran
\* (doctor.py reads the rules twice, and each command loads them by itself).
\* Nothing is foretold of the server command, or of a database that another
\* process holds at that moment: such a start ends otherwise.
RehearsalIsRight ==
    [][ outcome'["run"] \in Unsuitable /\ outcome["run"] \notin Unsuitable =>
        /\ ~flags["run"].policies /\ current["doctor"] = Things =>
                outcome["doctor"] \notin {"pass", "warn"}
        /\ flags["run"].policies = flags["detect"].policies /\ current["detect"] = Things =>
                outcome["detect"] # "ok" ]_setupVars

\* The linter and the loader read the same files in their own ways.  What the
\* linter passes the loader accepts, but for ids that occur twice; and the
\* linter has nothing against what the loader accepts, but for a directory
\* without files.
LintIsRight ==
    \A c \in {"lint", "strict"} :
        place.kind = "directory" /\ "rules" \in current[c] =>
            /\ outcome[c] = "pass" => Loads(place) \/ ~DistinctIds(place)
            /\ c = "lint" /\ outcome[c] \in {"fail", "raised"} =>
                ~Loads(place) \/ place.files = <<>>

\* The trials of the patterns do not touch each other: no timer runs and no
\* signal is on its way when the next one begins, and the handler is the old
\* one, so that nobody is interrupted by the timer of another pattern.
TrialsAreApart ==
    /\ timer = "on" => step \in {"try", "search", "finally"}
    /\ step \in {"next", "set"} => ~tripped
    /\ step = "next" => handler = "default"

(* What the documentation says, and the code does not do.                  *)

\* "Mirrors what RulesEngine.from_directory enforces."
LintMirrorsLoader ==
    place.kind = "directory" /\ "rules" \in current["lint"] /\ outcome["lint"] = "pass"
        => Loads(place)

\* "Returns an empty list when the lint passes; a non-empty list ... otherwise."
LintReturns == outcome["lint"] # "raised"

\* "Return True if pattern.search(text) completes within timeout_s."
TrialsReturn == outcome["strict"] = "raised" => LintRaises(read)

\* "The next time you run `bulwark run ...` the migration will apply."
DoctorOnlyLooks == [][cmd = "doctor" => db' = db]_setupVars
===============================================================================
