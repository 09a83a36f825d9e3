------------------------------- MODULE RulePacks --------------------------------
(***************************************************************************)
(* Rule packs: what the loader of detectors/rules.py accepts and what the  *)
(* linter of lint.py says about the same files, as operators.              *)
(*                                                                         *)
(* A place is what a path leads to: a directory, a single file or nothing. *)
(* A file has a form, and a sequence of raw rules where its form is        *)
(* "rules".  Of a raw rule the model keeps what the checks tell apart; a   *)
(* score is in hundredths, and a value that is not a number is a score     *)
(* outside 0..100, which ends in the same error.                           *)
(***************************************************************************)
EXTENDS Integers, Sequences, FiniteSets

Directions == {"client_to_server", "server_to_client"}

\* An entry of apply_to that cannot be a member of a set, such as a list.
Unhashable == "unhashable"

\* A required field that is missing, not a string, or blank.
NoText == "no text"

-------------------------------------------------------------------------------
(* detectors/rules.py                                                      *)

\* _compile_rule() asks first for a mapping, the id, the pattern and the score.
HasFields(raw) ==
    /\ raw.mapping
    /\ raw.id # NoText /\ raw.pattern # NoText
    /\ raw.score \in 0..100

\* `d not in _VALID_DIRECTIONS' is a TypeError, which nobody expects.
CompileRaises(raw) == HasFields(raw) /\ Unhashable \in raw.apply_to

Compiles(raw) ==
    /\ HasFields(raw)
    /\ raw.apply_to \subseteq Directions
    /\ raw.pattern # "invalid"

RuleAt(place, f, i) == place.files[f].rules[i]

\* The rules of the files that can be read: pairs of a file and a number.
RulesOf(place) ==
    UNION {{f} \X DOMAIN place.files[f].rules :
        f \in {g \in DOMAIN place.files : place.files[g].form = "rules"}}

\* No rule id occurs twice in any of the files.
DistinctIds(place) ==
    \A r, s \in RulesOf(place) :
        RuleAt(place, r[1], r[2]).id = RuleAt(place, s[1], s[2]).id => r = s

\* RulesEngine.from_directory() returns; an empty directory has no rules.
Loads(place) ==
    /\ place.kind = "directory"
    /\ \A f \in DOMAIN place.files : place.files[f].form = "rules"
    /\ \A r \in RulesOf(place) : Compiles(RuleAt(place, r[1], r[2]))
    /\ DistinctIds(place)

-------------------------------------------------------------------------------
(* lint.py                                                                 *)

\* The remarks of _strict_checks() on the data of a rule, without the probe.
Remarks(raw) ==
    {m \in {"nested", "description", "source", "source url", "tier", "unknown tier",
            "examples", "not strings", "drifted", "firing"} :
        \/ m = "nested"       /\ raw.pattern = "nested"
        \/ m = "description"  /\ raw.description = "short"
        \/ m = "source"       /\ raw.source = "missing"
        \/ m = "source url"   /\ raw.source = "no url"
        \/ m = "tier"         /\ raw.tier = "missing"
        \/ m = "unknown tier" /\ raw.tier \notin {"missing", "experimental", "stable"}
        \/ m = "examples"     /\ raw.examples = "missing"
        \/ m = "not strings"  /\ raw.examples = "not strings"
        \/ m = "drifted"      /\ raw.examples = "some do not match"
        \/ m = "firing"       /\ raw.benign = "some match"}

\* What becomes of a file: its rules are read, it is no YAML, no mapping or
\* without a list of rules, or its bytes are no text.
Forms == {"rules", "broken", "no mapping", "no list", "undecodable"}

\* Files on which _lint_one() reports one error and looks no further.
Unusable(file) == file.form \in {"broken", "no mapping", "no list"}

\* lint_path() raises: bytes that are no UTF-8, and the TypeError above.
LintRaises(place) ==
    \/ \E f \in DOMAIN place.files : place.files[f].form = "undecodable"
    \/ \E r \in RulesOf(place) : CompileRaises(RuleAt(place, r[1], r[2]))

\* Slip: `rules' is not checked to be a list.
LintErrorsUnlisted(place) ==
    {<<>> : x \in {place.files} \cap {<<>>}}
    \cup {<<f>> : f \in {g \in DOMAIN place.files :
            Unusable(place.files[g]) /\ place.files[g].form # "no list"}}
    \cup {r \in RulesOf(place) : ~Compiles(RuleAt(place, r[1], r[2]))}

\* What it reports as an error: a path with no files, a file, or a rule.
LintErrors(place) ==
    {<<>> : x \in {place.files} \cap {<<>>}}
    \cup {<<f>> : f \in {g \in DOMAIN place.files : Unusable(place.files[g])}}
    \cup {r \in RulesOf(place) : ~Compiles(RuleAt(place, r[1], r[2]))}
===============================================================================
