-------------------------------- MODULE Policy ---------------------------------
(***************************************************************************)
(* policy.py and the matching half of detectors/rules.py, as operators:    *)
(* which action a policy takes on what the detectors found in a frame.     *)
(*                                                                         *)
(* A score is in hundredths.  What a pattern matches is not modelled: a    *)
(* frame comes with the rules whose patterns it matches in any of the      *)
(* three passes, and with the markers that occur in its text.              *)
(***************************************************************************)
EXTENDS Integers, Sequences, FiniteSets, FiniteSetsExt

Actions == {"allow", "warn", "block", "rewrite"}

WhenKeys == {"direction", "method", "classifier", "detector_score_at_least",
             "tool_args_match_any", "rules_hit_any"}

\* What the loader accepts.  Only "block" must not match every frame.
Loadable(policy) ==
    /\ policy.default \in Actions
    /\ \A i \in DOMAIN policy.rules :
        LET rule == policy.rules[i] IN
        /\ rule.action \in Actions
        /\ DOMAIN rule.when \subseteq WhenKeys
        /\ rule.action = "block" => DOMAIN rule.when # {}
        /\ \A j \in DOMAIN policy.rules : policy.rules[j].name = rule.name => i = j

-------------------------------------------------------------------------------
\* All clauses that are present must hold of the facts f.
Matches(when, f) ==
    /\ "direction" \in DOMAIN when => when.direction = f.direction
    /\ "method" \in DOMAIN when => when.method = f.method
    /\ "classifier" \in DOMAIN when => when.classifier = f.classifier
    /\ "detector_score_at_least" \in DOMAIN when =>
        f.score >= when.detector_score_at_least
    /\ "tool_args_match_any" \in DOMAIN when =>
        when.tool_args_match_any \cap f.markers # {}
    /\ "rules_hit_any" \in DOMAIN when => when.rules_hit_any \cap f.hits # {}

\* The first rule that matches wins.
Decide(policy, f) ==
    LET hits == {i \in DOMAIN policy.rules : Matches(policy.rules[i].when, f)}
    IN  IF hits = {} THEN policy.default ELSE policy.rules[Min(hits)].action

-------------------------------------------------------------------------------
\* Rules of a pack that apply in a direction, and the score of those that hit.
Hits(pack, matched, direction) ==
    {r \in matched : direction \in pack[r].apply_to}

RulesScore(pack, hits) == Max({0} \cup {pack[r].score : r \in hits})

-------------------------------------------------------------------------------
Rule(name, when, action) == [name |-> name, when |-> when, action |-> action]

\* default_policy().
DefaultPolicy ==
    [default |-> "allow",
     rules |-> <<
        Rule("block_high_score_s2c",
             [direction |-> "s2c", detector_score_at_least |-> 85], "block"),
        Rule("warn_classifier_instruction",
             [direction |-> "s2c", classifier |-> "INSTRUCTION"], "warn"),
        Rule("block_shell_injection_c2s",
             [direction |-> "c2s",
              rules_hit_any |-> {"shell.rm_rf_root_or_home",
                                 "shell.curl_pipe_to_shell",
                                 "shell.base64_decoded_pipe",
                                 "shell.reverse_shell_classic"}], "block"),
        Rule("warn_history_clearing_c2s",
             [direction |-> "c2s",
              rules_hit_any |-> {"shell.history_clearing"}], "warn") >>]
===============================================================================
