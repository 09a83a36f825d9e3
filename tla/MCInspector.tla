------------------------------ MODULE MCInspector ------------------------------
(* Some shipped rules, the shipped policy and the one of the runbook, and a   *)
(* frame for every way through the cascade.                                   *)
EXTENDS Inspector

BuiltinRules ==
    [ r \in {"shell.rm_rf_root_or_home", "shell.history_clearing",
             "role_hijack.ignore_previous", "html.hidden_comment_imperative",
             "unicode.tag_chars"} |->
        CASE r = "shell.rm_rf_root_or_home" ->
                [score |-> 95, apply_to |-> {"c2s"}]
          [] r = "shell.history_clearing" ->
                [score |-> 70, apply_to |-> {"c2s"}]
          [] r = "role_hijack.ignore_previous" ->
                [score |-> 85, apply_to |-> {"s2c"}]
          [] r = "html.hidden_comment_imperative" ->
                [score |-> 80, apply_to |-> {"s2c"}]
          [] r = "unicode.tag_chars" ->
                [score |-> 95, apply_to |-> {"c2s", "s2c"}] ]

RunbookPolicy ==
    [default |-> "allow",
     rules |-> <<
        Rule("my_strict_block",
             [direction |-> "s2c", detector_score_at_least |-> 70], "block"),
        Rule("paranoid_classifier",
             [direction |-> "s2c", classifier |-> "INSTRUCTION"], "block") >>]

Shipped == {DefaultPolicy}
Both == {DefaultPolicy, RunbookPolicy}

Frame(direction, kind, content, size, text, matched) ==
    [direction |-> direction, kind |-> kind, content |-> content,
     size |-> size, text |-> text, matched |-> matched,
     method |-> "tools/call", markers |-> {}]

Tool(size, text, matched) == Frame("s2c", "response", "text", size, text, matched)

\* One for each early return before the classifier, and what the rules find.
Cascade == {
    Tool("fits", "t1", {}),
    Tool("truncated", "t1", {"role_hijack.ignore_previous"}),
    Tool("fits", "t1", {"html.hidden_comment_imperative"}),
    Tool("fits", "t1", {"unicode.tag_chars"}),
    Tool("short", "t1", {}), Tool("blank", "t1", {}), Tool("long", "t1", {"role_hijack.ignore_previous"}),
    Frame("s2c", "response", "other", "fits", "t1", {}),
    Frame("s2c", "notification", "none", "fits", "t1", {"unicode.tag_chars"}),
    Frame("c2s", "request", "none", "fits", "t1", {"shell.rm_rf_root_or_home"}),
    Frame("c2s", "request", "none", "fits", "t1", {"shell.history_clearing"}),
    Frame("c2s", "notification", "none", "fits", "t1", {"shell.rm_rf_root_or_home"}),
    Frame("c2s", "parse_error", "none", "fits", "t1", {"role_hijack.ignore_previous"})
}

\* Contents that the rules know nothing of.
OneTool == {Tool("fits", "t1", {})}
TwoTools == {Tool("fits", "t1", {}), Tool("truncated", "t2", {})}

\* Every way through the cascade, and another content in the cache.
AllFrames == Cascade \cup {Tool("fits", "t2", {})}

OneText == {"t1"}
TwoTexts == {"t1", "t2"}
===============================================================================
