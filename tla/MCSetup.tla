--------------------------------- MODULE MCSetup --------------------------------
(* Packs with each mistake that the loader or the linter looks for.          *)
EXTENDS Setup, TLC

Rule(id) ==
    [mapping |-> TRUE, id |-> id, pattern |-> "plain", score |-> 50,
     apply_to |-> {"server_to_client"}, description |-> "long", source |-> "url",
     tier |-> "stable", examples |-> "match", benign |-> "quiet"]

With(field, value) == [Rule("b") EXCEPT ![field] = value]

File(rules) == [form |-> "rules", rules |-> rules]
Odd(form)   == [form |-> form, rules |-> <<>>]

Dir(files)  == [kind |-> "directory", files |-> files]

\* The second file of a directory whose first one has the sound rule "a".
Second ==
    {File(<<>>), File(<<Rule("a")>>), File(<<Rule("b"), Rule("b")>>),
     File(<<Rule("c"), With("pattern", "slow")>>),
     Odd("broken"), Odd("no list"), Odd("undecodable")}
    \cup {File(<<With(m[1], m[2])>>) :
        m \in {<<"mapping", FALSE>>, <<"id", NoText>>, <<"pattern", "invalid">>,
               <<"score", 101>>, <<"apply_to", {"sideways"}>>,
               <<"apply_to", {"server_to_client", Unhashable}>>, <<"tier", "missing">>}}

Places ==
    {Dir("f1" :> File(<<Rule("a")>>) @@ "f2" :> f) : f \in Second}
    \cup {Dir(<<>>), [kind |-> "missing", files |-> <<>>],
          [kind |-> "file", files |-> "f1" :> File(<<Rule("a")>>)]}

Policies(given, configured) == [o \in {"given", "configured"} |->
    IF o = "given" THEN given ELSE configured]

Sound ==
    [place |-> Dir("f1" :> File(<<Rule("a")>>) @@ "f2" :> File(<<Rule("b")>>)),
     policies |-> Policies("sound", "sound"),
     config |-> [sound |-> TRUE, enabled |-> TRUE, rules |-> "custom", policies |-> TRUE],
     db |-> "v1"]

Duplicates ==
    [Sound EXCEPT !.place = Dir("f1" :> File(<<Rule("a")>>) @@ "f2" :> File(<<Rule("a")>>)),
                  !.db = "unwritable"]

Unsuited ==
    [Sound EXCEPT !.policies = Policies("missing", "broken"), !.config.enabled = FALSE]

\* One thing that is not as it should be.
MCWorlds ==
    {[Sound EXCEPT !.place = p] : p \in Places}
    \cup {[Sound EXCEPT !.policies = p] :
            p \in {Policies("broken", "sound"), Policies("sound", "missing")}}
    \cup {[Sound EXCEPT !.config = c] :
            c \in {[Sound.config EXCEPT !.sound = FALSE],
                   [Sound.config EXCEPT !.policies = FALSE],
                   [Sound.config EXCEPT !.rules = "default"]}}
    \cup {[Sound EXCEPT !.db = d] : d \in {"absent", "newer", "unwritable"}}

MCEdited == {Sound, Duplicates, Unsuited}
===============================================================================
