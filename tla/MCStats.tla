--------------------------------- MODULE MCStats --------------------------------
(* Rows whose times are not in the order of their ids.                       *)
EXTENDS Stats

Row(ts, verdict, rules, latency) ==
    [ts |-> ts, verdict |-> verdict, form |-> "list", rules |-> rules, latency |-> latency]

\* An event that was not inspected, and one whose rules cannot be read.
Plain(ts, latency) == [Row(ts, "none", {}, latency) EXCEPT !.form = "null"]
Damaged(ts)        == [Row(ts, "PASS", {"b"}, Null) EXCEPT !.form = "unreadable"]

MCLogs ==
    {<<Row(1, "PASS", {"a"}, 3), Row(3, "BLOCK", {"a", "b"}, 9), Damaged(2),
       Plain(4, 1), Row(2, "WARN", {"c"}, 4)>>,
     <<Row(2, "WARN", {"b"}, 7), Row(1, "WARN", {"c"}, 7), Plain(3, 2),
       Row(2, "BLOCK", {"c", "b"}, 5), Row(3, "PASS", {}, 2)>>}
===============================================================================
