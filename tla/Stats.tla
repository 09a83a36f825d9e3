---------------------------------- MODULE Stats ---------------------------------
(***************************************************************************)
(* compute_stats() of stats.py, called by bulwark stats: four queries on   *)
(* one window of time, without a transaction, while the proxies of Follow  *)
(* go on committing rows.  An event has its time from the moment it was    *)
(* recorded, so that rows of the window may be committed after it ended.   *)
(***************************************************************************)
EXTENDS Follow, FiniteSetsExt

CONSTANTS
    Logs,       \* what the rows may hold: functions of their ids
    Span,       \* length of the window
    Top,        \* rules that are listed, 5 in the code
    Now         \* bound: the latest time

ASSUME WindowAssumption == Span \in Nat \ {0} /\ Top \in Nat \ {0} /\ Now \in Nat
ASSUME LogsAssumption ==
    \A l \in Logs : \A id \in 1..MaxRows : l[id].ts \in Nat /\ l[id].latency \in Int

VARIABLES
    log,        \* what the rows hold
    at,         \* the query that is next
    end,        \* the end of the window
    total, verdicts, hits, samples,     \* what the queries gave
    atStart     \* history: rows in the table when it began

statistics == <<log, at, end, total, verdicts, hits, samples, atStart>>
statsVars  == <<vars, statistics>>

Verdicts == {"PASS", "WARN", "BLOCK"}

\* A latency that is NULL; det_rules may also be no JSON list, or too long.
Null == -1

StatsInit ==
    /\ Init /\ log \in Logs
    /\ at = "idle" /\ end = 0 /\ atStart = 0
    /\ total = 0 /\ verdicts = [v \in Verdicts |-> 0] /\ hits = <<>> /\ samples = <<>>

\* The rows of the window, of the first rows of the table.
InWindow(rowsOf) == {id \in 1..rowsOf : end - Span <= log[id].ts /\ log[id].ts < end}

Judged(v, rowsOf)   == {id \in InWindow(rowsOf) : log[id].verdict = v}
Readable(rowsOf)    == {id \in InWindow(rowsOf) : log[id].form = "list"}
Hit(r, rowsOf)      == {id \in Readable(rowsOf) : r \in log[id].rules}
Measured(rowsOf)    == {id \in InWindow(rowsOf) : log[id].latency # Null}

Answers(next) == at' = next /\ UNCHANGED <<vars, log, end, atStart>>

\* The clock is past the rows that have been inserted, not past those that
\* are still to be.
TakeWindow ==
    /\ at = "idle"
    /\ end' \in {t \in 1..Now : \A id \in 1..(table + tx) : log[id].ts < t}
    /\ at' = "total" /\ atStart' = table
    /\ UNCHANGED <<vars, log, total, verdicts, hits, samples>>

CountAll ==
    /\ at = "total"
    /\ total' = Cardinality(InWindow(table))
    /\ Answers("verdicts") /\ UNCHANGED <<verdicts, hits, samples>>

CountVerdicts ==
    /\ at = "verdicts"
    /\ verdicts' = [v \in Verdicts |-> Cardinality(Judged(v, table))]
    /\ Answers("rules") /\ UNCHANGED <<total, hits, samples>>

\* The first rules by their hits, those with as many in any order.
CountRules ==
    /\ at = "rules"
    /\ LET counted  == UNION {log[id].rules : id \in Readable(table)}
           count(r) == Cardinality(Hit(r, table))
       IN  \E listed \in kSubset(Least(Top, Cardinality(counted)), counted) :
            /\ \A r \in listed, s \in counted \ listed : count(r) >= count(s)
            /\ hits' = [r \in listed |-> count(r)]
    /\ Answers("latency") /\ UNCHANGED <<total, verdicts, samples>>

\* The latencies of some rows, in ascending order.
Sorted(ids) ==
    LET order == CHOOSE f \in [1..Cardinality(ids) -> ids] :
                    /\ IsInjective(f)
                    /\ \A i, j \in DOMAIN f :
                        i < j => log[f[i]].latency <= log[f[j]].latency
    IN  [i \in 1..Cardinality(ids) |-> log[order[i]].latency]

Measure ==
    /\ at = "latency"
    /\ samples' = Sorted(Measured(table))
    /\ Answers("done") /\ UNCHANGED <<total, verdicts, hits>>

\* Slip: the rank counts from one.
PercentileOfLen(s, p) ==
    LET rank == Len(s) * p
        lo   == Least(rank \div 100, Len(s) - 1)
        hi   == Least(lo + 1, Len(s) - 1)
    IN  s[lo + 1] * 100 + (s[hi + 1] - s[lo + 1]) * (rank % 100)

\* _percentile(): a hundred times the value that is interpolated at the rank,
\* which in the code counts from zero.
Percentile(s, p) ==
    LET rank == (Len(s) - 1) * p
        lo   == rank \div 100
        hi   == Least(lo + 1, Len(s) - 1)
    IN  s[lo + 1] * 100 + (s[hi + 1] - s[lo + 1]) * (rank % 100)

ComputeStats == TakeWindow \/ CountAll \/ CountVerdicts \/ CountRules \/ Measure

StatsNext == (Next /\ UNCHANGED statistics) \/ ComputeStats

StatsSpec ==
    /\ StatsInit /\ [][StatsNext]_statsVars
    /\ WF_statsVars(Seed /\ UNCHANGED statistics)
    /\ WF_statsVars(Yield /\ UNCHANGED statistics)
    /\ WF_statsVars(Poll /\ UNCHANGED statistics)
-------------------------------------------------------------------------------
\* Each number of a report counts all rows of the window that were there when
\* the report was asked for, and none but rows of the window that are there when
\* it is given.
Counts(n, ofRows(_)) == Cardinality(ofRows(atStart)) <= n /\ n <= Cardinality(ofRows(table))

NumbersAreTimely ==
    /\ Counts(total, InWindow) /\ Counts(Len(samples), Measured)
    /\ \A v \in Verdicts : Counts(verdicts[v], LAMBDA n : Judged(v, n))
    /\ \A r \in DOMAIN hits : Counts(hits[r], LAMBDA n : Hit(r, n))
    /\ total <= Cardinality({id \in 1..table : log[id].ts \in (end - Span)..(end - 1)})

\* The interpolated percentiles are quantiles of what was measured: p percent
\* of the distances between the samples lie at or below them.
IsQuantile(value, s, p) ==
    /\ Cardinality({i \in DOMAIN s : s[i] * 100 <= value}) * 100 > (Len(s) - 1) * p
    /\ Cardinality({i \in DOMAIN s : s[i] * 100 >= value}) * 100 > (Len(s) - 1) * (100 - p)

\* The queries see different states of the table, and the numbers of one report
\* need not agree with each other.  But each is right for some moment while the
\* report was made, and the latencies are those of the rows, whether there is
\* one sample or many.
ReportsAreRight ==
    at = "done" =>
        /\ NumbersAreTimely
        /\ samples # <<>> => \A p \in {50, 95} : IsQuantile(Percentile(samples, p), samples, p)
===============================================================================
