--------------------------- MODULE MCPgSchedules ---------------------------
(* Small instances of PgSchedules.                                         *)
EXTENDS PgSchedules, TLC

CONSTANTS n1, n2, n3, s1, s2

Endless == 1000

\* A cron expression for every second unit, one for every third, an interval
\* of two, and a cron expression whose last instant is 2.
EverySecond == [kind |-> "cron", units |-> 2, until |-> Endless]
EveryThird == [kind |-> "cron", units |-> 3, until |-> Endless]
EveryTwoUnits == [kind |-> "every", units |-> 2, until |-> Endless]
UntilTwo == [kind |-> "cron", units |-> 2, until |-> 2]

CronOrInterval == {EverySecond, EveryTwoUnits}
OneCron == {EverySecond}
EndlessAndFinite == {EveryThird, UntilTwo}

\* Clocks agree; or that of n1, or of n3, is one unit behind the database's.
InStep == [n \in Ticker \cup Booter |-> 0]
OneBehind == [n \in Ticker \cup Booter |-> IF n = n1 THEN -1 ELSE 0]
N3Behind == [n \in Ticker \cup Booter |-> IF n = n3 THEN -1 ELSE 0]
=============================================================================
