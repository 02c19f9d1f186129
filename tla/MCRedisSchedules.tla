-------------------------- MODULE MCRedisSchedules --------------------------
(* Small instances of RedisSchedules.                                      *)
EXTENDS RedisSchedules, TLC

CONSTANTS t1, t2, b1, b2, s1, s2

EverySecond == [kind |-> "cron", units |-> 2, until |-> 100]
Interval == [kind |-> "every", units |-> 1, until |-> 0]

BothTriggers == {EverySecond, Interval}

\* One list for each release of a rolling deploy.
TwoReleases == {{s1}, {s2}}
=============================================================================
