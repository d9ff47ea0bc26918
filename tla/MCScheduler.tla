----------------------------- MODULE MCScheduler ----------------------------
(* Small instances of the scheduler. *)
EXTENDS Scheduler

CONSTANTS h1, c1, c2, w1, w2

\* A key is a pair of a host and a check.
MCHostOf == [k \in Keys |-> k[1]]
MCCheckOf == [k \in Keys |-> k[2]]

\* One check of one host; the API may disable the host.
OneKey == <<<<h1, c1>>>>
OneKeyKeys == {<<h1, c1>>}
OneHost == {h1}

\* One host with two checks; only the first is in the configuration, so the
\* purge deletes what is stored of the second.
TwoChecks == <<<<h1, c1>>, <<h1, c2>>>>
TwoChecksKeys == {<<h1, c1>>, <<h1, c2>>}
FirstConfigured == {<<h1, c1>>}

AllPing == [c \in {c1, c2} |-> "ping"]
MixedTypes == [c \in {c1, c2} |-> IF c = c1 THEN "nagios" ELSE "ping"]

NoThresholds == [k \in Keys |-> 0]

OneTick == [c \in ExitCodes |-> 1]
=============================================================================
