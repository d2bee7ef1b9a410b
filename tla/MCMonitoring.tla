---------------------------- MODULE MCMonitoring ----------------------------
(* Small instances of Monitoring for TLC. *)
EXTENDS Monitoring, TLC

CONSTANTS m1, m2, u1, u2, d1, d2, r1, r2

OneMonitor == {m1}
OtherMonitor == {m2}
TwoMonitors == {m1, m2}
OneUrl == {u1}
TwoUrls == {u1, u2}
OneOf == [u \in OneUrl |-> m1]
TwoOf == [u \in TwoUrls |-> IF u = u1 THEN m1 ELSE m2]
OneDomain == [u \in OneUrl |-> d1]
TwoDomains == [u \in TwoUrls |-> IF u = u1 THEN d1 ELSE d2]
OneRun == {r1}
TwoRuns == {r1, r2}
Symmetry == Permutations(Runs)
=============================================================================
