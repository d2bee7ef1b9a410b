---------------------------- MODULE MCCeleryRun -----------------------------
(* Small instances of CeleryRun for TLC. *)
EXTENDS CeleryRun, TLC

CONSTANTS a, t1, t2, c1, w1, w2, i1, i2, i3

OneRun == {a}
TwoTasks == {t1, t2}
TwoIds == {i1, i2}
ThreeIds == {i1, i2, i3}
OneClient == {c1}
OneWorker == {w1}
TwoWorkers == {w1, w2}
NoFaults == {}
AnyFault == FaultKinds
HeardFaults == FaultKinds \ {"connection", "broadcast", "late", "softLimit"}
Symmetry == Permutations(Tasks) \cup Permutations(Workers) \cup Permutations(TaskIds)
=============================================================================
