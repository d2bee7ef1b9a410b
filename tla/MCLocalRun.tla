----------------------------- MODULE MCLocalRun -----------------------------
(* Small instances of LocalRun for TLC. *)
EXTENDS LocalRun, TLC

CONSTANTS a, t1, t2, c1, id

OneRun == {a}
TwoTasks == {t1, t2}
OneId == {id}
OneClient == {c1}
=============================================================================
