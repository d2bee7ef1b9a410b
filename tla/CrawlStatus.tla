---------------------------- MODULE CrawlStatus -----------------------------
(***************************************************************************)
(* The status of a crawl run and the transitions the domain model permits  *)
(* (app/models/crawl_domain.py).  Every component that changes a status    *)
(* goes through CanTransition, which is what transition_status evaluates   *)
(* on the copy of the run its session holds.                               *)
(***************************************************************************)

TerminalStatuses == {"completed", "killed", "failed", "proxy_exhausted"}

ActiveStatuses == {"pending", "running", "paused"}

Statuses == ActiveStatuses \cup TerminalStatuses

\* Mutant: a paused run may fail.
PausedMayFail ==
  [s \in Statuses |->
     CASE s = "pending" -> {"running", "killed"}
       [] s = "running" -> {"paused"} \cup TerminalStatuses
       [] s = "paused"  -> {"running", "killed", "failed"}
       [] OTHER         -> {}]

AllowedTransitions ==
  [s \in Statuses |->
     CASE s = "pending" -> {"running", "killed"}
       [] s = "running" -> {"paused"} \cup TerminalStatuses
       [] s = "paused"  -> {"running", "killed"}
       [] OTHER         -> {}]

\* transition_status returns the target, or raises ValueError.
CanTransition(current, target) ==
  current = target \/ target \in AllowedTransitions[current]

\* The values of the control_requested key of a run's summary.
NoControl == "none"
ControlRequests == {"pause", "kill"}
=============================================================================
