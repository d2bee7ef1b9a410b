--------------------------- MODULE BatchDelivery ----------------------------
(***************************************************************************)
(* What a batch promises about its URLs, whatever pool, queues and budget  *)
(* process_urls_in_parallel delivers them with: the outcome of a URL is    *)
(* recorded at most once, nothing is recorded after the batch has ended,   *)
(* and a batch that nobody stopped ends only when every URL is recorded.   *)
(***************************************************************************)
CONSTANT Urls

VARIABLES
  recorded,  \* the URLs whose outcome is in the run's progress
  phase      \* "open", "stopping" (control, limit, error, cancel), "ended"

Phases == {"open", "stopping", "ended"}

Init ==
  /\ recorded = {}
  /\ phase \in {"open", "stopping"}

RecordUrl(u) ==
  /\ phase # "ended"
  /\ u \notin recorded
  /\ recorded' = recorded \cup {u}
  /\ UNCHANGED phase

Stop ==
  /\ phase = "open"
  /\ phase' = "stopping"
  /\ UNCHANGED recorded

End ==
  /\ \/ phase = "stopping"
     \/ phase = "open" /\ recorded = Urls
  /\ phase' = "ended"
  /\ UNCHANGED recorded

Next ==
  \/ \E u \in Urls : RecordUrl(u)
  \/ Stop
  \/ End

Spec == Init /\ [][Next]_<<recorded, phase>>
=============================================================================
