---- MODULE MCAssignmentControl ----
(***************************************************************************)
(* The control plane of two tasks, in two scenes chosen at the start: in   *)
(* "stops" one task may drain or crash at any point, and one step of its   *)
(* drain may fail; in "faults" requests are lost, renewals missed and      *)
(* readiness changes while all tasks stay up.  Their product is beyond     *)
(* TLC's liveness checker; what is safe in it is AssignmentControlProofs'. *)
(***************************************************************************)
EXTENDS AssignmentControl

VARIABLE scene

MCInit == Init /\ scene \in {"stops", "faults"}

MCNext ==
    /\ Next
    /\ \/ scene = "stops" /\ (faults' = faults \/ drain' # drain)
       \/ scene = "faults" /\ drain' = drain
    /\ UNCHANGED scene

MCSpec == MCInit /\ [][MCNext]_<<vars, scene>> /\ Fairness

====
