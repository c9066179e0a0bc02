---- MODULE MCPartitionLease ----
(***************************************************************************)
(* The two things that decide who may execute a partition: its lease, and  *)
(* the function that assigns partitions to boots.  The models share no     *)
(* variable and are explored one after the other: the scene chosen at the  *)
(* start moves, the other stays in its initial state.                      *)
(***************************************************************************)
EXTENDS PartitionLease, TLC

CONSTANTS HistoryPartitions,    \* AssignmentHistory's PartitionCount
          HistoryBoots          \* AssignmentHistory's Boots

ASSUME HistoryAssumption ==
    HistoryPartitions \in Nat \ {0} /\ HistoryBoots \subseteq Nat \ {0}

VARIABLES scene, owners, eligible

H == INSTANCE AssignmentHistory
        WITH PartitionCount <- HistoryPartitions, Boots <- HistoryBoots

historyVars == <<owners, eligible>>

MCInit == Init /\ H!Init /\ scene \in {"lease", "history"}

MCNext ==
    /\ \/ scene = "lease" /\ Next /\ UNCHANGED historyVars
       \/ scene = "history" /\ H!Next /\ UNCHANGED vars
    /\ UNCHANGED scene

MCSpec == MCInit /\ [][MCNext]_<<vars, historyVars, scene>>

Symmetry == Permutations(Boots) \cup Permutations(Tokens)

\* A new assignment is valid and as near to the previous one as a valid one can
\* be.
MinimalMovement == H!MinimalMovement

====
