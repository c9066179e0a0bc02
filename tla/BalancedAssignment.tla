---- MODULE BalancedAssignment ----
(***************************************************************************)
(* balanced_minimal_movement of server/src/partition_assignment.rs: the    *)
(* desired owner of every executor partition, computed from the previous   *)
(* assignment and the eligible boots.  Boots are numbers, ordered as their *)
(* identities are.                                                         *)
(***************************************************************************)
EXTENDS Integers, FiniteSets, FiniteSetsExt

CONSTANTS PartitionCount

ASSUME PartitionAssumption == PartitionCount \in Nat \ {0}

Partitions == 0 .. PartitionCount - 1

\* An owner map is total: a partition without an entry is Unowned.
Unowned == 0
NoOwners == [p \in Partitions |-> Unowned]
OwnerMaps(eligible) == [Partitions -> eligible \cup {Unowned}]

\* owner_counts
Owned(owners, b) == {p \in Partitions : owners[p] = b}
Count(owners, b) == Cardinality(Owned(owners, b))

\* Retained: previous owners that are still eligible keep their partitions.
Kept(previous, eligible) ==
    [p \in Partitions |-> IF previous[p] \in eligible THEN previous[p] ELSE Unowned]

\* The least loaded boot, the smallest identity among equals.
LeastLoaded(owners, eligible) ==
    Min({b \in eligible : \A c \in eligible : Count(owners, b) <= Count(owners, c)})

\* The most loaded boot, the greatest identity among equals.
MostLoaded(owners, eligible) ==
    Max({b \in eligible : \A c \in eligible : Count(owners, b) >= Count(owners, c)})

\* Orphaned partitions go, in order, each to the boot least loaded by then.
AssignOrphans_ToFirst(owners, eligible) ==
    [p \in Partitions |-> IF owners[p] = Unowned THEN Min(eligible) ELSE owners[p]]
AssignOrphans(owners, eligible) ==
    LET From[p \in 0 .. PartitionCount, o \in OwnerMaps(eligible)] ==
            IF p = PartitionCount THEN o
            ELSE From[p + 1, IF o[p] # Unowned THEN o
                             ELSE [o EXCEPT ![p] = LeastLoaded(o, eligible)]]
    IN  From[0, owners]

\* The spread that stops the rebalancing loop.
Imbalanced(owners, eligible) ==
    Count(owners, MostLoaded(owners, eligible))
        - Count(owners, LeastLoaded(owners, eligible)) > 1

\* One move of the loop: the donor's greatest partition to the recipient.
Move(owners, eligible) ==
    [owners EXCEPT ![Max(Owned(owners, MostLoaded(owners, eligible)))] =
        LeastLoaded(owners, eligible)]

Rebalance(owners, eligible) ==
    LET Loop[o \in OwnerMaps(eligible)] ==
            IF Imbalanced(o, eligible) THEN Loop[Move(o, eligible)] ELSE o
    IN  Loop[owners]

Balanced(previous, eligible) ==
    IF eligible = {} THEN NoOwners
    ELSE Rebalance(AssignOrphans(Kept(previous, eligible), eligible), eligible)

\* validate, of the owner map: everything assigned, to eligible boots, evenly.
ValidOwners(owners, eligible) ==
    IF eligible = {} THEN owners = NoOwners
    ELSE /\ owners \in [Partitions -> eligible]
         /\ \A b, c \in eligible : Count(owners, b) - Count(owners, c) <= 1

====
