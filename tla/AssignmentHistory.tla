---- MODULE AssignmentHistory ----
(***************************************************************************)
(* Any succession of eligible sets, each assignment computed from the one  *)
(* before it, as reconcile (server/src/partition_assignment.rs) does.      *)
(***************************************************************************)
EXTENDS BalancedAssignment

CONSTANTS Boots    \* identities, positive numbers

VARIABLES owners, eligible

vars == <<owners, eligible>>

Init == owners = NoOwners /\ eligible = {}

Reconcile(members) ==
    /\ eligible' = members
    /\ owners' = Balanced(owners, members)

Next == \E members \in SUBSET Boots : Reconcile(members)

Spec == Init /\ [][Next]_vars

-----------------------------------------------------------------------------

\* How many partitions have another owner in o2 than in o1.
Moved(o1, o2) ==
    Cardinality({p \in Partitions : o1[p] # o2[p]})

\* Every computed assignment passes validate, whatever came before, and no
\* valid one is nearer to the previous one: the greedy orphan and rebalancing
\* passes together move as few partitions as any algorithm could.
MinimalMovement ==
    [][/\ ValidOwners(owners', eligible')
       /\ eligible' # {} =>
             \A o \in [Partitions -> eligible'] :
                 ValidOwners(o, eligible') => Moved(owners, owners') <= Moved(owners, o)]_vars

====
