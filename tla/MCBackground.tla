---------------------------- MODULE MCBackground ----------------------------
(***************************************************************************)
(* The background services: the exclusion lease that elects the node that   *)
(* runs one (ExclusionLease), and the two services elected that way, the    *)
(* exporter (AnalyticsExport) and the committer (FencedFold).  The models   *)
(* share no variable and are explored one after the other: the scene chosen *)
(* at the start moves, the others stay in one of their initial states.      *)
(***************************************************************************)
EXTENDS ExclusionLease, TLC

CONSTANTS a, b,
          Last, Dates, ReadCount, MaxLen, PoisonThreshold, MaxTerms, MaxFaults,
          Prefixes, Day, PerPrefix, LastDay

VARIABLES scene,
          stream, group, exp, objects, dropped, lapsed, used,
          holder, epochs, committer, table, put, late, today, faults, window

Preferred == a :> 0 @@ b :> 1
Flat == a :> 0 @@ b :> 0

Service == [dynamo |-> FALSE, nodes |-> {a, b}, rank |-> Flat, drifts |-> {0},
            errors |-> 1, deaths |-> 0]

\* A preferred node; equal nodes; one node whose renewals fail until the lease is
\* gone; clocks at the ends of what an allowance of 2 trusts.
Services ==
  {[Service EXCEPT !.rank = Preferred, !.deaths = 1],
   Service, [Service EXCEPT !.nodes = {a}, !.errors = 4],
   [Service EXCEPT !.dynamo = TRUE, !.drifts = {-2, 0, 1}, !.errors = 0]}

\* The second entry straddles midnight.
Straddles == [e \in 1..Last |-> IF e = 1 THEN {1} ELSE IF e = 2 THEN {1, 2} ELSE {2}]

TwoDays == 1 :> 0 @@ 2 :> 1

OneEach == Prefixes \X {1}

\* Two committers; two objects of a prefix; one committer, and two, at the end of
\* the window.
Windows ==
  {[nodes |-> {a, b}, retention |-> 1, objects |-> OneEach, terms |-> 3, faults |-> 1],
   [nodes |-> {a, b}, retention |-> 1, objects |-> OneEach \cup {<<1, 2>>}, terms |-> 2,
    faults |-> 0],
   [nodes |-> {a}, retention |-> 0, objects |-> Prefixes \X (1..2), terms |-> 3, faults |-> 2],
   [nodes |-> {a, b}, retention |-> 0, objects |-> OneEach, terms |-> 2, faults |-> 0]}

E == INSTANCE AnalyticsExport WITH Hosts <- Nodes
F == INSTANCE FencedFold
       WITH node <- committer, setting <- window, Rank <- Preferred, Settings <- Windows

ASSUME ExportAssumption ==
  /\ {Last, ReadCount, MaxLen, PoisonThreshold, MaxTerms, MaxFaults} \subseteq Nat
  /\ ReadCount > 0 /\ DOMAIN Dates = 1..Last /\ \A e \in 1..Last : Dates[e] # {}

ASSUME FoldAssumption ==
  /\ Prefixes \subseteq Nat /\ Day \in [Prefixes -> Nat] /\ {PerPrefix, LastDay} \subseteq Nat
  /\ Windows \subseteq [nodes : SUBSET Nodes, retention : Nat, objects : SUBSET (Prefixes \X (1..PerPrefix)),
                        terms : Nat, faults : Nat]

export == <<stream, group, exp, objects, dropped, lapsed, used>>
fold == <<holder, epochs, committer, table, put, late, today, faults>>

MCInit ==
  /\ Init /\ E!Init /\ F!Init
  /\ scene \in {"lease", "export", "fold"}
  /\ scene # "lease" => setting.dynamo
  /\ scene # "fold" => window = CHOOSE w \in Windows : TRUE

MCNext ==
  \/ scene = "lease" /\ Next /\ UNCHANGED <<scene, export, fold, window>>
  \/ scene = "export" /\ E!Next /\ UNCHANGED <<scene, vars, fold, window>>
  \/ scene = "fold" /\ F!Next /\ UNCHANGED <<scene, vars, export>>

\* Every component's fairness, where it moves.
MCSpec ==
  /\ MCInit /\ [][MCNext]_<<scene, vars, export, fold, window>>
  /\ WF_service(scene = "lease" /\ Tick)
  /\ \A n \in Nodes : WF_service(scene = "lease" /\ Step(n))
  /\ WF_export(scene = "export" /\ E!Flush)
  /\ \A n \in Nodes : WF_export(scene = "export" /\ E!Step(n))
  /\ WF_export(scene = "export" /\ E!FreeElect)
  /\ \A n \in Nodes : /\ WF_fold(scene = "fold" /\ F!Busy(n))
                      /\ WF_fold(scene = "fold" /\ F!FreeAllocate(n))
  /\ WF_fold(scene = "fold" /\ F!OrphanExpires)

\* Nothing that was delivered is forgotten, and a quiet term catches up.
ExportComplete == E!ExportComplete

\* Every object is folded once, under marks that say so, by terms in their order.
FoldExact == F!FoldExact

\* Every object is folded while it is in the window.
FoldedAtLast == F!FoldedAtLast
=============================================================================
