---- MODULE MCRecoveryProgress ----
(***************************************************************************)
(* One client's session at full depth (CommandSession), and what every     *)
(* change of executor must end in: the commands submitted to a game are    *)
(* covered by a checkpoint (CommandRecovery), and the sockets that watch   *)
(* it hold a continuous state again (GatewayContinuity).  The models share *)
(* no variable and are explored one after the other: the scene chosen at   *)
(* the start moves, the others stay in their initial states, the gateway's *)
(* then being one whose game no executor ever claims.  The session here    *)
(* remembers two outcomes and takes six sequences, which CommandRecovery,  *)
(* with the streams and the terms around it, cannot afford.                *)
(***************************************************************************)
EXTENDS CommandSession, Sequences

CONSTANTS s1,
          RecoveryResults,     \* CommandRecovery's MaxResults
          RecoverySequence,    \* CommandRecovery's MaxSequence
          MaxEntries, MaxTicks, MaxTerms

ASSUME RecoveryAssumption ==
    /\ {RecoveryResults, RecoverySequence, MaxEntries, MaxTerms} \subseteq Nat \ {0}
    /\ MaxTicks \in Nat

VARIABLES scene,
          stream, delivered, pel, trimmed, decisions, ckpt, marker, exec, scan, handoff,
          actor, late, terms, told, frontier, chain, behind,
          setting, owner, store, log, want, paced, router, sub

recoveryVars == <<stream, delivered, pel, trimmed, decisions, ckpt, marker, exec, scan,
                  handoff, actor, late, terms, told, frontier, chain, behind>>
gatewayVars == <<setting, owner, store, log, want, paced, router, sub>>

R == INSTANCE CommandRecovery
     WITH MaxResults <- RecoveryResults, MaxSequence <- RecoverySequence

\* One socket that joins once, while terms end by handoff or crash, or while one
\* term publishes past what its channel holds.
Base == [sockets |-> {s1}, capacity |-> 1, log |-> 2, terms |-> 0, crashes |-> 1,
         decided |-> 0, rejected |-> 0, joins |-> 1]
Settings == {Base, [Base EXCEPT !.terms = 2], [Base EXCEPT !.terms = 1, !.log = 3]}

G == INSTANCE GatewayContinuity WITH Sockets <- {s1}

MCInit ==
    /\ SessionInit /\ R!Init /\ G!Init
    /\ scene \in IF setting.terms = 0 THEN {"session", "recovery"} ELSE {"gateway"}

MCNext ==
    /\ \/ scene = "session" /\ SessionNext /\ UNCHANGED <<recoveryVars, gatewayVars>>
       \/ scene = "recovery" /\ R!Next /\ UNCHANGED <<sessionVars, gatewayVars>>
       \/ scene = "gateway" /\ G!Next /\ UNCHANGED <<sessionVars, recoveryVars>>
    /\ UNCHANGED scene

\* Both fairness conditions; CommandRecovery's only where it moves.
MCSpec ==
    /\ MCInit
    /\ [][MCNext]_<<sessionVars, recoveryVars, gatewayVars, scene>>
    /\ WF_recoveryVars(scene = "recovery" /\ R!ExecutorStep)
    /\ G!Fairness

\* Every submitted command ends up covered by a checkpoint, once crashes and
\* handoffs cease (the stream is bounded, so at last all of it is).
CommandsCovered ==
    scene = "recovery" ~> ckpt.cursor = Len(stream)

\* A forwarding subscription that lost continuity is re-anchored or ends.
ColdHeals == G!ColdHeals

====
