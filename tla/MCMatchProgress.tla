---- MODULE MCMatchProgress ----
(***************************************************************************)
(* The two ends of a match: its creation after it was committed            *)
(* (MatchCommit) and its payment after it was won (Completion).  The       *)
(* models share no variable and are explored one after the other: the      *)
(* scene chosen at the start moves, the other stays in its initial state,  *)
(* in which MatchCommit's fairness demands nothing.                        *)
(***************************************************************************)
EXTENDS Completion

CONSTANTS a, u, w, x

VARIABLES scene, setting, mm, gens, plans, ops, torn, told, bus, game, worker, budget

\* One lobby that queues, or queues again.
Calm == [rosters |-> {[lobby |-> a, users |-> {u}]}, workers |-> {w}, enforce |-> FALSE,
         tokens |-> 2, games |-> 1, torn |-> 1, lost |-> 0, lapse |-> 0]

\* Two outbox workers that fail; generations that expire.
Settings == {[Calm EXCEPT !.workers = {w, x}, !.tokens = 1, !.lost = 2],
             [Calm EXCEPT !.lapse = 2]}

M == INSTANCE MatchCommit
        WITH Lobbies <- {a}, Users <- {u}, Workers <- {w, x}, MaxToken <- 2, MaxGame <- 1

matchVars == <<setting, mm, gens, plans, ops, torn, told, bus, game, worker, budget>>

MCInit ==
    /\ Init /\ M!Init
    /\ \/ scene = "match" /\ ~solo
       \/ scene = "completion" /\ setting.lapse = 0

MCNext ==
    /\ \/ scene = "completion" /\ Next /\ UNCHANGED matchVars
       \/ scene = "match" /\ M!Next /\ UNCHANGED <<vars, solo>>
    /\ UNCHANGED scene

\* Both fairness conditions; Completion's only where it moves.
MCSpec ==
    /\ MCInit
    /\ [][MCNext]_<<vars, solo, matchVars, scene>>
    /\ M!Fairness
    /\ WF_vars(scene = "completion" /\ Takeover)
    /\ WF_vars(scene = "completion" /\ LeaseEnds)
    /\ WF_vars(scene = "completion" /\ ActorStep)
    /\ WF_vars(scene = "completion" /\ DrainStep)
    /\ WF_vars(scene = "completion" /\ Arrives)

\* Every match in the outbox is created, and every match whose commit is still
\* retried once its record is written, whatever answers, scripts and
\* outbox workers are lost on the way.
CommittedIsCreated == M!CommittedIsCreated

\* A queue generation that is no longer live leaves the index, or is renewed.
StaleIsReaped == M!StaleIsReaped

====
