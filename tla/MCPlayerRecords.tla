---- MODULE MCPlayerRecords ----
(***************************************************************************)
(* A player's durable records in DynamoDB: the account (AccountIdentity)   *)
(* and the ladder row (RankingLadder).  The models share no variable and   *)
(* are explored one after the other: the scene chosen at the start moves,  *)
(* the other stays in its initial state.                                   *)
(***************************************************************************)
EXTENDS AccountIdentity, Integers, TLC

CONSTANTS g1, g2, g3, g4, g5, d1, d2, FirstMmr    \* games and drains of RankingLadder

ASSUME LadderAssumption == FirstMmr \in Nat

VARIABLES scene, team, legacy, mmr, mmrDone, rankDone, ladder, pointer, look, returned

\* Two games, one of them drained twice; three games, so that a rating may move
\* away and back under a drain.
TwoDrains == {<<g1, d1>>, <<g1, d2>>, <<g2, "d">>}
ThreeGames == {g3, g4, g5} \X {"d"}

R == INSTANCE RankingLadder WITH Teams <- {TwoDrains, ThreeGames}

ladderVars == <<team, legacy, mmr, mmrDone, rankDone, ladder, pointer, look, returned>>

\* Two registrations of two names beside a finishing game; one registration and
\* two launches beside a finishing game; one of each beside two finishing games.
Registering == [names |-> {"a", "b"}, processes |-> {"u1", "u2", "x1"}]
Linking == [names |-> {"a"}, processes |-> {"u1", "l1", "l2", "x1"}]
Finishing == [names |-> {"a"}, processes |-> {"u1", "l1", "x1", "x2"}]
MCCasts == {Registering, Linking, Finishing}

\* Neither the order of the three games nor of the two drains matters.
LadderSymmetry == Permutations({g3, g4, g5}) \cup Permutations({d1, d2})

MCInit ==
    /\ Init /\ R!Init
    /\ \/ scene = "account" /\ ~legacy /\ team = ThreeGames
       \/ scene = "ladder" /\ cast = Linking /\ (legacy => team = TwoDrains)

MCNext ==
    /\ \/ scene = "account" /\ Next /\ UNCHANGED ladderVars
       \/ scene = "ladder" /\ R!Next /\ UNCHANGED <<vars, cast>>
    /\ UNCHANGED scene

MCSpec == MCInit /\ [][MCNext]_<<vars, cast, ladderVars, scene>>

\* The ladder alone, with three games.
LadderSpec ==
    /\ MCInit /\ scene = "ladder" /\ team = ThreeGames
    /\ [][MCNext]_<<vars, cast, ladderVars, scene>>

\* A player appears once on the ladder, with every game counted once and the
\* rating they add up to, whichever drains and pages work on it at once, and the
\* user-addressed copy of the row never contradicts it: unless an effect
\* committed on a rating that had moved away and back since it was read.
LadderExact == R!LadderExact

\* The guard on the rating is there to "prevent a stale ranking read from
\* committing after another game's MMR transaction": no effect that read of no
\* row writes a second one.
OneRow == R!OneRow

====
