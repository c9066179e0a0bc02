---- MODULE MCCommandRecovery ----
(***************************************************************************)
(* The actor of a game and what it runs: the incorporation and recovery of *)
(* commands (CommandRecovery), and the engine that executes them, with the *)
(* page that replicates it (GameEngine).  The models share no variable and *)
(* are explored one after the other: the scene chosen at the start moves,  *)
(* the other stays in an initial state.                                    *)
(***************************************************************************)
EXTENDS CommandRecovery

VARIABLES scene,
          bounds, clock, server, received, log, outbox, sent, next, client,
          spawned, probes, faults, pressed

engineVars == <<bounds, clock, server, received, log, outbox, sent, next, client,
                spawned, probes, faults, pressed>>

\* A probe and a fault around a turn, and around a pellet; two turns, and two
\* with a pellet in a shorter match; a fault over a longer match.
Match(ticks, presses, food, asked, lost) ==
    [clock |-> ticks, presses |-> presses, spawned |-> food, probes |-> asked,
     faults |-> lost]
Matches == {Match(4, 1, 0, 1, 1), Match(4, 0, 1, 1, 1), Match(4, 2, 0, 0, 0),
            Match(3, 2, 1, 0, 0), Match(5, 1, 1, 0, 1)}

\* Three columns and two rows: the snake starts in one corner, its base is the
\* opposite one, and either way ends at a wall.
E == INSTANCE GameEngine
     WITH Bounds <- Matches, CommittedLag <- 1, Ahead <- 3,
          Width <- 3, Height <- 2, Start <- <<0, 0>>, StartDir <- 1, Base <- {<<2, 1>>},
          Pellets <- {<<1, 0>>, <<1, 1>>}, Turns <- {0, 2}

MCInit ==
    /\ Init /\ E!Init
    /\ \/ scene = "recovery" /\ bounds = CHOOSE b \in Matches : TRUE
       \/ scene = "engine"

MCNext ==
    /\ \/ scene = "recovery" /\ Next /\ UNCHANGED engineVars
       \/ scene = "engine" /\ E!Next /\ UNCHANGED vars
    /\ UNCHANGED scene

-----------------------------------------------------------------------------

\* A page that missed no message holds the match as the executor does, and shows
\* no more than follows from it and from its own undecided turns.
ReplicaExact == E!ReplicaExact

====
