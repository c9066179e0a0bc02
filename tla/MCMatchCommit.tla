---------------------------- MODULE MCMatchCommit ----------------------------
(* The settings in which MatchCommit is explored for safety. *)
EXTENDS MatchCommit
CONSTANTS a, b, u, v, w

\* One lobby that queues again; two lobbies, and a user who may be in either.
Single == {[lobby |-> a, users |-> {u}]}
Shared == Single \cup {[lobby |-> b, users |-> {v}], [lobby |-> b, users |-> {u}]}

Calm == [rosters |-> Single, workers |-> {w}, enforce |-> FALSE,
         tokens |-> 2, games |-> 2, torn |-> 0, lost |-> 0, lapse |-> 0]

\* Scripts that stop half-way, are repeated or given up, and keys that expire;
\* three generations that overlap in a user, with leases enforced; two of them,
\* and a lost answer, a failing worker or a torn script.
MCSettings ==
  {[Calm EXCEPT !.torn = 2, !.games = 1], [Calm EXCEPT !.torn = 1, !.lapse = 1],
   [Calm EXCEPT !.torn = 1, !.lost = 1],
   [Calm EXCEPT !.rosters = Shared, !.enforce = TRUE, !.tokens = 3, !.games = 1],
   [Calm EXCEPT !.rosters = Shared, !.enforce = TRUE, !.lost = 1],
   [Calm EXCEPT !.rosters = Shared, !.enforce = TRUE, !.torn = 1, !.games = 1]}
=============================================================================
