------------------------ MODULE MCGatewayContinuity ------------------------
(* The settings in which GatewayContinuity is explored for safety. *)
EXTENDS GatewayContinuity, TLC
CONSTANTS s1, s2

Base == [sockets |-> {s1}, capacity |-> 1, log |-> 3, terms |-> 2, crashes |-> 0,
         decided |-> 0, rejected |-> 0, joins |-> 1]

\* A handoff with an outcome to replay; a handoff and events on either side of
\* it; a crash, with a channel that laps its reader; two sockets of one channel; a
\* socket that comes back, beside a rejection.
MCSettings ==
  {[Base EXCEPT !.decided = 1],
   [Base EXCEPT !.capacity = 2, !.log = 4],
   [Base EXCEPT !.crashes = 1],
   [Base EXCEPT !.sockets = {s1, s2}, !.log = 2, !.terms = 1, !.joins = 2],
   [Base EXCEPT !.log = 2, !.terms = 1, !.rejected = 1, !.joins = 2]}

\* Sockets differ in nothing; which of them is the only one does not matter either.
SocketSymmetry == Permutations({s1, s2})
=============================================================================
