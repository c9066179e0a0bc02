-------------------------- MODULE MCLobbyMembership --------------------------
(* Instances of LobbyMembership: who joins and leaves. *)
EXTENDS LobbyMembership, TLC
CONSTANTS i, j, k, l, u, v, g, h

(* v joins a second time from another transport; u may leave. *)
Players == i :> u @@ j :> v @@ k :> v @@ l :> u

Scene(attempts, gateways, lost, deaths) ==
  [attempts |-> attempts, gateways |-> gateways, lost |-> lost, deaths |-> deaths]

(* Two users join and the first may leave; the second reconnects, with a lost
   answer or a death; two gateways; two lost answers. *)
Scenes == {Scene({i, j, l}, {g}, 1, 1), Scene({i, j, k}, {g}, 1, 0),
           Scene({i, j, k}, {g}, 0, 1), Scene({i, j}, {g, h}, 1, 1),
           Scene({i, j}, {g}, 2, 0)}
=============================================================================
