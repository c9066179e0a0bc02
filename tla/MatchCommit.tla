----------------------------- MODULE MatchCommit -----------------------------
(***************************************************************************)
(* From a queued lobby to a created game (matchmaking_manager.rs, the      *)
(* outbox of matchmaking.rs, and the matchmaking half of completion in     *)
(* game_bus.rs).                                                           *)
(*                                                                         *)
(* The matchmaking keys share one Redis slot and change only in scripts.   *)
(* A script runs alone but does not roll back: an error leaves a prefix of *)
(* its writes.  A caller of an admission or a commit whose answer was lost *)
(* repeats the same immutable plan; a cancellation or a reap is sent once. *)
(* Writes are therefore applied here up to a step k, and a plan stays in   *)
(* flight until it is answered or its process gives up.                    *)
(*                                                                         *)
(* A queue generation (a lobby's admission, with its members and token) is *)
(* named by a number; 0 stands for an absent key.                          *)
(***************************************************************************)
EXTENDS Integers, Sequences, FiniteSets

CONSTANTS Lobbies, Users,
          Workers,              \* outbox workers
          MaxToken, MaxGame,    \* bounds: queue generations, match plans
          Settings              \* what a behaviour may meet, as records:
  \* rosters: the admissions that may be asked for, [lobby, users]
  \* workers: the outbox workers that run
  \* enforce: MATCHMAKING_QUEUE_LEASE_ENFORCEMENT
  \* tokens, games: bounds below MaxToken and MaxGame
  \* torn, lost, lapse: bounds on scripts that stop half-way, on answers lost
  \*   and plans or workers abandoned, and on leases and metadata expired

ASSUME MatchAssumption ==
  /\ {MaxToken, MaxGame} \subseteq Nat
  /\ \A s \in Settings :
       /\ \A r \in s.rosters : r.lobby \in Lobbies /\ r.users \subseteq Users /\ r.users # {}
       /\ s.workers \subseteq Workers /\ s.enforce \in BOOLEAN
       /\ s.tokens \in 0..MaxToken /\ s.games \in 0..MaxGame
       /\ {s.torn, s.lost, s.lapse} \subseteq Nat

VARIABLES
  setting,  \* the member of Settings this behaviour has
  mm,       \* the matchmaking slot's keys
  gens,     \* queue generations asked for so far
  plans,    \* match plans (sequences of generations), by game
  ops,      \* script calls in flight
  torn,     \* commits whose last script stopped half-way
  told,     \* generation -> answers its callers were given
  bus,      \* partition slot: GameCreated entries and delivery markers
  game,     \* game -> none, live, over, retired
  worker,   \* outbox worker -> what it does with which game
  budget    \* torn scripts, lost answers and lapses used

vars == <<mm, gens, plans, ops, torn, told, bus, game, worker, budget>>

Tokens == 1..MaxToken
Games == 1..MaxGame
NoOutcome == [status |-> "none", token |-> 0]
Op(kind, id) == [kind |-> kind, id |-> id]

Init ==
  /\ setting \in Settings
  /\ mm = [meta |-> [l \in Lobbies |-> "waiting"],
           identity |-> [l \in Lobbies |-> 0], lease |-> [l \in Lobbies |-> 0],
           outcome |-> [l \in Lobbies |-> NoOutcome],
           claim |-> [u \in Users |-> 0], index |-> {},
           lobbyGame |-> [l \in Lobbies |-> 0], userGame |-> [u \in Users |-> 0],
           pending |-> [u \in Users |-> 0], active |-> {}, outbox |-> {}]
  /\ gens = <<>> /\ plans = <<>> /\ ops = {} /\ torn = {}
  /\ told = [t \in Tokens |-> {}]
  /\ bus = [created |-> [g \in Games |-> 0], marker |-> [g \in Games |-> "none"]]
  /\ game = [g \in Games |-> "none"]
  /\ worker = [w \in Workers |-> [at |-> "idle", game |-> 0]]
  /\ budget = [torn |-> 0, lost |-> 0, lapse |-> 0]

LobbyOf(t) == gens[t].lobby
UsersOf(t) == gens[t].users
GameLobbies(g) == {LobbyOf(plans[g][i]) : i \in DOMAIN plans[g]}
GameUsers(g) == UNION {UsersOf(plans[g][i]) : i \in DOMAIN plans[g]}
-----------------------------------------------------------------------------
(***************************************************************************)
(* ADMIT_LOBBY_SCRIPT.                                                     *)
(***************************************************************************)
AdmitHolds(t) ==
  LET l == LobbyOf(t)  replay == mm.identity[l] = t IN
  /\ mm.lobbyGame[l] = 0 /\ mm.meta[l] # "none"
  /\ \A u \in UsersOf(t) : mm.userGame[u] = 0
  /\ mm.identity[l] \in {0, t}
  /\ mm.outcome[l].token = t => mm.outcome[l].status = "admitted" /\ replay
  /\ replay \/ mm.meta[l] = "waiting"
  /\ \A u \in UsersOf(t) : mm.claim[u] \in {0, t}

AdmitWrites(t, k) ==
  LET l == LobbyOf(t) IN
  [mm EXCEPT
     !.index = IF k >= 1 THEN @ \cup {t} ELSE @,
     !.identity[l] = IF k >= 2 THEN t ELSE @,
     !.lease[l] = IF k >= 3 THEN t ELSE @,
     !.outcome[l] = IF k >= 4 THEN [status |-> "admitted", token |-> t] ELSE @,
     !.claim = IF k >= 5 THEN [u \in Users |-> IF u \in UsersOf(t) THEN t ELSE @[u]]
                         ELSE @,
     !.meta[l] = IF k >= 6 THEN "queued" ELSE @]

(* What a cancelled or expired generation takes with it, in order; its index
   entry, by which a repair would find it, goes last. *)
RetireWrites_IndexFirst(t, status, k) ==
  LET l == LobbyOf(t) IN
  [mm EXCEPT
     !.index = IF k >= 1 THEN @ \ {t} ELSE @,
     !.outcome[l] = IF k >= 2 THEN [status |-> status, token |-> t] ELSE @,
     !.identity[l] = IF k >= 3 THEN 0 ELSE @,
     !.lease[l] = IF k >= 4 /\ @ = t THEN 0 ELSE @,
     !.claim = IF k >= 5 THEN [u \in Users |-> IF u \in UsersOf(t) /\ @[u] = t
                                               THEN 0 ELSE @[u]] ELSE @,
     !.meta[l] = IF k >= 6 /\ @ = "queued" /\ mm.lobbyGame[l] = 0
                 THEN "waiting" ELSE @]

RetireWrites(t, status, k) ==
  LET l == LobbyOf(t) IN
  [mm EXCEPT
     !.outcome[l] = IF k >= 1 THEN [status |-> status, token |-> t] ELSE @,
     !.identity[l] = IF k >= 2 THEN 0 ELSE @,
     !.lease[l] = IF k >= 3 /\ @ = t THEN 0 ELSE @,
     !.claim = IF k >= 4 THEN [u \in Users |-> IF u \in UsersOf(t) /\ @[u] = t
                                               THEN 0 ELSE @[u]] ELSE @,
     !.meta[l] = IF k >= 5 /\ @ = "queued" /\ mm.lobbyGame[l] = 0
                 THEN "waiting" ELSE @,
     !.index = IF k >= 6 THEN @ \ {t} ELSE @]
-----------------------------------------------------------------------------
(***************************************************************************)
(* REMOVE_LOBBY_SCRIPT for an exact generation.                            *)
(***************************************************************************)
CancelHolds_AnyOutcome(t) ==
  LET l == LobbyOf(t)  o == mm.outcome[l] IN
  IF mm.identity[l] = 0
  THEN o.token \in {0, t}
  ELSE mm.identity[l] = t

(* Finished generations, matched lobbies and newer generations are left
   alone; without an identity an unfinished cancellation is repaired. *)
CancelHolds(t) ==
  LET l == LobbyOf(t)  o == mm.outcome[l] IN
  IF mm.identity[l] = 0
  THEN o.token \in {0, t} /\ o.status \in {"none", "admitted", "cancelled"}
  ELSE /\ mm.lobbyGame[l] = 0 /\ mm.identity[l] = t
       /\ o.token = t => o.status \in {"admitted", "cancelled"}
-----------------------------------------------------------------------------
(***************************************************************************)
(* get_queued_lobbies_in_pool and REAP_STALE_LOBBY_SCRIPT.                 *)
(***************************************************************************)
Terminal(t) == /\ mm.outcome[LobbyOf(t)].token = t
               /\ mm.outcome[LobbyOf(t)].status # "admitted"

(* A sampled generation may be matched. *)
Live(t) == LET l == LobbyOf(t) IN
  /\ t \in mm.index /\ mm.identity[l] = t /\ ~Terminal(t)
  /\ \/ mm.lease[l] = t
     \/ ~setting.enforce /\ mm.outcome[l].token # t

ReapHolds_IdentityOnly(t) ==
  LET l == LobbyOf(t) IN
  /\ ~(mm.identity[l] = t /\ mm.lease[l] = t /\ ~Terminal(t))
  /\ mm.identity[l] = t

(* The lease is looked at again: a heartbeat since the sample wins. *)
ReapHolds(t) ==
  LET l == LobbyOf(t) IN
  /\ ~(mm.identity[l] = t /\ mm.lease[l] = t /\ ~Terminal(t))
  /\ mm.identity[l] \in {0, t}
  /\ mm.identity[l] = 0 => mm.outcome[l].token \in {0, t}

(* Of a generation that was succeeded only the index entries go. *)
PruneHolds(t) ==
  LET l == LobbyOf(t) IN
  \/ mm.identity[l] \notin {0, t}
  \/ mm.identity[l] = 0 /\ mm.outcome[l].token \notin {0, t}
-----------------------------------------------------------------------------
(***************************************************************************)
(* COMMIT_MATCH_SCRIPT.                                                    *)
(***************************************************************************)
Mapped(g) == {mm.lobbyGame[l] : l \in GameLobbies(g)}
               \cup {mm.userGame[u] : u \in GameUsers(g)}
Pending(g) == {mm.pending[u] : u \in GameUsers(g)}
Repairing(g) == g \in mm.active \/ Mapped(g) = {g}

CommitGenHolds(t, repairing) ==
  LET l == LobbyOf(t)  o == mm.outcome[l] IN
  /\ mm.identity[l] \in {0, t} /\ mm.lease[l] \in {0, t}
  /\ (repairing \/ setting.enforce) => o.token \in {0, t}
  /\ \A u \in UsersOf(t) : mm.claim[u] \in {0, t}
  /\ ~repairing =>
       /\ mm.meta[l] # "none" /\ mm.identity[l] = t /\ t \in mm.index
       /\ o.token = t => o.status = "admitted"
       /\ setting.enforce => o.token = t
       /\ (setting.enforce \/ o.token = t) => mm.lease[l] = t
       /\ \A u \in UsersOf(t) : mm.claim[u] = t

CommitHolds_AlwaysRepairs(g) ==
  \A i \in DOMAIN plans[g] : CommitGenHolds(plans[g][i], TRUE)

CommitHolds(g) ==
  /\ Mapped(g) \subseteq {0, g} /\ Pending(g) \subseteq {0, g}
  /\ Repairing(g) \/ Mapped(g) = {0}
  /\ Repairing(g) \/ Pending(g) = {0}
  /\ Repairing(g) \/ g \notin mm.outbox
  /\ \A i \in DOMAIN plans[g] : CommitGenHolds(plans[g][i], Repairing(g))

CommitSteps(g) == 5 + 4 * Len(plans[g])

(* Destination mappings first, one command; then the record and the outbox;
   then each lobby's sources, the users', and the index entries. *)
CommitWrites(g, k) ==
  LET n == Len(plans[g])
      Pos(l) == CHOOSE i \in 1..n : LobbyOf(plans[g][i]) = l
      Done(l, j) == l \in GameLobbies(g) /\ k >= 3 + 4 * (Pos(l) - 1) + j
      users == k >= 4 + 4 * n
  IN [mm EXCEPT
     !.lobbyGame = [l \in Lobbies |-> IF k >= 1 /\ l \in GameLobbies(g) THEN g ELSE @[l]],
     !.userGame = [u \in Users |-> IF k >= 1 /\ u \in GameUsers(g) THEN g ELSE @[u]],
     !.active = IF k >= 2 THEN @ \cup {g} ELSE @,
     !.outbox = IF k >= 3 THEN @ \cup {g} ELSE @,
     !.outcome = [l \in Lobbies |-> IF Done(l, 1)
                    THEN [status |-> "matched", token |-> plans[g][Pos(l)]] ELSE @[l]],
     !.identity = [l \in Lobbies |-> IF Done(l, 2) THEN 0 ELSE @[l]],
     !.lease = [l \in Lobbies |-> IF Done(l, 3) THEN 0 ELSE @[l]],
     !.meta = [l \in Lobbies |-> IF Done(l, 4) /\ @[l] # "none" THEN "matched" ELSE @[l]],
     !.pending = [u \in Users |-> IF users /\ u \in GameUsers(g) THEN g ELSE @[u]],
     !.claim = [u \in Users |-> IF users /\ u \in GameUsers(g) THEN 0 ELSE @[u]],
     !.index = IF k >= 5 + 4 * n THEN @ \ {plans[g][i] : i \in 1..n} ELSE @]

(* cleanup_matchmaking_for_completion: the active record, which names the
   lobbies, is retired last. *)
CleanWrites_AnyGame(g, k) ==
  LET lobbies == {l \in Lobbies : g \in mm.active /\ l \in GameLobbies(g)} IN
  [mm EXCEPT
     !.meta = [l \in Lobbies |-> IF l \in lobbies /\ @[l] = "matched"
                                 THEN "waiting" ELSE @[l]],
     !.userGame = [u \in Users |-> IF u \in GameUsers(g) THEN 0 ELSE @[u]],
     !.lobbyGame = [l \in Lobbies |-> IF l \in lobbies THEN 0 ELSE @[l]],
     !.active = IF k >= 4 THEN @ \ {g} ELSE @]

CleanWrites(g, k) ==
  LET lobbies == {l \in Lobbies : g \in mm.active /\ l \in GameLobbies(g)
                                    /\ mm.lobbyGame[l] = g} IN
  [mm EXCEPT
     !.meta = [l \in Lobbies |-> IF k >= 1 /\ l \in lobbies /\ @[l] = "matched"
                                 THEN "waiting" ELSE @[l]],
     !.userGame = [u \in Users |-> IF k >= 2 /\ u \in GameUsers(g) /\ @[u] = g
                                   THEN 0 ELSE @[u]],
     !.lobbyGame = [l \in Lobbies |-> IF k >= 3 /\ l \in lobbies THEN 0 ELSE @[l]],
     !.active = IF k >= 4 THEN @ \ {g} ELSE @]
-----------------------------------------------------------------------------
(***************************************************************************)
(* Calls.  Each begins as a plan and runs as a script, possibly again.     *)
(***************************************************************************)
Holds(o) == CASE o.kind = "admit" -> AdmitHolds(o.id)
              [] o.kind = "cancel" -> CancelHolds(o.id)
              [] o.kind = "reap" -> ReapHolds(o.id)
              [] o.kind = "commit" -> CommitHolds(o.id)
              [] o.kind = "clean" -> TRUE

Steps(o) == CASE o.kind = "commit" -> CommitSteps(o.id)
              [] o.kind = "clean" -> 4
              [] OTHER -> 6

Writes(o, k) == CASE o.kind = "admit" -> AdmitWrites(o.id, k)
                  [] o.kind = "cancel" -> RetireWrites(o.id, "cancelled", k)
                  [] o.kind = "reap" -> RetireWrites(o.id, "expired", k)
                  [] o.kind = "commit" -> CommitWrites(o.id, k)
                  [] o.kind = "clean" -> CleanWrites(o.id, k)

(* What a caller learns from a script that was answered. *)
Told(o) ==
  CASE o.kind = "admit" -> [told EXCEPT ![o.id] = @ \cup {"queued"}]
    [] o.kind = "cancel" /\ mm.identity[LobbyOf(o.id)] = o.id ->
         [told EXCEPT ![o.id] = @ \cup {"removed"}]
    [] o.kind = "commit" ->
         [t \in Tokens |-> IF \E i \in DOMAIN plans[o.id] : plans[o.id][i] = t
                           THEN told[t] \cup {"matched"} ELSE told[t]]
    [] OTHER -> told

(* The whole script, answered. *)
Run(o) ==
  /\ Holds(o)
  /\ mm' = Writes(o, Steps(o))
  /\ ops' = ops \ {o} /\ torn' = torn \ {o}
  /\ told' = Told(o)
  /\ game' = IF o.kind = "clean" THEN [game EXCEPT ![o.id] = "retired"] ELSE game
  /\ UNCHANGED <<gens, plans, bus, worker, budget>>

(* After an error admissions and commits are repeated, and a cleanup is
   retried from its pending record; a cancellation and a reap are over. *)
Kept(o) == IF o.kind \in {"cancel", "reap"} THEN ops \ {o} ELSE ops

(* The whole script, its answer lost. *)
RunUnanswered(o) ==
  /\ Holds(o) /\ budget.lost < setting.lost
  /\ mm' = Writes(o, Steps(o))
  /\ ops' = Kept(o) /\ torn' = torn \ {o}
  /\ budget' = [budget EXCEPT !.lost = @ + 1]
  /\ UNCHANGED <<gens, plans, told, bus, game, worker>>

(* A command of the script fails: what came before it stays. *)
Tear(o) ==
  /\ Holds(o) /\ budget.torn < setting.torn
  /\ \E k \in 1..(Steps(o) - 1) : mm' = Writes(o, k)
  /\ ops' = Kept(o)
  /\ torn' = IF o.kind = "commit" THEN torn \cup {o} ELSE torn
  /\ budget' = [budget EXCEPT !.torn = @ + 1]
  /\ UNCHANGED <<gens, plans, told, bus, game, worker>>

(* A refused script changes nothing, except that a reap prunes the index
   entries of a generation that was succeeded; a commit whose outbox record
   outlived its mappings counts as committed. *)
Refused(o) ==
  /\ ~Holds(o)
  /\ ops' = ops \ {o} /\ torn' = torn \ {o}
  /\ mm' = IF o.kind = "reap" /\ PruneHolds(o.id)
           THEN [mm EXCEPT !.index = @ \ {o.id}] ELSE mm
  /\ told' = IF o.kind = "commit" /\ o.id \in mm.outbox /\ Mapped(o.id) = {0}
             THEN Told(o) ELSE told
  /\ UNCHANGED <<gens, plans, bus, game, worker, budget>>

(* Retries run out or the process dies, whatever the script has done so far; a
   commit looks for its record once more. *)
GiveUp(o) ==
  /\ o.kind # "clean" /\ budget.lost < setting.lost
  /\ ops' = ops \ {o}
  /\ told' \in {told, IF o.kind = "commit" /\ o.id \in mm.active THEN Told(o) ELSE told}
  /\ budget' = [budget EXCEPT !.lost = @ + 1]
  /\ UNCHANGED <<mm, gens, plans, torn, bus, game, worker>>

Ask(o) == ops' = ops \cup {o} /\ UNCHANGED <<mm, torn, told, bus, game, worker, budget>>

(* add_lobby_to_queue: a new token for every request. *)
AskAdmit(r) ==
  /\ Len(gens) < setting.tokens
  /\ gens' = Append(gens, r)
  /\ Ask(Op("admit", Len(gens) + 1))
  /\ UNCHANGED plans

(* The generation to cancel is the one the identity key names. *)
AskCancel(l) ==
  /\ mm.identity[l] # 0
  /\ Ask(Op("cancel", mm.identity[l]))
  /\ UNCHANGED <<gens, plans>>

(* Cancelling where nothing is queued restores orphaned metadata. *)
RestoreMetadata(l) ==
  /\ mm.identity[l] = 0 /\ mm.lobbyGame[l] = 0 /\ mm.meta[l] = "queued"
  /\ mm' = [mm EXCEPT !.meta[l] = "waiting"]
  /\ UNCHANGED <<gens, plans, ops, torn, told, bus, game, worker, budget>>

(* One sample: live generations of distinct lobbies and users form a match
   under a new game id, the others are to be reaped. *)
SampleMatch ==
  /\ Len(plans) < setting.games
  /\ \E p \in {q \in UNION {[1..n -> DOMAIN gens] : n \in 1..2} :
                 /\ \A i \in DOMAIN q : Live(q[i])
                 /\ \A i, j \in DOMAIN q : i < j =>
                      /\ q[i] < q[j] /\ LobbyOf(q[i]) # LobbyOf(q[j])
                      /\ UsersOf(q[i]) \cap UsersOf(q[j]) = {}} :
       plans' = Append(plans, p)
  /\ Ask(Op("commit", Len(plans) + 1))
  /\ UNCHANGED gens

SampleStale(t) ==
  /\ t \in DOMAIN gens /\ t \in mm.index /\ ~Live(t)
  /\ Op("reap", t) \notin ops
  /\ Ask(Op("reap", t))
  /\ UNCHANGED <<gens, plans>>

(* REFRESH_LOBBY_QUEUE_LEASE_SCRIPT, by a member of the queued generation. *)
Heartbeat(l) ==
  LET t == mm.identity[l] IN
  /\ mm.meta[l] = "queued" /\ t # 0 /\ ~Terminal(t)
  /\ mm.lease[l] # t \/ mm.outcome[l].token # t
  /\ mm' = [mm EXCEPT !.lease[l] = t,
                      !.outcome[l] = [status |-> "admitted", token |-> t]]
  /\ UNCHANGED <<gens, plans, ops, torn, told, bus, game, worker, budget>>

(* Keys with a TTL disappear: the queue lease, the metadata of a lobby that
   is not queued. *)
Lapse ==
  /\ budget.lapse < setting.lapse
  /\ \E l \in Lobbies :
       \/ mm.lease[l] # 0 /\ mm' = [mm EXCEPT !.lease[l] = 0]
       \/ mm.meta[l] \in {"waiting", "matched"} /\ mm' = [mm EXCEPT !.meta[l] = "none"]
  /\ budget' = [budget EXCEPT !.lapse = @ + 1]
  /\ UNCHANGED <<gens, plans, ops, torn, told, bus, game, worker>>

(* A client's JoinGame acknowledges its assignment, or its TTL ends. *)
AcknowledgeHandoff(u) ==
  /\ mm.pending[u] # 0
  /\ mm' = [mm EXCEPT !.pending[u] = 0]
  /\ UNCHANGED <<gens, plans, ops, torn, told, bus, game, worker, budget>>
-----------------------------------------------------------------------------
(***************************************************************************)
(* The outbox and the game.                                                *)
(***************************************************************************)
ScanOutbox_Takes(w) ==
  /\ w \in setting.workers /\ worker[w].at = "idle"
  /\ \E g \in mm.outbox :
       /\ worker' = [worker EXCEPT ![w] = [at |-> "publish", game |-> g]]
       /\ mm' = [mm EXCEPT !.outbox = @ \ {g}]
  /\ UNCHANGED <<gens, plans, ops, torn, told, bus, game, budget>>

ScanOutbox(w) ==
  /\ w \in setting.workers /\ worker[w].at = "idle"
  /\ \E g \in mm.outbox : worker' = [worker EXCEPT ![w] = [at |-> "publish", game |-> g]]
  /\ UNCHANGED <<mm, gens, plans, ops, torn, told, bus, game, budget>>

Entered(g) == [bus EXCEPT !.created[g] = @ + 1, !.marker[g] = "kept"]

(* publish_game_created_once: entry and marker in one script.  The executor
   starts a game at its first entry. *)
PublishOnce(w) ==
  LET g == worker[w].game IN
  /\ worker[w].at = "publish"
  /\ bus' = IF bus.marker[g] = "none" THEN Entered(g) ELSE bus
  /\ game' = [game EXCEPT ![g] = IF @ = "none" THEN "live" ELSE @]
  /\ worker' = [worker EXCEPT ![w].at = "ack"]
  /\ UNCHANGED <<mm, gens, plans, ops, torn, told, budget>>

AcknowledgeOutbox(w) ==
  /\ worker[w].at = "ack"
  /\ mm' = [mm EXCEPT !.outbox = @ \ {worker[w].game}]
  /\ worker' = [worker EXCEPT ![w].at = "expire"]
  /\ UNCHANGED <<gens, plans, ops, torn, told, bus, game, budget>>

ExpireMarker(w) ==
  /\ worker[w].at = "expire"
  /\ bus' = [bus EXCEPT !.marker[worker[w].game] = "expiring"]
  /\ worker' = [worker EXCEPT ![w] = [at |-> "idle", game |-> 0]]
  /\ UNCHANGED <<mm, gens, plans, ops, torn, told, game, budget>>

WorkerFails(w) ==
  /\ worker[w].at # "idle" /\ budget.lost < setting.lost
  /\ worker' = [worker EXCEPT ![w] = [at |-> "idle", game |-> 0]]
  /\ budget' = [budget EXCEPT !.lost = @ + 1]
  /\ UNCHANGED <<mm, gens, plans, ops, torn, told, bus, game>>

(* The retention outlives every worker and every retry that knows the game. *)
MarkerExpires(g) ==
  /\ bus.marker[g] = "expiring"
  /\ \A w \in Workers : worker[w].game # g
  /\ Op("commit", g) \notin ops /\ g \notin mm.outbox
  /\ bus' = [bus EXCEPT !.marker[g] = "none"]
  /\ UNCHANGED <<mm, gens, plans, ops, torn, told, game, worker, budget>>

(* A match outlasts the seconds in which its commit is retried. *)
Finish(g) ==
  /\ game[g] = "live" /\ Op("commit", g) \notin ops
  /\ game' = [game EXCEPT ![g] = "over"]
  /\ ops' = ops \cup {Op("clean", g)}
  /\ UNCHANGED <<mm, gens, plans, torn, told, bus, worker, budget>>
-----------------------------------------------------------------------------
Call(o) == Run(o) \/ RunUnanswered(o) \/ Tear(o) \/ Refused(o) \/ GiveUp(o)

Next ==
  /\ \/ \E o \in ops : Call(o)
     \/ \E r \in setting.rosters : AskAdmit(r)
     \/ \E l \in Lobbies : AskCancel(l) \/ RestoreMetadata(l) \/ Heartbeat(l)
     \/ SampleMatch \/ Lapse
     \/ \E t \in Tokens : SampleStale(t)
     \/ \E u \in Users : AcknowledgeHandoff(u)
     \/ \E w \in Workers : \/ ScanOutbox(w) \/ PublishOnce(w) \/ AcknowledgeOutbox(w)
                           \/ ExpireMarker(w) \/ WorkerFails(w)
     \/ \E g \in Games : MarkerExpires(g) \/ Finish(g)
  /\ UNCHANGED setting

(* Workers and the sampling loop are spawned loops, retries of a plan that
   is not given up are made, cleanup is retried from its record. *)
Fairness ==
  /\ \A o \in [kind : {"admit", "cancel", "reap"}, id : Tokens]
              \cup [kind : {"commit", "clean"}, id : Games] :
       WF_vars(o \in ops /\ (Run(o) \/ Refused(o)))
  /\ \A t \in Tokens : WF_vars(SampleStale(t))
  /\ \A w \in Workers : WF_vars(ScanOutbox(w) \/ PublishOnce(w)
                                  \/ AcknowledgeOutbox(w) \/ ExpireMarker(w))

Spec == Init /\ [][Next]_<<vars, setting>> /\ Fairness
-----------------------------------------------------------------------------
(***************************************************************************)
(* Properties.                                                             *)
(***************************************************************************)
TypeOK ==
  /\ mm.meta \in [Lobbies -> {"none", "waiting", "queued", "matched"}]
  /\ mm.identity \in [Lobbies -> 0..Len(gens)] /\ mm.lease \in [Lobbies -> 0..Len(gens)]
  /\ mm.index \subseteq DOMAIN gens /\ mm.active \subseteq DOMAIN plans
  /\ mm.outbox \subseteq DOMAIN plans
  /\ \A u \in Users : mm.claim[u] \in 0..Len(gens) /\ mm.userGame[u] \in 0..Len(plans)
  /\ \A g \in DOMAIN plans : game[g] # "none" => bus.created[g] > 0

Committed(g) == g \in DOMAIN plans /\ (g \in mm.active \/ game[g] \in {"live", "over"})

(* Two matches that are both committed and not over share no lobby and no
   user: concurrent matchmakers, retries and repairs claim each once. *)
OneMatchEach ==
  \A g, h \in Games :
    (g # h /\ Committed(g) /\ Committed(h) /\ {game[g], game[h]} \subseteq {"none", "live"})
      => /\ GameLobbies(g) \cap GameLobbies(h) = {}
         /\ GameUsers(g) \cap GameUsers(h) = {}

(* GameCreated enters the command stream at most once for a game, whatever
   workers crash, repeat or hold an old scan. *)
CreatedOnce == \A g \in Games : bus.created[g] <= 1

(* Together: nobody is matched twice, and no match is played twice. *)
MatchedOnce == TypeOK /\ OneMatchEach /\ CreatedOnce

(* Lost answers, repeated and half-applied scripts never make two answers about
   one generation disagree: told that it has left the queue, it is not admitted
   again and not matched.  The outcome key remembers one generation of a lobby,
   so this is what the code guarantees until another one of the lobby is asked
   for; after that a late retry may readmit it. *)
AnswersAgree ==
  [][\A t \in DOMAIN gens :
       (/\ "removed" \in told[t]
        /\ \A s \in DOMAIN gens : LobbyOf(s) = LobbyOf(t) => s = t)
         => /\ "matched" \in told'[t] => "matched" \in told[t]
            /\ mm'.identity[LobbyOf(t)] # t]_vars

(* The index is the repair worklist: what a generation still holds can be found
   from the index, even after scripts that stopped half-way and were given up.
   A claim may be left behind only where the lobby was queued again without
   the user: the entries of a generation that was succeeded are pruned alone. *)
ResidueIsIndexed ==
  /\ \A l \in Lobbies : mm.identity[l] # 0 => mm.identity[l] \in mm.index
  /\ \A u \in Users : LET t == mm.claim[u] IN
       \/ t = 0 \/ t \in mm.index
       \/ \E s \in DOMAIN gens : LobbyOf(s) = LobbyOf(t) /\ u \notin UsersOf(s)

(* A mapping to a game whose record does not exist is that of a commit which is
   still retried, or which stopped half-way before it was given up. *)
MappingsBacked ==
  \A g \in DOMAIN plans :
    g \in Mapped(g) => g \in mm.active \/ Op("commit", g) \in ops \cup torn

(* Together: what half-applied scripts may leave behind. *)
ResidueIsKnown == ResidueIsIndexed /\ MappingsBacked

(* A cleanup never frees a mapping of a later match. *)
CleanupIsExact ==
  [][\A l \in Lobbies : \A g \in Games :
       (mm.lobbyGame[l] = g /\ mm'.lobbyGame[l] # g) => game[g] \in {"over", "retired"}]_vars

(* Every match that has reached the outbox is created, and so is every match
   whose record is written while its commit is retried, whatever answers,
   scripts and workers are lost on the way; only a commit that is given up
   between the two commands is not. *)
CommittedIsCreated ==
  \A g \in Games :
    (g \in mm.outbox \/ (g \in mm.active /\ Op("commit", g) \in ops)) ~>
      (bus.created[g] > 0 \/ (g \notin mm.outbox /\ Op("commit", g) \in torn \ ops))

(* A generation that is no longer live leaves the index, or is renewed. *)
StaleIsReaped ==
  \A t \in Tokens : (t \in mm.index /\ ~Live(t)) ~> (t \notin mm.index \/ Live(t))
=============================================================================
