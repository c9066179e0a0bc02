------------------------- MODULE MatchCommitProofs -------------------------
(***************************************************************************)
(* Nobody is matched twice, no match is created twice, and a cleanup frees *)
(* only its own match: proved for any number of lobbies, users, queue      *)
(* generations, matches and outbox workers, however many scripts stop      *)
(* half-way, answers are lost, workers fail and keys expire.               *)
(***************************************************************************)
EXTENDS MatchCommit, TLAPS

-----------------------------------------------------------------------------
(* The inductive invariant.                                                *)

Keys == {"meta", "identity", "lease", "outcome", "claim", "index", "lobbyGame",
         "userGame", "pending", "active", "outbox"}
Marks == {"none", "kept", "expiring"}
Stages == {"none", "live", "over", "retired"}

SlotTypes(m) ==
  /\ DOMAIN m = Keys
  /\ m.meta \in [Lobbies -> {"none", "waiting", "queued", "matched"}]
  /\ m.identity \in [Lobbies -> 0..Len(gens)] /\ m.lease \in [Lobbies -> 0..Len(gens)]
  /\ m.claim \in [Users -> 0..Len(gens)] /\ m.index \subseteq DOMAIN gens
  /\ m.lobbyGame \in [Lobbies -> 0..Len(plans)] /\ m.userGame \in [Users -> 0..Len(plans)]
  /\ m.active \subseteq DOMAIN plans /\ m.outbox \subseteq DOMAIN plans

\* What was asked for, and what was planned of it.
PlanTypes ==
  /\ setting \in Settings
  /\ gens \in Seq(setting.rosters) /\ Len(gens) <= MaxToken
  /\ plans \in Seq(Seq(Tokens)) /\ Len(plans) <= MaxGame
  /\ \A g \in DOMAIN plans : \A i \in DOMAIN plans[g] : plans[g][i] \in DOMAIN gens
OpTypes ==
  \A o \in ops : /\ o = Op(o.kind, o.id)
                 /\ \/ o.kind \in {"admit", "cancel", "reap"} /\ o.id \in DOMAIN gens
                    \/ o.kind \in {"commit", "clean"} /\ o.id \in DOMAIN plans
GameTypes ==
  /\ game \in [Games -> Stages] /\ DOMAIN bus = {"created", "marker"}
  /\ bus.created \in [Games -> {0, 1}] /\ bus.marker \in [Games -> Marks]
  /\ worker \in [Workers -> [at : {"idle", "publish", "ack", "expire"}, game : Nat]]

\* A match that is written and not over owns all its lobbies and users; a game
\* that plays, or is about to be created, has its record.
Owned(g) == /\ \A l \in GameLobbies(g) : mm.lobbyGame[l] = g
            /\ \A u \in GameUsers(g) : mm.userGame[u] = g
Records ==
  \A g \in DOMAIN plans :
    /\ g \in mm.active /\ game[g] \in {"none", "live"} => Owned(g)
    /\ game[g] = "live" \/ (g \in mm.outbox /\ game[g] = "none") => g \in mm.active
    /\ Op("clean", g) \in ops => game[g] = "over"

\* The delivery marker outlives everybody who could deliver again.
Delivery ==
  \A g \in Games :
    /\ game[g] # "none" \/ bus.marker[g] # "none" => bus.created[g] = 1
    /\ g \notin DOMAIN plans => bus.created[g] = 0
    /\ bus.marker[g] = "none" /\ bus.created[g] = 1 =>
         /\ \A w \in Workers : worker[w].game # g
         /\ Op("commit", g) \notin ops /\ g \notin mm.outbox
Deliverers ==
  \A w \in Workers : LET g == worker[w].game IN
    /\ worker[w].at = "idle" => g = 0
    /\ worker[w].at # "idle" => g \in DOMAIN plans
    /\ worker[w].at \in {"ack", "expire"} => bus.created[g] = 1
    /\ worker[w].at = "publish" /\ game[g] = "none" => g \in mm.active

Types == PlanTypes /\ SlotTypes(mm) /\ OpTypes /\ GameTypes
Inv == Types /\ Records /\ Delivery /\ Deliverers

-----------------------------------------------------------------------------
(* Generations and plans.                                                  *)

\* Generations and games are numbered from one, within the bounds.
LEMMA Numbers ==
  ASSUME PlanTypes
  PROVE  /\ Len(gens) \in Nat /\ DOMAIN gens = 1..Len(gens) /\ DOMAIN gens \subseteq Tokens
         /\ Len(plans) \in Nat /\ DOMAIN plans = 1..Len(plans) /\ DOMAIN plans \subseteq Games
         /\ 0 \notin DOMAIN plans /\ 0 \notin DOMAIN gens
         /\ MaxToken \in Nat /\ MaxGame \in Nat
  BY MatchAssumption DEF PlanTypes, Tokens, Games

\* A generation is of a lobby and users of the system.
LEMMA Rosters ==
  ASSUME PlanTypes, NEW t \in DOMAIN gens
  PROVE  LobbyOf(t) \in Lobbies /\ UsersOf(t) \subseteq Users
  <1>1. gens[t] \in setting.rosters BY DEF PlanTypes
  <1> QED BY <1>1, MatchAssumption DEF PlanTypes, LobbyOf, UsersOf

\* So are those of a match.
LEMMA Parties ==
  ASSUME PlanTypes, NEW g \in DOMAIN plans
  PROVE  GameLobbies(g) \subseteq Lobbies /\ GameUsers(g) \subseteq Users
         /\ Len(plans[g]) \in Nat
  <1>1. \A i \in DOMAIN plans[g] : plans[g][i] \in DOMAIN gens BY DEF PlanTypes
  <1>2. \A i \in DOMAIN plans[g] : LobbyOf(plans[g][i]) \in Lobbies /\ UsersOf(plans[g][i]) \subseteq Users
    BY <1>1, Rosters
  <1>3. plans[g] \in Seq(Tokens) BY DEF PlanTypes
  <1>4. Len(plans[g]) \in Nat BY <1>3
  <1>5. GameLobbies(g) \subseteq Lobbies BY <1>2 DEF GameLobbies
  <1>6. GameUsers(g) \subseteq Users BY <1>2 DEF GameUsers
  <1> QED BY <1>4, <1>5, <1>6

\* A new generation or plan changes nothing of the matches planned before.
LEMMA PartiesKept ==
  ASSUME PlanTypes, NEW g \in DOMAIN plans,
         \A t \in DOMAIN gens : gens'[t] = gens[t], plans'[g] = plans[g]
  PROVE  GameLobbies(g)' = GameLobbies(g) /\ GameUsers(g)' = GameUsers(g)
  <1>1. \A i \in DOMAIN plans[g] : gens'[plans[g][i]] = gens[plans[g][i]] BY DEF PlanTypes
  <1>2. GameLobbies(g)' = GameLobbies(g) BY <1>1 DEF GameLobbies, LobbyOf
  <1>3. GameUsers(g)' = GameUsers(g)
    <2>1. {gens'[plans'[g][i]].users : i \in DOMAIN plans'[g]} = {gens[plans[g][i]].users : i \in DOMAIN plans[g]}
      BY <1>1
    <2> QED BY <2>1 DEF GameUsers, UsersOf
  <1> QED BY <1>2, <1>3

-----------------------------------------------------------------------------
(* What the scripts write.                                                 *)

SameMatches(m) ==
  /\ m.lobbyGame = mm.lobbyGame /\ m.userGame = mm.userGame
  /\ m.active = mm.active /\ m.outbox = mm.outbox

\* An admission, or a prefix of one, leaves matches alone.
LEMMA Admitted ==
  ASSUME PlanTypes, SlotTypes(mm), NEW t \in DOMAIN gens, NEW k \in Nat
  PROVE  SlotTypes(AdmitWrites(t, k)) /\ SameMatches(AdmitWrites(t, k))
  <1>0. DOMAIN gens = 1..Len(gens) /\ Len(gens) \in Nat BY Numbers
  <1>1. PICK w : w = AdmitWrites(t, k) OBVIOUS
  <1>2. PICK l : l = LobbyOf(t) OBVIOUS
  <1>3. l \in Lobbies /\ DOMAIN mm = Keys BY <1>2, Rosters DEF SlotTypes
  <1>4. /\ DOMAIN w = Keys
        /\ w.index = IF k >= 1 THEN mm.index \cup {t} ELSE mm.index
        /\ w.identity = [mm.identity EXCEPT ![l] = IF k >= 2 THEN t ELSE @]
        /\ w.lease = [mm.lease EXCEPT ![l] = IF k >= 3 THEN t ELSE @]
        /\ w.claim = IF k >= 5 THEN [u \in Users |-> IF u \in UsersOf(t) THEN t ELSE mm.claim[u]]
                     ELSE mm.claim
        /\ w.meta = [mm.meta EXCEPT ![l] = IF k >= 6 THEN "queued" ELSE @]
        /\ w.lobbyGame = mm.lobbyGame /\ w.userGame = mm.userGame
        /\ w.active = mm.active /\ w.outbox = mm.outbox
    BY <1>1, <1>2, <1>3 DEF AdmitWrites, Keys
  <1>5. SlotTypes(w)
    <2>1. w.meta \in [Lobbies -> {"none", "waiting", "queued", "matched"}] BY <1>3, <1>4 DEF SlotTypes
    <2>2. w.identity \in [Lobbies -> 0..Len(gens)] BY <1>0, <1>3, <1>4 DEF SlotTypes
    <2>3. w.lease \in [Lobbies -> 0..Len(gens)] BY <1>0, <1>3, <1>4 DEF SlotTypes
    <2>4. w.claim \in [Users -> 0..Len(gens)] BY <1>0, <1>4 DEF SlotTypes
    <2>5. w.index \subseteq DOMAIN gens BY <1>4 DEF SlotTypes
    <2> QED BY <1>4, <2>1, <2>2, <2>3, <2>4, <2>5 DEF SlotTypes
  <1> QED BY <1>1, <1>4, <1>5 DEF SameMatches

\* So does a cancellation or a reap.
LEMMA Retired ==
  ASSUME PlanTypes, SlotTypes(mm), NEW t \in DOMAIN gens, NEW status, NEW k \in Nat
  PROVE  SlotTypes(RetireWrites(t, status, k)) /\ SameMatches(RetireWrites(t, status, k))
  <1>0. DOMAIN gens = 1..Len(gens) /\ Len(gens) \in Nat BY Numbers
  <1>1. PICK w : w = RetireWrites(t, status, k) OBVIOUS
  <1>2. PICK l : l = LobbyOf(t) OBVIOUS
  <1>3. l \in Lobbies /\ DOMAIN mm = Keys BY <1>2, Rosters DEF SlotTypes
  <1>4. /\ DOMAIN w = Keys
        /\ w.index = IF k >= 6 THEN mm.index \ {t} ELSE mm.index
        /\ w.identity = [mm.identity EXCEPT ![l] = IF k >= 2 THEN 0 ELSE @]
        /\ w.lease = [mm.lease EXCEPT ![l] = IF k >= 3 /\ @ = t THEN 0 ELSE @]
        /\ w.claim = IF k >= 4 THEN [u \in Users |-> IF u \in UsersOf(t) /\ mm.claim[u] = t
                                                     THEN 0 ELSE mm.claim[u]]
                     ELSE mm.claim
        /\ w.meta = [mm.meta EXCEPT ![l] = IF k >= 5 /\ @ = "queued" /\ mm.lobbyGame[l] = 0
                                           THEN "waiting" ELSE @]
        /\ w.lobbyGame = mm.lobbyGame /\ w.userGame = mm.userGame
        /\ w.active = mm.active /\ w.outbox = mm.outbox
    BY <1>1, <1>2, <1>3 DEF RetireWrites, Keys
  <1>5. SlotTypes(w)
    <2>1. w.meta \in [Lobbies -> {"none", "waiting", "queued", "matched"}] BY <1>3, <1>4 DEF SlotTypes
    <2>2. w.identity \in [Lobbies -> 0..Len(gens)] BY <1>0, <1>3, <1>4 DEF SlotTypes
    <2>3. w.lease \in [Lobbies -> 0..Len(gens)] BY <1>0, <1>3, <1>4 DEF SlotTypes
    <2>4. w.claim \in [Users -> 0..Len(gens)] BY <1>0, <1>4 DEF SlotTypes
    <2>5. w.index \subseteq DOMAIN gens BY <1>4 DEF SlotTypes
    <2> QED BY <1>4, <2>1, <2>2, <2>3, <2>4, <2>5 DEF SlotTypes
  <1> QED BY <1>1, <1>4, <1>5 DEF SameMatches

CommitMoves(g, k, w) ==
  /\ w.lobbyGame = [l \in Lobbies |-> IF k >= 1 /\ l \in GameLobbies(g) THEN g ELSE mm.lobbyGame[l]]
  /\ w.userGame = [u \in Users |-> IF k >= 1 /\ u \in GameUsers(g) THEN g ELSE mm.userGame[u]]
  /\ w.active = IF k >= 2 THEN mm.active \cup {g} ELSE mm.active
  /\ w.outbox = IF k >= 3 THEN mm.outbox \cup {g} ELSE mm.outbox

\* A commit maps its parties, then writes the record, then the outbox.
LEMMA Committing ==
  ASSUME PlanTypes, SlotTypes(mm), NEW g \in DOMAIN plans, NEW k \in Nat
  PROVE  SlotTypes(CommitWrites(g, k)) /\ CommitMoves(g, k, CommitWrites(g, k))
  <1>0. /\ DOMAIN gens = 1..Len(gens) /\ Len(gens) \in Nat
        /\ DOMAIN plans = 1..Len(plans) /\ Len(plans) \in Nat
    BY Numbers
  <1>1. PICK w : w = CommitWrites(g, k) OBVIOUS
  <1>3. DOMAIN mm = Keys BY DEF SlotTypes
  <1> DEFINE n == Len(plans[g])
             Pos(l) == CHOOSE i \in 1..n : LobbyOf(plans[g][i]) = l
             Done(l, j) == l \in GameLobbies(g) /\ k >= 3 + 4 * (Pos(l) - 1) + j
             users == k >= 4 + 4 * n
  <1>4. /\ DOMAIN w = Keys
        /\ w.identity = [l \in Lobbies |-> IF Done(l, 2) THEN 0 ELSE mm.identity[l]]
        /\ w.lease = [l \in Lobbies |-> IF Done(l, 3) THEN 0 ELSE mm.lease[l]]
        /\ w.meta = [l \in Lobbies |-> IF Done(l, 4) /\ mm.meta[l] # "none" THEN "matched" ELSE mm.meta[l]]
        /\ w.claim = [u \in Users |-> IF users /\ u \in GameUsers(g) THEN 0 ELSE mm.claim[u]]
        /\ w.index \subseteq mm.index
        /\ CommitMoves(g, k, w)
    BY <1>1, <1>3 DEF CommitWrites, CommitMoves, Keys
  <1> HIDE DEF Done, users
  <1>5. SlotTypes(w)
    <2>1. w.meta \in [Lobbies -> {"none", "waiting", "queued", "matched"}] BY <1>4 DEF SlotTypes
    <2>2. w.identity \in [Lobbies -> 0..Len(gens)] BY <1>0, <1>4 DEF SlotTypes
    <2>3. w.lease \in [Lobbies -> 0..Len(gens)] BY <1>0, <1>4 DEF SlotTypes
    <2>4. w.claim \in [Users -> 0..Len(gens)] BY <1>0, <1>4 DEF SlotTypes
    <2>5. w.index \subseteq DOMAIN gens BY <1>4 DEF SlotTypes
    <2>6. w.lobbyGame \in [Lobbies -> 0..Len(plans)] BY <1>0, <1>4 DEF SlotTypes, CommitMoves
    <2>7. w.userGame \in [Users -> 0..Len(plans)] BY <1>0, <1>4 DEF SlotTypes, CommitMoves
    <2>8. w.active \subseteq DOMAIN plans /\ w.outbox \subseteq DOMAIN plans BY <1>4 DEF SlotTypes, CommitMoves
    <2> QED BY <1>4, <2>1, <2>2, <2>3, <2>4, <2>5, <2>6, <2>7, <2>8 DEF SlotTypes
  <1> QED BY <1>1, <1>4, <1>5

\* What a cleanup may do to matches: take back what is its own.
CleanMoves(g, w) ==
  /\ \A l \in Lobbies : w.lobbyGame[l] = mm.lobbyGame[l] \/ (mm.lobbyGame[l] = g /\ w.lobbyGame[l] = 0)
  /\ \A u \in Users : w.userGame[u] = mm.userGame[u] \/ (mm.userGame[u] = g /\ w.userGame[u] = 0)
  /\ w.active \subseteq mm.active /\ mm.active \subseteq w.active \cup {g}
  /\ w.outbox = mm.outbox

\* A cleanup touches its own match only.
LEMMA Cleaning ==
  ASSUME PlanTypes, SlotTypes(mm), NEW g \in DOMAIN plans, NEW k \in Nat
  PROVE  SlotTypes(CleanWrites(g, k)) /\ CleanMoves(g, CleanWrites(g, k))
  <1>0. Len(plans) \in Nat BY Numbers
  <1>1. PICK w : w = CleanWrites(g, k) OBVIOUS
  <1>3. DOMAIN mm = Keys BY DEF SlotTypes
  <1> DEFINE lobbies == {l \in Lobbies : g \in mm.active /\ l \in GameLobbies(g) /\ mm.lobbyGame[l] = g}
  <1>4. /\ DOMAIN w = Keys
        /\ w.identity = mm.identity /\ w.lease = mm.lease /\ w.claim = mm.claim /\ w.index = mm.index
        /\ w.meta = [l \in Lobbies |-> IF k >= 1 /\ l \in lobbies /\ mm.meta[l] = "matched"
                                       THEN "waiting" ELSE mm.meta[l]]
        /\ w.userGame = [u \in Users |-> IF k >= 2 /\ u \in GameUsers(g) /\ mm.userGame[u] = g
                                         THEN 0 ELSE mm.userGame[u]]
        /\ w.lobbyGame = [l \in Lobbies |-> IF k >= 3 /\ l \in lobbies THEN 0 ELSE mm.lobbyGame[l]]
        /\ w.active = IF k >= 4 THEN mm.active \ {g} ELSE mm.active
        /\ w.outbox = mm.outbox
    BY <1>1, <1>3 DEF CleanWrites, Keys
  <1>5. SlotTypes(w)
    <2>1. w.meta \in [Lobbies -> {"none", "waiting", "queued", "matched"}] BY <1>4 DEF SlotTypes
    <2>2. w.userGame \in [Users -> 0..Len(plans)] BY <1>0, <1>4 DEF SlotTypes
    <2>3. w.lobbyGame \in [Lobbies -> 0..Len(plans)] BY <1>0, <1>4 DEF SlotTypes
    <2>4. w.active \subseteq DOMAIN plans BY <1>4 DEF SlotTypes
    <2> QED BY <1>4, <2>1, <2>2, <2>3, <2>4 DEF SlotTypes
  <1>6. CleanMoves(g, w) BY <1>4 DEF CleanMoves, SlotTypes
  <1> QED BY <1>1, <1>5, <1>6

-----------------------------------------------------------------------------
(* Steps of the scripts.                                                   *)

\* A step that touches no match and plans none.
LEMMA QuietStep ==
  ASSUME Inv, SlotTypes(mm'), SameMatches(mm'),
         UNCHANGED <<gens, plans, bus, game, worker, setting>>, OpTypes',
         \A o \in ops' \ ops : o.kind \in {"admit", "cancel", "reap"}
  PROVE  Inv'
  <1>1. Types'
    <2>1. SlotTypes(mm)' BY DEF SlotTypes
    <2>2. PlanTypes' /\ GameTypes' BY DEF Inv, Types, PlanTypes, GameTypes, Tokens, Games
    <2> QED BY <2>1, <2>2 DEF Types
  <1>2. \A g : /\ Op("clean", g) \in ops' => Op("clean", g) \in ops
               /\ Op("commit", g) \in ops' => Op("commit", g) \in ops
    BY DEF Op
  <1>3. /\ mm'.lobbyGame = mm.lobbyGame /\ mm'.userGame = mm.userGame
        /\ mm'.active = mm.active /\ mm'.outbox = mm.outbox
    BY DEF SameMatches
  <1>4. Records'
    <2>1. \A g \in DOMAIN plans : Owned(g) => Owned(g)'
      BY <1>3 DEF Owned, GameLobbies, GameUsers, LobbyOf, UsersOf
    <2> QED BY <1>2, <1>3, <2>1 DEF Inv, Records
  <1>5. Delivery' BY <1>2, <1>3 DEF Inv, Delivery
  <1>6. Deliverers' BY <1>3 DEF Inv, Deliverers
  <1> QED BY <1>1, <1>4, <1>5, <1>6 DEF Inv

\* A commit claims only what is free, so a match that owns its parties keeps them.
LEMMA CommitStep ==
  ASSUME Inv, NEW g \in DOMAIN plans, Op("commit", g) \in ops, CommitHolds(g),
         NEW k \in Nat \ {0}, mm' = CommitWrites(g, k), ops' \subseteq ops,
         UNCHANGED <<gens, plans, bus, game, worker, setting>>
  PROVE  Inv' /\ CommitMoves(g, k, mm')
  <1>0. /\ PlanTypes /\ SlotTypes(mm) /\ OpTypes /\ GameTypes BY DEF Inv, Types
  <1>1. SlotTypes(mm') /\ CommitMoves(g, k, mm') BY <1>0, Committing
  <1>2. Types'
    <2>1. SlotTypes(mm)' BY <1>1 DEF SlotTypes
    <2>2. PlanTypes' /\ GameTypes' BY <1>0 DEF PlanTypes, GameTypes, Tokens, Games
    <2>3. OpTypes' BY <1>0 DEF OpTypes
    <2> QED BY <2>1, <2>2, <2>3 DEF Types
  <1>3. \A h \in DOMAIN plans : /\ GameLobbies(h)' = GameLobbies(h) /\ GameLobbies(h) \subseteq Lobbies
                                /\ GameUsers(h)' = GameUsers(h) /\ GameUsers(h) \subseteq Users
    BY <1>0, Parties, PartiesKept
  <1>4. Owned(g)' BY <1>1, <1>3 DEF Owned, CommitMoves
  <1>5. \A h \in DOMAIN plans : h # g /\ Owned(h) => Owned(h)'
    <2> SUFFICES ASSUME NEW h \in DOMAIN plans, h # g, Owned(h) PROVE Owned(h)'
      OBVIOUS
    <2>0. Mapped(g) \subseteq {0, g} /\ h # 0 BY <1>0, Numbers DEF CommitHolds
    <2>1. \A l \in GameLobbies(h) : l \notin GameLobbies(g) BY <2>0 DEF Owned, Mapped
    <2>2. \A u \in GameUsers(h) : u \notin GameUsers(g) BY <2>0 DEF Owned, Mapped
    <2> QED BY <1>1, <1>3, <2>1, <2>2 DEF Owned, CommitMoves
  <1>6. mm.active \subseteq mm'.active /\ \A h : h \in mm'.active => h \in mm.active \/ h = g
    BY <1>1 DEF CommitMoves
  <1>7. \A h : h \in mm'.outbox => h \in mm.outbox \/ (h = g /\ g \in mm'.active)
    BY <1>1 DEF CommitMoves
  <1>8. Records' BY <1>4, <1>5, <1>6, <1>7 DEF Inv, Records
  <1>9. Delivery' BY <1>7 DEF Inv, Delivery
  <1>10. Deliverers' BY <1>6 DEF Inv, Deliverers
  <1> QED BY <1>1, <1>2, <1>8, <1>9, <1>10 DEF Inv

\* A cleanup runs for a game that is over, and takes back only what that game has.
LEMMA CleanStep ==
  ASSUME Inv, NEW g \in DOMAIN plans, Op("clean", g) \in ops,
         NEW k \in Nat, mm' = CleanWrites(g, k),
         \/ ops' = ops /\ game' = game
         \/ ops' = ops \ {Op("clean", g)} /\ game' = [game EXCEPT ![g] = "retired"],
         UNCHANGED <<gens, plans, bus, worker, setting>>
  PROVE  Inv' /\ CleanMoves(g, mm') /\ game[g] = "over"
  <1>0. /\ PlanTypes /\ SlotTypes(mm) /\ OpTypes /\ GameTypes BY DEF Inv, Types
  <1>1. SlotTypes(mm') /\ CleanMoves(g, mm') BY <1>0, Cleaning
  <1>2. /\ game[g] = "over" /\ g \in Games /\ g # 0 BY <1>0, Numbers DEF Inv, Records
  <1>3. /\ \A h \in Games \ {g} : game'[h] = game[h]
        /\ game'[g] \in {"over", "retired"} /\ game' \in [Games -> Stages]
    BY <1>0, <1>2 DEF GameTypes, Stages
  <1>4. ops' \subseteq ops OBVIOUS
  <1>5. Op("clean", g) \in ops' => game'[g] = "over" BY <1>2
  <1>6. Types'
    <2>1. SlotTypes(mm)' BY <1>1 DEF SlotTypes
    <2>2. PlanTypes' BY <1>0 DEF PlanTypes, Tokens
    <2>3. GameTypes' BY <1>0, <1>3 DEF GameTypes, Games
    <2>4. OpTypes' BY <1>0, <1>4 DEF OpTypes
    <2> QED BY <2>1, <2>2, <2>3, <2>4 DEF Types
  <1>7. \A h \in DOMAIN plans : /\ GameLobbies(h)' = GameLobbies(h) /\ GameLobbies(h) \subseteq Lobbies
                                /\ GameUsers(h)' = GameUsers(h) /\ GameUsers(h) \subseteq Users
    BY <1>0, Parties, PartiesKept
  <1>8. \A h \in DOMAIN plans : h # g /\ Owned(h) => Owned(h)'
    BY <1>1, <1>7 DEF Owned, CleanMoves
  <1>9. DOMAIN plans \subseteq Games BY <1>0, Numbers
  <1>10. Records'
    <2> SUFFICES ASSUME NEW h \in DOMAIN plans
                 PROVE  /\ h \in mm'.active /\ game'[h] \in {"none", "live"} => Owned(h)'
                        /\ game'[h] = "live" \/ (h \in mm'.outbox /\ game'[h] = "none") => h \in mm'.active
                        /\ Op("clean", h) \in ops' => game'[h] = "over"
      BY DEF Records
    <2>1. CASE h = g BY <1>3, <1>5, <2>1
    <2>2. CASE h # g
      <3>1. game'[h] = game[h] BY <1>3, <1>9, <2>2
      <3>2. h \in mm'.active <=> h \in mm.active BY <1>1, <2>2 DEF CleanMoves
      <3>3. mm'.outbox = mm.outbox BY <1>1 DEF CleanMoves
      <3> QED BY <1>4, <1>8, <2>2, <3>1, <3>2, <3>3 DEF Inv, Records
    <2> QED BY <2>1, <2>2
  <1>11. Delivery'
    <2>1. mm'.outbox = mm.outbox BY <1>1 DEF CleanMoves
    <2>2. \A h \in Games : game'[h] # "none" => game[h] # "none" BY <1>2, <1>3
    <2> QED BY <1>4, <2>1, <2>2 DEF Inv, Delivery
  <1>12. Deliverers'
    <2>1. \A h \in DOMAIN plans : game'[h] = "none" => game[h] = "none" /\ h # g BY <1>3, <1>9
    <2>2. \A h : h # g /\ h \in mm.active => h \in mm'.active BY <1>1 DEF CleanMoves
    <2> QED BY <2>1, <2>2 DEF Inv, Deliverers
  <1> QED BY <1>1, <1>2, <1>6, <1>10, <1>11, <1>12 DEF Inv

-----------------------------------------------------------------------------
(* Every step.                                                             *)

\* What CleanupIsExact says of one step.
FreesOnlyOver ==
  \A l \in Lobbies : \A g \in Games :
    (mm.lobbyGame[l] = g /\ mm'.lobbyGame[l] # g) => game[g] \in {"over", "retired"}

\* A script that passed its checks, up to a step k of its writes.
LEMMA ScriptStep ==
  ASSUME Inv, NEW o \in ops, Holds(o), NEW k \in Nat \ {0}, mm' = Writes(o, k),
         \/ ops' = ops /\ game' = game
         \/ /\ ops' = ops \ {o}
            /\ game' = IF o.kind = "clean" THEN [game EXCEPT ![o.id] = "retired"] ELSE game,
         UNCHANGED <<gens, plans, bus, worker, setting>>
  PROVE  Inv' /\ FreesOnlyOver
  <1>0. PlanTypes /\ SlotTypes(mm) /\ OpTypes BY DEF Inv, Types
  <1>1. OpTypes' BY <1>0 DEF OpTypes
  <1>2. /\ o = Op(o.kind, o.id)
        /\ \/ o.kind \in {"admit", "cancel", "reap"} /\ o.id \in DOMAIN gens
           \/ o.kind \in {"commit", "clean"} /\ o.id \in DOMAIN plans
    BY <1>0 DEF OpTypes
  <1>3. CASE o.kind \in {"admit", "cancel", "reap"}
    <2>1. SlotTypes(mm') /\ SameMatches(mm')
      <3>1. CASE o.kind = "admit" BY <1>0, <1>2, <3>1, Admitted DEF Writes
      <3>2. CASE o.kind = "cancel" BY <1>0, <1>2, <3>2, Retired DEF Writes
      <3>3. CASE o.kind = "reap" BY <1>0, <1>2, <3>3, Retired DEF Writes
      <3> QED BY <1>3, <3>1, <3>2, <3>3
    <2>2. game' = game /\ ops' \subseteq ops BY <1>3
    <2>3. Inv' BY <1>1, <2>1, <2>2, QuietStep
    <2> QED BY <2>1, <2>3 DEF SameMatches, FreesOnlyOver
  <1>4. CASE o.kind = "commit"
    <2> DEFINE g == o.id
    <2>1. g \in DOMAIN plans /\ Op("commit", g) \in ops BY <1>2, <1>4
    <2>2. CommitHolds(g) /\ mm' = CommitWrites(g, k) BY <1>4 DEF Holds, Writes
    <2>3. game' = game /\ ops' \subseteq ops BY <1>4
    <2>4. Inv' /\ CommitMoves(g, k, mm') BY <2>1, <2>2, <2>3, CommitStep
    <2>5. 0 \notin Games BY DEF Games
    <2>6. \A l \in GameLobbies(g) : mm.lobbyGame[l] \in {0, g} BY <2>2 DEF CommitHolds, Mapped
    <2>7. FreesOnlyOver BY <2>4, <2>5, <2>6 DEF CommitMoves, FreesOnlyOver
    <2> QED BY <2>4, <2>7
  <1>5. CASE o.kind = "clean"
    <2> DEFINE g == o.id
    <2>1. g \in DOMAIN plans /\ Op("clean", g) \in ops /\ o = Op("clean", g) BY <1>2, <1>5
    <2>2. mm' = CleanWrites(g, k) BY <1>5 DEF Writes
    <2>3. Inv' /\ CleanMoves(g, mm') /\ game[g] = "over" BY <1>5, <2>1, <2>2, CleanStep
    <2>4. FreesOnlyOver BY <2>3 DEF CleanMoves, FreesOnlyOver
    <2> QED BY <2>3, <2>4
  <1> QED BY <1>2, <1>3, <1>4, <1>5

\* A call in flight is answered, lost, stopped half-way, refused or given up.
LEMMA CallStep ==
  ASSUME Inv, NEW o \in ops, Call(o), UNCHANGED setting PROVE Inv' /\ FreesOnlyOver
  <1>0. PlanTypes /\ SlotTypes(mm) /\ OpTypes BY DEF Inv, Types
  <1>1. Steps(o) \in Nat \ {0}
    <2>1. CASE o.kind = "commit"
      <3>1. o.id \in DOMAIN plans BY <1>0, <2>1 DEF OpTypes
      <3>2. Len(plans[o.id]) \in Nat BY <1>0, <3>1, Parties
      <3>3. Steps(o) = 5 + 4 * Len(plans[o.id]) BY <2>1 DEF Steps, CommitSteps
      <3> QED BY <3>2, <3>3
    <2>2. CASE o.kind # "commit" BY <2>2 DEF Steps
    <2> QED BY <2>1, <2>2
  <1>2. CASE Run(o)
    BY <1>1, <1>2, ScriptStep DEF Run
  <1>3. CASE RunUnanswered(o)
    <2>1. ops' = ops \/ (ops' = ops \ {o} /\ o.kind # "clean") BY <1>3 DEF RunUnanswered, Kept
    <2>2. game' = game BY <1>3 DEF RunUnanswered
    <2> QED BY <1>1, <1>3, <2>1, <2>2, ScriptStep DEF RunUnanswered
  <1>4. CASE Tear(o)
    <2>1. PICK k \in 1..(Steps(o) - 1) : mm' = Writes(o, k) BY <1>4 DEF Tear
    <2>2. k \in Nat \ {0} BY <1>1, <2>1
    <2>3. ops' = ops \/ (ops' = ops \ {o} /\ o.kind # "clean") BY <1>4 DEF Tear, Kept
    <2>4. game' = game BY <1>4 DEF Tear
    <2> QED BY <1>4, <2>1, <2>2, <2>3, <2>4, ScriptStep DEF Tear
  <1>5. CASE Refused(o)
    <2>1. UNCHANGED <<gens, plans, bus, game, worker>> /\ ops' \subseteq ops BY <1>5 DEF Refused
    <2>2. OpTypes' BY <1>0, <2>1 DEF OpTypes
    <2>3. SlotTypes(mm') /\ SameMatches(mm')
      <3>1. CASE mm' = mm BY <1>0, <3>1 DEF SameMatches
      <3>2. CASE mm' = [mm EXCEPT !.index = @ \ {o.id}]
        <4>1. /\ DOMAIN mm' = Keys /\ mm'.index = mm.index \ {o.id}
              /\ mm'.meta = mm.meta /\ mm'.identity = mm.identity /\ mm'.lease = mm.lease
              /\ mm'.claim = mm.claim /\ mm'.lobbyGame = mm.lobbyGame /\ mm'.userGame = mm.userGame
              /\ mm'.active = mm.active /\ mm'.outbox = mm.outbox
          BY <1>0, <3>2 DEF SlotTypes, Keys
        <4> QED BY <1>0, <4>1 DEF SlotTypes, SameMatches
      <3> QED BY <1>5, <3>1, <3>2 DEF Refused
    <2>4. Inv' BY <2>1, <2>2, <2>3, QuietStep
    <2> QED BY <2>3, <2>4 DEF SameMatches, FreesOnlyOver
  <1>6. CASE GiveUp(o)
    <2>1. UNCHANGED <<mm, gens, plans, bus, game, worker>> /\ ops' \subseteq ops BY <1>6 DEF GiveUp
    <2>2. OpTypes' BY <1>0, <2>1 DEF OpTypes
    <2>3. SlotTypes(mm') /\ SameMatches(mm') BY <1>0, <2>1 DEF SameMatches
    <2>4. Inv' BY <2>1, <2>2, <2>3, QuietStep
    <2> QED BY <2>1, <2>4 DEF FreesOnlyOver
  <1> QED BY <1>2, <1>3, <1>4, <1>5, <1>6 DEF Call

\* A request to cancel or to reap what the keys or the index name.
LEMMA AskStep ==
  ASSUME Inv, UNCHANGED setting,
         (\E l \in Lobbies : AskCancel(l)) \/ (\E t \in Tokens : SampleStale(t))
  PROVE  Inv' /\ FreesOnlyOver
  <1>0. PlanTypes /\ SlotTypes(mm) /\ OpTypes BY DEF Inv, Types
  <1>1. PICK o : /\ Ask(o) /\ UNCHANGED <<gens, plans>>
                 /\ o = Op(o.kind, o.id) /\ o.kind \in {"cancel", "reap"} /\ o.id \in DOMAIN gens
    <2>1. ASSUME NEW l \in Lobbies, AskCancel(l)
          PROVE  Ask(Op("cancel", mm.identity[l])) /\ UNCHANGED <<gens, plans>> /\ mm.identity[l] \in DOMAIN gens
      <3>1. mm.identity[l] \in 0..Len(gens) /\ mm.identity[l] # 0 BY <1>0, <2>1 DEF SlotTypes, AskCancel
      <3> QED BY <1>0, <2>1, <3>1, Numbers DEF AskCancel
    <2>2. ASSUME NEW t \in Tokens, SampleStale(t)
          PROVE  Ask(Op("reap", t)) /\ UNCHANGED <<gens, plans>> /\ t \in DOMAIN gens
      BY <2>2 DEF SampleStale
    <2>3. \A id : /\ Op("cancel", id).kind = "cancel" /\ Op("cancel", id).id = id
                  /\ Op("reap", id).kind = "reap" /\ Op("reap", id).id = id
      BY DEF Op
    <2> QED BY <2>1, <2>2, <2>3
  <1>2. UNCHANGED <<mm, bus, game, worker>> /\ ops' = ops \cup {o} BY <1>1 DEF Ask
  <1>3. OpTypes' BY <1>0, <1>1, <1>2 DEF OpTypes
  <1>4. SlotTypes(mm') /\ SameMatches(mm') BY <1>0, <1>2 DEF SameMatches
  <1>5. Inv' BY <1>1, <1>2, <1>3, <1>4, QuietStep
  <1> QED BY <1>2, <1>5 DEF FreesOnlyOver

\* Metadata restored, a heartbeat, keys that expire, an assignment acknowledged.
LEMMA KeyStep ==
  ASSUME Inv, UNCHANGED setting,
         \/ \E l \in Lobbies : RestoreMetadata(l) \/ Heartbeat(l)
         \/ Lapse
         \/ \E u \in Users : AcknowledgeHandoff(u)
  PROVE  Inv' /\ FreesOnlyOver
  <1>0. PlanTypes /\ SlotTypes(mm) /\ OpTypes /\ DOMAIN mm = Keys /\ Len(gens) \in Nat
    BY Numbers DEF Inv, Types, SlotTypes
  <1>1. UNCHANGED <<gens, plans, ops, bus, game, worker>>
    BY DEF RestoreMetadata, Heartbeat, Lapse, AcknowledgeHandoff
  <1>2. SlotTypes(mm') /\ SameMatches(mm')
    <2>1. ASSUME NEW l \in Lobbies, NEW m \in {"none", "waiting"}, mm' = [mm EXCEPT !.meta[l] = m]
          PROVE  SlotTypes(mm') /\ SameMatches(mm')
      <3>1. /\ DOMAIN mm' = Keys /\ mm'.meta = [mm.meta EXCEPT ![l] = m]
            /\ mm'.index = mm.index /\ mm'.identity = mm.identity /\ mm'.lease = mm.lease
            /\ mm'.claim = mm.claim /\ mm'.lobbyGame = mm.lobbyGame /\ mm'.userGame = mm.userGame
            /\ mm'.active = mm.active /\ mm'.outbox = mm.outbox
        BY <1>0, <2>1 DEF Keys
      <3>2. mm'.meta \in [Lobbies -> {"none", "waiting", "queued", "matched"}] BY <1>0, <3>1 DEF SlotTypes
      <3> QED BY <1>0, <3>1, <3>2 DEF SlotTypes, SameMatches
    <2>2. ASSUME NEW l \in Lobbies, NEW t \in 0..Len(gens), mm' = [mm EXCEPT !.lease[l] = t]
          PROVE  SlotTypes(mm') /\ SameMatches(mm')
      <3>1. /\ DOMAIN mm' = Keys /\ mm'.lease = [mm.lease EXCEPT ![l] = t]
            /\ mm'.index = mm.index /\ mm'.identity = mm.identity /\ mm'.meta = mm.meta
            /\ mm'.claim = mm.claim /\ mm'.lobbyGame = mm.lobbyGame /\ mm'.userGame = mm.userGame
            /\ mm'.active = mm.active /\ mm'.outbox = mm.outbox
        BY <1>0, <2>2 DEF Keys
      <3>2. mm'.lease \in [Lobbies -> 0..Len(gens)] BY <1>0, <3>1 DEF SlotTypes
      <3> QED BY <1>0, <3>1, <3>2 DEF SlotTypes, SameMatches
    <2>3. ASSUME NEW l \in Lobbies, RestoreMetadata(l) PROVE SlotTypes(mm') /\ SameMatches(mm')
      BY <2>1, <2>3 DEF RestoreMetadata
    <2>4. ASSUME NEW l \in Lobbies, Heartbeat(l) PROVE SlotTypes(mm') /\ SameMatches(mm')
      <3>1. mm.identity[l] \in 0..Len(gens) BY <1>0 DEF SlotTypes
      <3>2. PICK t : t = mm.identity[l] OBVIOUS
      <3>3. mm' = [mm EXCEPT !.lease[l] = t, !.outcome[l] = [status |-> "admitted", token |-> t]]
        BY <2>4, <3>2 DEF Heartbeat
      <3>4. /\ DOMAIN mm' = Keys /\ mm'.lease = [mm.lease EXCEPT ![l] = t]
            /\ mm'.index = mm.index /\ mm'.identity = mm.identity /\ mm'.meta = mm.meta
            /\ mm'.claim = mm.claim /\ mm'.lobbyGame = mm.lobbyGame /\ mm'.userGame = mm.userGame
            /\ mm'.active = mm.active /\ mm'.outbox = mm.outbox
        BY <1>0, <3>3 DEF Keys
      <3>5. mm'.lease \in [Lobbies -> 0..Len(gens)] BY <1>0, <3>1, <3>2, <3>4 DEF SlotTypes
      <3> QED BY <1>0, <3>4, <3>5 DEF SlotTypes, SameMatches
    <2>5. ASSUME Lapse PROVE SlotTypes(mm') /\ SameMatches(mm')
      <3>1. PICK l \in Lobbies : mm' = [mm EXCEPT !.lease[l] = 0] \/ mm' = [mm EXCEPT !.meta[l] = "none"]
        BY <2>5 DEF Lapse
      <3> QED BY <1>0, <2>1, <2>2, <3>1
    <2>6. ASSUME NEW u \in Users, AcknowledgeHandoff(u) PROVE SlotTypes(mm') /\ SameMatches(mm')
      <3>1. /\ DOMAIN mm' = Keys /\ mm'.lease = mm.lease
            /\ mm'.index = mm.index /\ mm'.identity = mm.identity /\ mm'.meta = mm.meta
            /\ mm'.claim = mm.claim /\ mm'.lobbyGame = mm.lobbyGame /\ mm'.userGame = mm.userGame
            /\ mm'.active = mm.active /\ mm'.outbox = mm.outbox
        BY <1>0, <2>6 DEF Keys, AcknowledgeHandoff
      <3> QED BY <1>0, <3>1 DEF SlotTypes, SameMatches
    <2> QED BY <2>3, <2>4, <2>5, <2>6
  <1>3. OpTypes' BY <1>0, <1>1 DEF OpTypes
  <1>4. Inv' BY <1>1, <1>2, <1>3, QuietStep
  <1> QED BY <1>2, <1>4 DEF SameMatches, FreesOnlyOver

\* A request to queue: one more generation, in no match.
LEMMA AskAdmitStep ==
  ASSUME Inv, UNCHANGED setting, NEW r \in setting.rosters, AskAdmit(r)
  PROVE  Inv' /\ FreesOnlyOver
  <1>0. PlanTypes /\ SlotTypes(mm) /\ OpTypes /\ GameTypes BY DEF Inv, Types
  <1>1. /\ UNCHANGED <<mm, plans, bus, game, worker>> /\ gens' = Append(gens, r)
        /\ ops' = ops \cup {Op("admit", Len(gens) + 1)} /\ Len(gens) < setting.tokens
    BY DEF AskAdmit, Ask
  <1>2. /\ Len(gens) \in Nat /\ DOMAIN gens = 1..Len(gens) /\ MaxToken \in Nat
        /\ DOMAIN plans = 1..Len(plans) /\ Len(plans) \in Nat
    BY <1>0, Numbers
  <1>3. /\ gens' \in Seq(setting.rosters) /\ Len(gens') = Len(gens) + 1
        /\ DOMAIN gens' = 1..(Len(gens) + 1) /\ \A t \in DOMAIN gens : gens'[t] = gens[t]
    BY <1>0, <1>1, <1>2 DEF PlanTypes
  <1>4. PlanTypes'
    <2>1. setting.tokens \in 0..MaxToken BY <1>0, MatchAssumption DEF PlanTypes
    <2>2. Len(gens') <= MaxToken BY <1>1, <1>2, <1>3, <2>1
    <2> QED BY <1>0, <1>1, <1>2, <1>3, <2>2 DEF PlanTypes, Tokens
  <1>5. SlotTypes(mm)' BY <1>0, <1>1, <1>2, <1>3 DEF SlotTypes
  <1>6. \A id : Op("admit", id).kind = "admit" /\ Op("admit", id).id = id BY DEF Op
  <1>7. OpTypes' BY <1>0, <1>1, <1>2, <1>3, <1>6 DEF OpTypes
  <1>8. GameTypes' BY <1>0, <1>1 DEF GameTypes, Games
  <1>9. \A g : /\ Op("clean", g) \in ops' => Op("clean", g) \in ops
               /\ Op("commit", g) \in ops' => Op("commit", g) \in ops
    BY <1>1 DEF Op
  <1>10. Records'
    <2>1. \A g \in DOMAIN plans : GameLobbies(g)' = GameLobbies(g) /\ GameUsers(g)' = GameUsers(g)
      BY <1>0, <1>1, <1>3, PartiesKept
    <2>2. \A g \in DOMAIN plans : Owned(g) => Owned(g)' BY <1>1, <2>1 DEF Owned
    <2> QED BY <1>1, <1>9, <2>2 DEF Inv, Records
  <1>11. Delivery' BY <1>1, <1>9 DEF Inv, Delivery
  <1>12. Deliverers' BY <1>1 DEF Inv, Deliverers
  <1> QED BY <1>1, <1>4, <1>5, <1>7, <1>8, <1>10, <1>11, <1>12 DEF Inv, Types, FreesOnlyOver

\* A match is planned: one more game, neither written nor created.
LEMMA SampleMatchStep ==
  ASSUME Inv, UNCHANGED setting, SampleMatch
  PROVE  Inv' /\ FreesOnlyOver
  <1>0. PlanTypes /\ SlotTypes(mm) /\ OpTypes /\ GameTypes BY DEF Inv, Types
  <1>1. /\ UNCHANGED <<mm, gens, bus, game, worker>> /\ Len(plans) < setting.games
        /\ ops' = ops \cup {Op("commit", Len(plans) + 1)}
    BY DEF SampleMatch, Ask
  <1>2. /\ Len(gens) \in Nat /\ DOMAIN gens = 1..Len(gens) /\ DOMAIN gens \subseteq Tokens
        /\ DOMAIN plans = 1..Len(plans) /\ Len(plans) \in Nat /\ MaxGame \in Nat
    BY <1>0, Numbers
  <1>3. PICK p \in UNION {[1..n -> DOMAIN gens] : n \in 1..2} : plans' = Append(plans, p)
    BY DEF SampleMatch
  <1>4. p \in Seq(Tokens) /\ \A i \in DOMAIN p : p[i] \in DOMAIN gens
    <2>1. PICK n \in 1..2 : p \in [1..n -> DOMAIN gens] BY <1>3
    <2>2. n \in Nat /\ p \in [1..n -> Tokens] BY <1>2, <2>1
    <2> QED BY <2>1, <2>2
  <1>5. /\ plans' \in Seq(Seq(Tokens)) /\ Len(plans') = Len(plans) + 1
        /\ DOMAIN plans' = 1..(Len(plans) + 1) /\ plans'[Len(plans) + 1] = p
        /\ \A g \in DOMAIN plans : plans'[g] = plans[g]
    BY <1>0, <1>2, <1>3, <1>4 DEF PlanTypes
  <1>6. PICK h : h = Len(plans) + 1 OBVIOUS
  <1>7. /\ h \in Games /\ h \notin DOMAIN plans /\ DOMAIN plans' = DOMAIN plans \cup {h}
        /\ Len(plans') <= MaxGame
    <2>1. setting.games \in 0..MaxGame BY <1>0, MatchAssumption DEF PlanTypes
    <2> QED BY <1>1, <1>2, <1>5, <1>6, <2>1 DEF Games
  <1>8. PlanTypes'
    <2>1. \A g \in DOMAIN plans' : \A i \in DOMAIN plans'[g] : plans'[g][i] \in DOMAIN gens
      BY <1>0, <1>4, <1>5, <1>6, <1>7 DEF PlanTypes
    <2> QED BY <1>0, <1>1, <1>5, <1>7, <2>1 DEF PlanTypes, Tokens
  <1>9. SlotTypes(mm)' BY <1>0, <1>1, <1>2, <1>5 DEF SlotTypes
  <1>10. \A id : Op("commit", id).kind = "commit" /\ Op("commit", id).id = id BY DEF Op
  <1>11. OpTypes' BY <1>0, <1>1, <1>6, <1>7, <1>10 DEF OpTypes
  <1>12. GameTypes' BY <1>0, <1>1 DEF GameTypes, Games
  <1>13. \A g : /\ Op("clean", g) \in ops' => Op("clean", g) \in ops
                /\ Op("commit", g) \in ops' => Op("commit", g) \in ops \/ g = h
    BY <1>1, <1>6 DEF Op
  <1>14. /\ h \notin mm.active /\ h \notin mm.outbox /\ Op("clean", h) \notin ops
         /\ game[h] = "none" /\ bus.created[h] = 0
    <2>1. h \notin mm.active /\ h \notin mm.outbox BY <1>0, <1>7 DEF SlotTypes
    <2>2. \A id : Op("clean", id).kind = "clean" /\ Op("clean", id).id = id BY DEF Op
    <2>3. Op("clean", h) \notin ops BY <1>0, <1>7, <2>2 DEF OpTypes
    <2>4. bus.created[h] = 0 /\ game[h] = "none" BY <1>7 DEF Inv, Delivery
    <2> QED BY <2>1, <2>3, <2>4
  <1>15. Records'
    <2>1. \A g \in DOMAIN plans : GameLobbies(g)' = GameLobbies(g) /\ GameUsers(g)' = GameUsers(g)
      BY <1>0, <1>1, <1>5, PartiesKept
    <2>2. \A g \in DOMAIN plans : Owned(g) => Owned(g)' BY <1>1, <2>1 DEF Owned
    <2> QED BY <1>1, <1>7, <1>13, <1>14, <2>2 DEF Inv, Records
  <1>16. Delivery' BY <1>1, <1>7, <1>13, <1>14 DEF Inv, Delivery
  <1>17. Deliverers' BY <1>1, <1>7 DEF Inv, Deliverers
  <1> QED BY <1>1, <1>8, <1>9, <1>11, <1>12, <1>15, <1>16, <1>17 DEF Inv, Types, FreesOnlyOver

-----------------------------------------------------------------------------
(* The outbox and the game.                                                *)

\* A worker reads an outbox record, gives up, or is done with it.
LEMMA WorkerMoves ==
  ASSUME Inv, UNCHANGED setting, NEW w \in Workers,
         ScanOutbox(w) \/ WorkerFails(w)
  PROVE  Inv' /\ FreesOnlyOver
  <1>0. PlanTypes /\ SlotTypes(mm) /\ OpTypes /\ GameTypes BY DEF Inv, Types
  <1>1. UNCHANGED <<mm, gens, plans, ops, bus, game>> BY DEF ScanOutbox, WorkerFails
  <1>2. DOMAIN plans \subseteq Games /\ 0 \notin DOMAIN plans /\ 0 \notin Games /\ DOMAIN plans \subseteq Nat
    BY <1>0, Numbers DEF Games
  <1>3. PICK a \in [at : {"idle", "publish", "ack", "expire"}, game : Nat] :
           /\ worker' = [worker EXCEPT ![w] = a]
           /\ \/ a.at = "idle" /\ a.game = 0
              \/ a.at = "publish" /\ a.game \in mm.outbox
    <2>1. CASE WorkerFails(w)
      <3>1. PICK a : a = [at |-> "idle", game |-> 0] OBVIOUS
      <3>2. a \in [at : {"idle", "publish", "ack", "expire"}, game : Nat] /\ a.at = "idle" /\ a.game = 0
        BY <3>1
      <3>3. worker' = [worker EXCEPT ![w] = a] BY <2>1, <3>1 DEF WorkerFails
      <3> QED BY <3>2, <3>3
    <2>2. CASE ScanOutbox(w)
      <3>1. PICK g \in mm.outbox : worker' = [worker EXCEPT ![w] = [at |-> "publish", game |-> g]]
        BY <2>2 DEF ScanOutbox
      <3>2. g \in Nat BY <1>0, <1>2 DEF SlotTypes
      <3>3. PICK a : a = [at |-> "publish", game |-> g] OBVIOUS
      <3>4. /\ a \in [at : {"idle", "publish", "ack", "expire"}, game : Nat]
            /\ a.at = "publish" /\ a.game = g
        BY <3>2, <3>3
      <3> QED BY <3>1, <3>3, <3>4
    <2> QED BY <2>1, <2>2
  <1>4. /\ worker' \in [Workers -> [at : {"idle", "publish", "ack", "expire"}, game : Nat]]
        /\ worker'[w] = a /\ \A v \in Workers \ {w} : worker'[v] = worker[v]
    BY <1>0, <1>3 DEF GameTypes
  <1>5. Types' BY <1>0, <1>1, <1>4 DEF Types, PlanTypes, SlotTypes, OpTypes, GameTypes, Games, Tokens
  <1>6. Records' BY <1>1 DEF Inv, Records, Owned, GameLobbies, GameUsers, LobbyOf, UsersOf
  <1>7. Delivery'
    <2>1. \A g \in Games : \A v \in Workers : worker'[v].game = g => worker[v].game = g \/ g \in mm.outbox
      BY <1>2, <1>3, <1>4
    <2> QED BY <1>1, <2>1 DEF Inv, Delivery
  <1>8. Deliverers'
    <2> SUFFICES ASSUME NEW v \in Workers
                 PROVE  LET g == worker'[v].game IN
                          /\ worker'[v].at = "idle" => g = 0
                          /\ worker'[v].at # "idle" => g \in DOMAIN plans
                          /\ worker'[v].at \in {"ack", "expire"} => bus.created[g] = 1
                          /\ worker'[v].at = "publish" /\ game[g] = "none" => g \in mm.active
      BY <1>1 DEF Deliverers
    <2>1. CASE v = w
      <3>1. mm.outbox \subseteq DOMAIN plans BY <1>0 DEF SlotTypes
      <3>2. a.at = "publish" /\ game[a.game] = "none" => a.game \in mm.active
        BY <1>3, <3>1 DEF Inv, Records
      <3> QED BY <1>3, <1>4, <2>1, <3>1, <3>2
    <2>2. CASE v # w BY <1>4, <2>2 DEF Inv, Deliverers
    <2> QED BY <2>1, <2>2
  <1> QED BY <1>1, <1>5, <1>6, <1>7, <1>8 DEF Inv, FreesOnlyOver

\* publish_game_created_once enters a game once: without a marker there is no
\* entry yet, because a worker still has the game.
LEMMA PublishStep ==
  ASSUME Inv, UNCHANGED setting, NEW w \in Workers, PublishOnce(w)
  PROVE  Inv' /\ FreesOnlyOver
  <1>0. PlanTypes /\ SlotTypes(mm) /\ OpTypes /\ GameTypes BY DEF Inv, Types
  <1>1. PICK g : g = worker[w].game OBVIOUS
  <1>2. /\ UNCHANGED <<mm, gens, plans, ops>> /\ worker[w].at = "publish"
        /\ bus' = IF bus.marker[g] = "none" THEN Entered(g) ELSE bus
        /\ game' = [game EXCEPT ![g] = IF @ = "none" THEN "live" ELSE @]
        /\ worker' = [worker EXCEPT ![w].at = "ack"]
    BY <1>1 DEF PublishOnce
  <1>3. g \in DOMAIN plans /\ g \in Games /\ g # 0 BY <1>0, <1>1, <1>2, Numbers DEF Inv, Deliverers
  <1>4. bus.marker[g] = "none" => bus.created[g] = 0
    <2>1. bus.created[g] \in {0, 1} BY <1>0, <1>3 DEF GameTypes
    <2> QED BY <1>1, <1>3, <2>1 DEF Inv, Delivery
  <1>5. /\ DOMAIN bus' = {"created", "marker"}
        /\ bus'.created \in [Games -> {0, 1}] /\ bus'.marker \in [Games -> Marks]
        /\ bus'.created[g] = 1 /\ bus'.marker[g] # "none"
        /\ \A h \in Games \ {g} : bus'.created[h] = bus.created[h] /\ bus'.marker[h] = bus.marker[h]
    <2>1. CASE bus.marker[g] = "none"
      <3>1. bus' = [bus EXCEPT !.created[g] = @ + 1, !.marker[g] = "kept"] BY <1>2, <2>1 DEF Entered
      <3>2. /\ DOMAIN bus' = {"created", "marker"}
            /\ bus'.created = [bus.created EXCEPT ![g] = @ + 1]
            /\ bus'.marker = [bus.marker EXCEPT ![g] = "kept"]
        BY <1>0, <3>1 DEF GameTypes
      <3> QED BY <1>0, <1>3, <1>4, <2>1, <3>2 DEF GameTypes, Marks
    <2>2. CASE bus.marker[g] # "none"
      <3>1. bus.created[g] = 1 BY <1>3, <2>2 DEF Inv, Delivery
      <3> QED BY <1>0, <1>2, <2>2, <3>1 DEF GameTypes
    <2> QED BY <2>1, <2>2
  <1>6. /\ game' \in [Games -> Stages] /\ game'[g] # "none"
        /\ game[g] = "none" => game'[g] = "live"
        /\ game[g] # "none" => game'[g] = game[g]
        /\ \A h \in Games \ {g} : game'[h] = game[h]
    BY <1>0, <1>2, <1>3 DEF GameTypes, Stages
  <1>7. /\ worker' \in [Workers -> [at : {"idle", "publish", "ack", "expire"}, game : Nat]]
        /\ worker'[w].at = "ack" /\ worker'[w].game = g
        /\ \A v \in Workers \ {w} : worker'[v] = worker[v]
    BY <1>0, <1>1, <1>2 DEF GameTypes
  <1>8. Types' BY <1>0, <1>2, <1>5, <1>6, <1>7 DEF Types, PlanTypes, SlotTypes, OpTypes, GameTypes, Games, Tokens
  <1>9. g \in mm.active \/ game[g] # "none" BY <1>1, <1>2 DEF Inv, Deliverers
  <1>10. DOMAIN plans \subseteq Games BY <1>0, Numbers
  <1>11. Records'
    <2>1. \A h \in DOMAIN plans : Owned(h) => Owned(h)'
      BY <1>2 DEF Owned, GameLobbies, GameUsers, LobbyOf, UsersOf
    <2>2. \A h \in DOMAIN plans :
            /\ h \in mm.active /\ game'[h] \in {"none", "live"} => Owned(h)
            /\ game'[h] = "live" \/ (h \in mm.outbox /\ game'[h] = "none") => h \in mm.active
            /\ Op("clean", h) \in ops => game'[h] = "over"
      <3> TAKE h \in DOMAIN plans
      <3>1. CASE h = g
        BY <1>6, <1>9, <3>1 DEF Inv, Records
      <3>2. CASE h # g
        <4>1. game'[h] = game[h] BY <1>6, <1>10, <3>2
        <4> QED BY <4>1 DEF Inv, Records
      <3> QED BY <3>1, <3>2
    <2> QED BY <1>2, <2>1, <2>2 DEF Records
  <1>12. Delivery'
    <2>1. \A v \in Workers : worker'[v].game = worker[v].game BY <1>1, <1>7
    <2> QED BY <1>2, <1>3, <1>5, <1>6, <2>1 DEF Inv, Delivery
  <1>13. Deliverers'
    <2> SUFFICES ASSUME NEW v \in Workers
                 PROVE  LET h == worker'[v].game IN
                          /\ worker'[v].at = "idle" => h = 0
                          /\ worker'[v].at # "idle" => h \in DOMAIN plans
                          /\ worker'[v].at \in {"ack", "expire"} => bus'.created[h] = 1
                          /\ worker'[v].at = "publish" /\ game'[h] = "none" => h \in mm.active
      BY <1>2 DEF Deliverers
    <2>1. CASE v = w BY <1>3, <1>5, <1>7, <2>1
    <2>2. CASE v # w
      <3>1. worker'[v] = worker[v] BY <1>7, <2>2
      <3>2. \A h \in DOMAIN plans : /\ bus.created[h] = 1 => bus'.created[h] = 1
                                    /\ game'[h] = "none" => game[h] = "none"
        BY <1>5, <1>6, <1>10
      <3> QED BY <3>1, <3>2 DEF Inv, Deliverers
    <2> QED BY <2>1, <2>2
  <1> QED BY <1>2, <1>8, <1>11, <1>12, <1>13 DEF Inv, FreesOnlyOver

\* The outbox record is deleted only once the entry is there.
LEMMA AcknowledgeStep ==
  ASSUME Inv, UNCHANGED setting, NEW w \in Workers, AcknowledgeOutbox(w)
  PROVE  Inv' /\ FreesOnlyOver
  <1>0. PlanTypes /\ SlotTypes(mm) /\ OpTypes /\ GameTypes BY DEF Inv, Types
  <1>1. /\ UNCHANGED <<gens, plans, ops, bus, game>> /\ worker[w].at = "ack"
        /\ mm' = [mm EXCEPT !.outbox = @ \ {worker[w].game}]
        /\ worker' = [worker EXCEPT ![w].at = "expire"]
    BY DEF AcknowledgeOutbox
  <1>2. /\ DOMAIN mm' = Keys /\ mm'.lease = mm.lease
        /\ mm'.index = mm.index /\ mm'.identity = mm.identity /\ mm'.meta = mm.meta
        /\ mm'.claim = mm.claim /\ mm'.lobbyGame = mm.lobbyGame /\ mm'.userGame = mm.userGame
        /\ mm'.active = mm.active /\ mm'.outbox \subseteq mm.outbox
    BY <1>0, <1>1 DEF Keys, SlotTypes
  <1>3. /\ worker' \in [Workers -> [at : {"idle", "publish", "ack", "expire"}, game : Nat]]
        /\ worker'[w].at = "expire" /\ worker'[w].game = worker[w].game
        /\ \A v \in Workers \ {w} : worker'[v] = worker[v]
    BY <1>0, <1>1 DEF GameTypes
  <1>4. Types'
    <2>1. SlotTypes(mm)' BY <1>0, <1>1, <1>2 DEF SlotTypes
    <2>2. PlanTypes' /\ OpTypes' /\ GameTypes'
      BY <1>0, <1>1, <1>3 DEF PlanTypes, OpTypes, GameTypes, Games, Tokens
    <2> QED BY <2>1, <2>2 DEF Types
  <1>5. Records'
    <2>1. \A h \in DOMAIN plans : Owned(h) => Owned(h)'
      BY <1>1, <1>2 DEF Owned, GameLobbies, GameUsers, LobbyOf, UsersOf
    <2> QED BY <1>1, <1>2, <2>1 DEF Inv, Records
  <1>6. Delivery'
    <2>1. \A v \in Workers : worker'[v].game = worker[v].game BY <1>3
    <2> QED BY <1>1, <1>2, <2>1 DEF Inv, Delivery
  <1>7. Deliverers' BY <1>1, <1>2, <1>3 DEF Inv, Deliverers
  <1> QED BY <1>2, <1>4, <1>5, <1>6, <1>7 DEF Inv, FreesOnlyOver

\* The marker gets its retention, or ends after everybody forgot the game.
LEMMA MarkerStep ==
  ASSUME Inv, UNCHANGED setting,
         (\E w \in Workers : ExpireMarker(w)) \/ (\E g \in Games : MarkerExpires(g))
  PROVE  Inv' /\ FreesOnlyOver
  <1>0. PlanTypes /\ SlotTypes(mm) /\ OpTypes /\ GameTypes BY DEF Inv, Types
  <1>1. UNCHANGED <<mm, gens, plans, ops, game>> BY DEF ExpireMarker, MarkerExpires
  <1>2. DOMAIN plans \subseteq Games /\ 0 \notin Games BY <1>0, Numbers DEF Games
  <1>3. PICK g \in Games, m \in {"expiring", "none"} :
           /\ bus' = [bus EXCEPT !.marker[g] = m] /\ bus.created[g] = 1
           /\ m = "none" => /\ \A v \in Workers : worker[v].game # g
                            /\ Op("commit", g) \notin ops /\ g \notin mm.outbox
    <2>1. ASSUME NEW w \in Workers, ExpireMarker(w)
          PROVE  LET g == worker[w].game IN
                   /\ bus' = [bus EXCEPT !.marker[g] = "expiring"] /\ bus.created[g] = 1 /\ g \in Games
      BY <1>2, <2>1 DEF ExpireMarker, Inv, Deliverers
    <2>2. ASSUME NEW g \in Games, MarkerExpires(g)
          PROVE  /\ bus' = [bus EXCEPT !.marker[g] = "none"] /\ bus.created[g] = 1
                 /\ \A v \in Workers : worker[v].game # g
                 /\ Op("commit", g) \notin ops /\ g \notin mm.outbox
      BY <2>2 DEF MarkerExpires, Inv, Delivery
    <2> QED BY <2>1, <2>2
  <1>4. /\ DOMAIN bus' = {"created", "marker"} /\ bus'.created = bus.created
        /\ bus'.marker = [bus.marker EXCEPT ![g] = m]
    BY <1>0, <1>3 DEF GameTypes
  <1>5. /\ bus'.marker \in [Games -> Marks] /\ bus'.marker[g] = m
        /\ \A h \in Games \ {g} : bus'.marker[h] = bus.marker[h]
    BY <1>0, <1>3, <1>4 DEF GameTypes, Marks
  <1>6. /\ worker' \in [Workers -> [at : {"idle", "publish", "ack", "expire"}, game : Nat]]
        /\ \A v \in Workers : worker'[v] = worker[v] \/ (worker'[v].at = "idle" /\ worker'[v].game = 0)
    <2>1. ASSUME NEW w \in Workers, ExpireMarker(w)
          PROVE  worker' = [worker EXCEPT ![w] = [at |-> "idle", game |-> 0]]
      BY <2>1 DEF ExpireMarker
    <2>2. ASSUME NEW h \in Games, MarkerExpires(h) PROVE worker' = worker
      BY <2>2 DEF MarkerExpires
    <2> QED BY <1>0, <2>1, <2>2 DEF GameTypes
  <1>7. Types'
    <2>1. GameTypes' BY <1>0, <1>1, <1>4, <1>5, <1>6 DEF GameTypes, Games
    <2>2. PlanTypes' /\ OpTypes' /\ SlotTypes(mm)'
      BY <1>0, <1>1 DEF PlanTypes, OpTypes, SlotTypes, Tokens
    <2> QED BY <2>1, <2>2 DEF Types
  <1>8. Records' BY <1>1 DEF Inv, Records, Owned, GameLobbies, GameUsers, LobbyOf, UsersOf
  <1>9. Delivery'
    <2> SUFFICES ASSUME NEW h \in Games
                 PROVE  /\ game[h] # "none" \/ bus'.marker[h] # "none" => bus.created[h] = 1
                        /\ h \notin DOMAIN plans => bus.created[h] = 0
                        /\ bus'.marker[h] = "none" /\ bus.created[h] = 1 =>
                             /\ \A v \in Workers : worker'[v].game # h
                             /\ Op("commit", h) \notin ops /\ h \notin mm.outbox
      BY <1>1, <1>4 DEF Delivery
    <2>1. \A v \in Workers : worker[v].game # h => worker'[v].game # h BY <1>2, <1>6
    <2>2. CASE h = g BY <1>3, <1>5, <2>1, <2>2 DEF Inv, Delivery
    <2>3. CASE h # g
      <3>1. bus'.marker[h] = bus.marker[h] BY <1>5, <2>3
      <3> QED BY <2>1, <3>1 DEF Inv, Delivery
    <2> QED BY <2>2, <2>3
  <1>10. Deliverers' BY <1>1, <1>4, <1>6 DEF Inv, Deliverers
  <1> QED BY <1>1, <1>7, <1>8, <1>9, <1>10 DEF Inv, FreesOnlyOver

\* The game ends, and its cleanup is asked for.
LEMMA FinishStep ==
  ASSUME Inv, UNCHANGED setting, NEW g \in Games, Finish(g)
  PROVE  Inv' /\ FreesOnlyOver
  <1>0. PlanTypes /\ SlotTypes(mm) /\ OpTypes /\ GameTypes BY DEF Inv, Types
  <1>1. /\ UNCHANGED <<mm, gens, plans, bus, worker>> /\ game[g] = "live"
        /\ game' = [game EXCEPT ![g] = "over"] /\ ops' = ops \cup {Op("clean", g)}
    BY DEF Finish
  <1>2. g \in DOMAIN plans BY <1>1 DEF Inv, Delivery
  <1>3. /\ game' \in [Games -> Stages] /\ game'[g] = "over"
        /\ \A h \in Games \ {g} : game'[h] = game[h]
    BY <1>0, <1>1 DEF GameTypes, Stages
  <1>4. Op("clean", g).kind = "clean" /\ Op("clean", g).id = g BY DEF Op
  <1>5. \A h : /\ Op("clean", h) \in ops' => Op("clean", h) \in ops \/ h = g
               /\ Op("commit", h) \in ops' => Op("commit", h) \in ops
    BY <1>1 DEF Op
  <1>6. Types'
    <2>1. OpTypes' BY <1>0, <1>1, <1>2, <1>4 DEF OpTypes
    <2>2. PlanTypes' /\ GameTypes' /\ SlotTypes(mm)'
      BY <1>0, <1>1, <1>3 DEF PlanTypes, GameTypes, SlotTypes, Tokens, Games
    <2> QED BY <2>1, <2>2 DEF Types
  <1>7. DOMAIN plans \subseteq Games BY <1>0, Numbers
  <1>8. Records'
    <2>1. \A h \in DOMAIN plans : Owned(h) => Owned(h)'
      BY <1>1 DEF Owned, GameLobbies, GameUsers, LobbyOf, UsersOf
    <2>2. \A h \in DOMAIN plans :
            /\ h \in mm.active /\ game'[h] \in {"none", "live"} => Owned(h)
            /\ game'[h] = "live" \/ (h \in mm.outbox /\ game'[h] = "none") => h \in mm.active
            /\ Op("clean", h) \in ops' => game'[h] = "over"
      <3> TAKE h \in DOMAIN plans
      <3>1. CASE h = g BY <1>3, <3>1
      <3>2. CASE h # g
        <4>1. game'[h] = game[h] BY <1>3, <1>7, <3>2
        <4> QED BY <1>5, <3>2, <4>1 DEF Inv, Records
      <3> QED BY <3>1, <3>2
    <2> QED BY <1>1, <2>1, <2>2 DEF Records
  <1>9. Delivery'
    <2>1. \A h \in Games : game'[h] # "none" => game[h] # "none" BY <1>1, <1>3
    <2> QED BY <1>1, <1>5, <2>1 DEF Inv, Delivery
  <1>10. Deliverers'
    <2>1. \A h \in DOMAIN plans : game'[h] = "none" => game[h] = "none" BY <1>3, <1>7
    <2> QED BY <1>1, <2>1 DEF Inv, Deliverers
  <1> QED BY <1>1, <1>6, <1>8, <1>9, <1>10 DEF Inv, FreesOnlyOver

-----------------------------------------------------------------------------
(* The theorems.                                                           *)

\* Nothing is queued, matched or created at first.
LEMMA InitInv == ASSUME Init PROVE Inv
  <1>1. /\ setting \in Settings /\ gens = <<>> /\ plans = <<>> /\ ops = {}
        /\ bus = [created |-> [g \in Games |-> 0], marker |-> [g \in Games |-> "none"]]
        /\ game = [g \in Games |-> "none"]
        /\ worker = [w \in Workers |-> [at |-> "idle", game |-> 0]]
    BY DEF Init
  <1>2. /\ gens \in Seq(setting.rosters) /\ Len(gens) = 0 /\ DOMAIN gens = {}
        /\ plans \in Seq(Seq(Tokens)) /\ Len(plans) = 0 /\ DOMAIN plans = {}
    BY <1>1
  <1>3. PlanTypes BY <1>1, <1>2, MatchAssumption DEF PlanTypes
  <1>4. /\ DOMAIN mm = Keys /\ mm.meta = [l \in Lobbies |-> "waiting"]
        /\ mm.identity = [l \in Lobbies |-> 0] /\ mm.lease = [l \in Lobbies |-> 0]
        /\ mm.claim = [u \in Users |-> 0] /\ mm.index = {}
        /\ mm.lobbyGame = [l \in Lobbies |-> 0] /\ mm.userGame = [u \in Users |-> 0]
        /\ mm.active = {} /\ mm.outbox = {}
    BY DEF Init, Keys
  <1>5. SlotTypes(mm) BY <1>2, <1>4 DEF SlotTypes
  <1>6. OpTypes BY <1>1 DEF OpTypes
  <1>7. GameTypes BY <1>1 DEF GameTypes, Stages, Marks
  <1>8. Records BY <1>2 DEF Records
  <1>9. 0 \notin Games BY DEF Games
  <1>10. Delivery BY <1>1, <1>4, <1>9 DEF Delivery
  <1>11. Deliverers BY <1>1 DEF Deliverers
  <1> QED BY <1>3, <1>5, <1>6, <1>7, <1>8, <1>10, <1>11 DEF Inv, Types

\* Every step keeps the invariant, and frees only what a finished game had.
LEMMA StepInv == ASSUME Inv, [Next]_<<vars, setting>> PROVE Inv' /\ [FreesOnlyOver]_vars
  <1>1. CASE UNCHANGED <<vars, setting>>
    <2>1. UNCHANGED <<mm, gens, plans, ops, bus, game, worker, setting>> BY <1>1 DEF vars
    <2>2. Types' BY <2>1 DEF Inv, Types, PlanTypes, SlotTypes, OpTypes, GameTypes, Tokens, Games
    <2>3. Records' BY <2>1 DEF Inv, Records, Owned, GameLobbies, GameUsers, LobbyOf, UsersOf
    <2>4. Delivery' /\ Deliverers' BY <2>1 DEF Inv, Delivery, Deliverers
    <2> QED BY <1>1, <2>2, <2>3, <2>4 DEF Inv
  <1>2. CASE Next
    <2>0. UNCHANGED setting BY <1>2 DEF Next
    <2>1. ASSUME NEW o \in ops, Call(o) PROVE Inv' /\ FreesOnlyOver BY <2>0, <2>1, CallStep
    <2>2. ASSUME NEW r \in setting.rosters, AskAdmit(r) PROVE Inv' /\ FreesOnlyOver
      BY <2>0, <2>2, AskAdmitStep
    <2>3. ASSUME (\E l \in Lobbies : AskCancel(l)) \/ (\E t \in Tokens : SampleStale(t))
          PROVE Inv' /\ FreesOnlyOver
      BY <2>0, <2>3, AskStep
    <2>4. ASSUME \/ \E l \in Lobbies : RestoreMetadata(l) \/ Heartbeat(l)
                 \/ Lapse
                 \/ \E u \in Users : AcknowledgeHandoff(u)
          PROVE Inv' /\ FreesOnlyOver
      BY <2>0, <2>4, KeyStep
    <2>5. ASSUME SampleMatch PROVE Inv' /\ FreesOnlyOver BY <2>0, <2>5, SampleMatchStep
    <2>6. ASSUME NEW w \in Workers,
                 ScanOutbox(w) \/ PublishOnce(w) \/ AcknowledgeOutbox(w) \/ ExpireMarker(w) \/ WorkerFails(w)
          PROVE Inv' /\ FreesOnlyOver
      BY <2>0, <2>6, WorkerMoves, PublishStep, AcknowledgeStep, MarkerStep
    <2>7. ASSUME NEW g \in Games, MarkerExpires(g) \/ Finish(g) PROVE Inv' /\ FreesOnlyOver
      BY <2>0, <2>7, MarkerStep, FinishStep
    <2> QED BY <1>2, <2>1, <2>2, <2>3, <2>4, <2>5, <2>6, <2>7 DEF Next
  <1> QED BY <1>1, <1>2

\* The inductive invariant holds in every behaviour.
THEOREM MatchInvariant == Spec => []Inv
  <1>1. Init => Inv BY InitInv
  <1>2. Inv /\ [Next]_<<vars, setting>> => Inv' BY StepInv
  <1> QED BY <1>1, <1>2, PTL DEF Spec

\* Concurrent matchmakers, retries and repairs never commit a lobby or a user to
\* two matches that are not over, and GameCreated enters a game's command stream
\* at most once (COMMIT_MATCH_SCRIPT, publish_game_created_once).
THEOREM NobodyMatchedTwice == Spec => []MatchedOnce
  <1>1. ASSUME Inv PROVE MatchedOnce
    <2>0. PlanTypes /\ SlotTypes(mm) /\ GameTypes /\ DOMAIN plans \subseteq Games
      BY <1>1, Numbers DEF Inv, Types
    <2>1. TypeOK
      <3>1. \A g \in DOMAIN plans : game[g] # "none" => bus.created[g] > 0
        BY <1>1, <2>0 DEF Inv, Delivery
      <3> QED BY <2>0, <3>1 DEF TypeOK, SlotTypes
    <2>2. OneMatchEach
      <3> SUFFICES ASSUME NEW g \in Games, NEW h \in Games, g # h, Committed(g), Committed(h),
                          {game[g], game[h]} \subseteq {"none", "live"}
                   PROVE  /\ GameLobbies(g) \cap GameLobbies(h) = {}
                          /\ GameUsers(g) \cap GameUsers(h) = {}
        BY DEF OneMatchEach
      <3>1. Owned(g) /\ Owned(h) BY <1>1 DEF Inv, Records, Committed
      <3> QED BY <3>1 DEF Owned
    <2>3. CreatedOnce
      <3>1. \A g \in Games : bus.created[g] \in {0, 1} BY <2>0 DEF GameTypes
      <3> QED BY <3>1 DEF CreatedOnce
    <2> QED BY <2>1, <2>2, <2>3 DEF MatchedOnce
  <1> QED BY <1>1, MatchInvariant, PTL

\* A cleanup, whole or torn, early or repeated, never frees a lobby that a later
\* match has taken (cleanup_matchmaking_for_completion).
THEOREM CleanupFreesItsOwn == Spec => CleanupIsExact
  <1>1. Inv /\ [Next]_<<vars, setting>> =>
          [\A l \in Lobbies : \A g \in Games :
             (mm.lobbyGame[l] = g /\ mm'.lobbyGame[l] # g) => game[g] \in {"over", "retired"}]_vars
    BY StepInv DEF FreesOnlyOver
  <1> QED BY <1>1, MatchInvariant, PTL DEF Spec, CleanupIsExact
=============================================================================
