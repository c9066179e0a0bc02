--------------------------- MODULE LobbyMembership ---------------------------
(***************************************************************************)
(* Who is in a lobby when it is queued (lobby_manager.rs, and the queueing  *)
(* handlers of ws_server.rs).                                              *)
(*                                                                         *)
(* The members of a lobby (leases in a sorted set) and its metadata (state, *)
(* ad break, membership revision, reservations) lie in different Redis      *)
(* slots.  A join or leave reserves in the metadata slot, changes the       *)
(* members, and finalizes; queueing reads the revision, snapshots the       *)
(* members, and is admitted only if nobody changed them meanwhile.  Every   *)
(* answer may be lost, and every process may die between two scripts.       *)
(*                                                                         *)
(* One lobby.  A member value belongs to the join that wrote it.            *)
(***************************************************************************)
EXTENDS Integers, FiniteSets

CONSTANTS Joins, Leaves,  \* the attempts that may be made
          UserOf,         \* the user of each
          Gateways,       \* processes that queue the lobby or end its break
          MaxFences,      \* MAX_ACTIVE_MEMBERSHIP_RESERVATIONS
          MaxBreaks,      \* bound: ad breaks begun, and admissions
          Settings        \* a behaviour's attempts and gateways, and its bounds on
                          \* answers lost and processes that die

ASSUME LobbyAssumption ==
  /\ Joins \cap Leaves = {} /\ DOMAIN UserOf = Joins \cup Leaves
  /\ {MaxFences, MaxBreaks} \subseteq Nat
  /\ Settings \subseteq [attempts : SUBSET (Joins \cup Leaves), gateways : SUBSET Gateways,
                         lost : Nat, deaths : Nat]

VARIABLES
  meta,     \* the metadata hash: state, ad break, queue identity, and who has
            \* read the membership revision it has now
  fence,    \* reservations in the metadata slot
  lapsed,   \* those whose score has passed
  members,  \* joins whose member value is in the members' sorted set
  expired,  \* joins whose member lease has run out
  outcome,  \* join -> recorded finalization outcome
  join,     \* join -> where it is
  leave,    \* leave -> where it is
  late,     \* joins whose finalizer is still on its way though given up
  queuer,   \* gateway -> what it does, with the revision and members it read
  claim,    \* the gateway that holds the ad-break finalization claim
  count,    \* bounds used
  setting   \* which bounds

lobby == <<meta, fence, lapsed, members, expired, outcome, join, leave, late,
           queuer, claim, count>>
vars == <<lobby, setting>>

NoOne == "none"
Users == {UserOf[j] : j \in Joins}
UsersIn(S) == {UserOf[j] : j \in S}
Idle == [at |-> "idle", mode |-> "none", break |-> 0, snap |-> {}]

Init ==
  /\ meta = [state |-> "waiting", readers |-> {}, break |-> 0, roster |-> {},
             resolved |-> {}, queue |-> {}]
  /\ fence = {} /\ lapsed = {} /\ members = {} /\ expired = {} /\ late = {}
  /\ outcome = [j \in Joins |-> "none"]
  /\ join = [j \in Joins |-> "idle"] /\ leave = [l \in Leaves |-> "idle"]
  /\ queuer = [g \in Gateways |-> Idle] /\ claim = NoOne
  /\ count = [lost |-> 0, deaths |-> 0, breaks |-> 0]
  /\ setting \in Settings

Lose == count.lost < setting.lost /\ count' = [count EXCEPT !.lost = @ + 1]
Goes(j, at) == join' = [join EXCEPT ![j] = at]
ChangesOnly(j, at) == Goes(j, at) /\ UNCHANGED <<expired, leave, late, queuer, claim>>
(* The revision only grows: once it is incremented, nobody has read it. *)
Bump(m, n) == IF n = 0 THEN m ELSE [m EXCEPT !.readers = {}]
Reconnects(u) == \/ meta.state = "waiting"
                 \/ meta.state = "ad_break" /\ u \in meta.roster
                 \/ meta.state = "queued" /\ u \in meta.queue
-----------------------------------------------------------------------------
(***************************************************************************)
(* Joining.                                                                *)
(***************************************************************************)
(* RESERVE_JOIN_MEMBERSHIP_SCRIPT.  Outdated reservations are cleared first;
   a lost answer leaves a reservation nobody will use. *)
ReserveJoin(j) ==
  LET kept == fence \ lapsed
      room == Cardinality(kept) < MaxFences
      holds == Reconnects(UserOf[j]) /\ room
      cleared == IF Reconnects(UserOf[j]) /\ kept # fence THEN 1 ELSE 0
  IN
  /\ join[j] = "idle" /\ j \in setting.attempts
  /\ meta' = Bump(meta, IF holds THEN cleared + 1 ELSE cleared)
  /\ fence' = IF ~Reconnects(UserOf[j]) THEN fence
              ELSE IF holds THEN kept \cup {j} ELSE kept
  /\ lapsed' = lapsed \cap fence'
  /\ \/ ChangesOnly(j, IF holds THEN "touch" ELSE "refused") /\ UNCHANGED count
     \/ ChangesOnly(j, "lost") /\ Lose
  /\ UNCHANGED <<members, outcome>>

(* TOUCH_LOBBY_MEMBER_SCRIPT, initial: the user's other transports go. *)
Touched(j) == {i \in members : UserOf[i] # UserOf[j]} \cup {j}

TouchMember(j) ==
  /\ join[j] = "touch"
  /\ \/ members' = Touched(j) /\ ChangesOnly(j, "finalize") /\ UNCHANGED count
     \/ members' \in {members, Touched(j)} /\ ChangesOnly(j, "undo") /\ Lose
  /\ UNCHANGED <<meta, fence, lapsed, outcome>>

(* The touch failed: the exact value is removed, then the fence is closed. *)
UndoTouch(j) ==
  /\ join[j] = "undo"
  /\ \/ members' = members \ {j} /\ ChangesOnly(j, "unfence") /\ UNCHANGED count
     \/ members' \in {members, members \ {j}} /\ ChangesOnly(j, "lost") /\ Lose
  /\ UNCHANGED <<meta, fence, lapsed, outcome>>

(* FINALIZE_LEAVE_MEMBERSHIP_SCRIPT: a break that includes the user ends. *)
NoBreak(m) == [m EXCEPT !.state = "waiting", !.break = 0, !.roster = {}, !.resolved = {}]

FinishedMeta(c) ==
  Bump(IF meta.state = "ad_break" /\ c \in fence /\ UserOf[c] \in meta.roster
       THEN NoBreak(meta) ELSE meta, 1)

CloseFence(c) == meta' = FinishedMeta(c) /\ fence' = fence \ {c} /\ lapsed' = lapsed \ {c}

Unfence(j) ==
  /\ join[j] = "unfence"
  /\ \/ CloseFence(j) /\ ChangesOnly(j, "failed") /\ UNCHANGED count
     \/ /\ CloseFence(j) \/ UNCHANGED <<meta, fence, lapsed>>
        /\ ChangesOnly(j, "lost") /\ Lose
  /\ UNCHANGED <<members, outcome>>

(* FINALIZE_JOIN_MEMBERSHIP_SCRIPT: a recorded outcome is repeated; otherwise
   the join is accepted, or rejected under a fence armed again. *)
FinalizeWrites(j) ==
  LET accepted == j \in fence \ lapsed /\ Reconnects(UserOf[j]) IN
  IF outcome[j] # "none"
  THEN UNCHANGED <<meta, fence, lapsed, outcome>>
  ELSE /\ meta' = Bump(meta, 1)
       /\ fence' = IF accepted THEN fence \ {j} ELSE fence \cup {j}
       /\ lapsed' = lapsed \ {j}
       /\ outcome' = [outcome EXCEPT ![j] = IF accepted THEN "in" ELSE "out"]

(* The finalizer is repeated once; without an answer, or rejected, the join
   has to find out what became of it. *)
FinalizeJoin(j) ==
  /\ join[j] = "finalize"
  /\ \/ /\ FinalizeWrites(j)
        /\ ChangesOnly(j, IF outcome'[j] = "in" THEN "verify" ELSE "prepare")
        /\ UNCHANGED count
     \/ /\ FinalizeWrites(j) \/ UNCHANGED <<meta, fence, lapsed, outcome>>
        /\ \E at \in {"finalize", "prepare"} : ChangesOnly(j, at)
        /\ Lose
  /\ UNCHANGED members

(* A finalizer given up arrives after all. *)
AbandonFinalizer(j) ==
  /\ join[j] = "finalize" /\ Lose /\ Goes(j, "prepare") /\ late' = late \cup {j}
  /\ UNCHANGED <<meta, fence, lapsed, members, expired, outcome, leave, queuer, claim>>

LateFinalizer(j) ==
  /\ j \in late /\ FinalizeWrites(j) /\ late' = late \ {j}
  /\ UNCHANGED <<members, expired, join, leave, queuer, claim, count>>

PrepareWrites_NoOutcome(j) ==
  IF outcome[j] = "in"
  THEN UNCHANGED <<meta, fence, lapsed, outcome>>
  ELSE /\ meta' = Bump(meta, 1)
       /\ fence' = fence \cup {j} /\ lapsed' = lapsed \ {j}
       /\ UNCHANGED outcome

(* PREPARE_JOIN_COMPENSATION_SCRIPT: unless the join is known to be accepted,
   its fence is armed again and later finalizers are refused. *)
PrepareWrites(j) ==
  IF outcome[j] = "in"
  THEN UNCHANGED <<meta, fence, lapsed, outcome>>
  ELSE /\ meta' = Bump(meta, 1)
       /\ fence' = fence \cup {j} /\ lapsed' = lapsed \ {j}
       /\ outcome' = [outcome EXCEPT ![j] = "out"]

PrepareCompensation(j) ==
  LET next == IF outcome[j] = "in" THEN "verify"
              ELSE IF meta.state = "ad_break" /\ UserOf[j] \in meta.roster
                   THEN "release_in" ELSE "prove"
  IN
  /\ join[j] = "prepare"
  /\ \/ PrepareWrites(j) /\ ChangesOnly(j, next) /\ UNCHANGED count
     \/ /\ PrepareWrites(j) \/ UNCHANGED <<meta, fence, lapsed, outcome>>
        /\ \E at \in {"prepare", "lost"} : ChangesOnly(j, at)
        /\ Lose
  /\ UNCHANGED members

(* has_exact_join_admission: the queue identity names the user. *)
ProveAdmission(j) ==
  /\ join[j] = "prove"
  /\ \/ ChangesOnly(j, IF UserOf[j] \in meta.queue THEN "release_in" ELSE "remove")
        /\ UNCHANGED count
     \/ ChangesOnly(j, "lost") /\ Lose
  /\ UNCHANGED <<meta, fence, lapsed, members, outcome>>

RemoveTentative(j) ==
  /\ join[j] = "remove"
  /\ \/ members' = members \ {j} /\ ChangesOnly(j, "release_out") /\ UNCHANGED count
     \/ /\ members' \in {members, members \ {j}}
        /\ \E at \in {"remove", "lost"} : ChangesOnly(j, at)
        /\ Lose
  /\ UNCHANGED <<meta, fence, lapsed, outcome>>

(* RELEASE_JOIN_COMPENSATION_SCRIPT. *)
ReleaseWrites(j, admitted) ==
  /\ outcome' = IF admitted THEN [outcome EXCEPT ![j] = "in"] ELSE outcome
  /\ meta' = IF j \in fence THEN Bump(meta, 1) ELSE meta
  /\ fence' = fence \ {j} /\ lapsed' = lapsed \ {j}

ReleaseCompensation(j) ==
  /\ join[j] \in {"release_in", "release_out"}
  /\ LET admitted == join[j] = "release_in"
         at == IF admitted THEN "verify" ELSE "failed" IN
     \/ ReleaseWrites(j, admitted) /\ ChangesOnly(j, at) /\ UNCHANGED count
     \/ /\ ReleaseWrites(j, admitted) \/ UNCHANGED <<meta, fence, lapsed, outcome>>
        /\ ChangesOnly(j, IF admitted THEN "verify" ELSE "lost")
        /\ Lose
  /\ UNCHANGED members

(* The heartbeat after finalization must find the exact member. *)
VerifyMember(j) ==
  /\ join[j] = "verify"
  /\ ChangesOnly(j, IF j \in members THEN "joined" ELSE "gone")
  /\ UNCHANGED <<meta, fence, lapsed, members, outcome, count>>

(* The process dies or its socket detaches; its heartbeat ends, and that is all
   that happens to a join that has been admitted. *)
DieJoin(j) ==
  /\ join[j] \notin {"idle", "refused", "failed", "lost", "gone", "dead"}
  /\ count.deaths < setting.deaths
  /\ count' = [count EXCEPT !.deaths = @ + 1]
  /\ Goes(j, IF join[j] \in {"verify", "joined"} THEN "gone" ELSE "dead")
  /\ UNCHANGED <<meta, fence, lapsed, members, expired, outcome, leave, late, queuer, claim>>

(* Without a heartbeat a member's lease runs out. *)
MemberExpires(j) ==
  /\ j \in members /\ join[j] \in {"lost", "gone", "dead"}
  /\ members' = members \ {j} /\ expired' = expired \cup {j}
  /\ UNCHANGED <<meta, fence, lapsed, outcome, join, leave, late, queuer, claim, count>>

(* A reservation outlives the tentative member it fences
   (MEMBERSHIP_RESERVATION_TTL_MS) and every change still being made. *)
FenceLapses(c) ==
  /\ c \in fence \ lapsed
  /\ IF c \in Joins THEN \/ join[c] \in {"lost", "dead"} /\ c \notin members
                         \/ join[c] \in {"verify", "joined", "gone"}
                    ELSE leave[c] = "dead"
  /\ lapsed' = lapsed \cup {c}
  /\ UNCHANGED <<meta, fence, members, expired, outcome, join, leave, late, queuer, claim, count>>
-----------------------------------------------------------------------------
(***************************************************************************)
(* Leaving.                                                                *)
(***************************************************************************)
LeaveGoes(l, at) == leave' = [leave EXCEPT ![l] = at]
LeaveOnly(l, at) == LeaveGoes(l, at) /\ UNCHANGED <<expired, outcome, join, late, queuer, claim>>

(* RESERVE_LEAVE_MEMBERSHIP_SCRIPT: a participant who leaves ends the break,
   even when there is no room for the reservation. *)
ReserveLeaveWrites(l) ==
  LET kept == fence \ lapsed
      participant == meta.state = "ad_break" /\ UserOf[l] \in meta.roster
      allowed == meta.state = "waiting" \/ participant
      holds == allowed /\ Cardinality(kept) < MaxFences
      cleared == IF kept # fence THEN 1 ELSE 0
  IN /\ meta' = Bump(IF participant THEN NoBreak(meta) ELSE meta,
                     IF holds THEN cleared + 1 ELSE cleared)
     /\ fence' = IF holds THEN kept \cup {l} ELSE kept
     /\ lapsed' = {}

ReserveLeave(l) ==
  /\ leave[l] = "idle" /\ l \in setting.attempts
  /\ ReserveLeaveWrites(l)
  /\ \/ LeaveOnly(l, IF l \in fence' THEN "remove" ELSE "refused") /\ UNCHANGED count
     \/ LeaveOnly(l, "dead") /\ Lose
  /\ UNCHANGED members

(* REMOVE_USER_LOBBY_MEMBERS_SCRIPT: every transport of the user goes. *)
RemoveUser(l) ==
  LET left == {j \in members : UserOf[j] # UserOf[l]} IN
  /\ leave[l] = "remove" /\ LeaveOnly(l, "finish")
  /\ \/ members' = left /\ UNCHANGED count
     \/ members' \in {members, left} /\ Lose
  /\ UNCHANGED <<meta, fence, lapsed>>

FinishLeave(l) ==
  /\ leave[l] = "finish"
  /\ \/ CloseFence(l) /\ LeaveOnly(l, "done") /\ UNCHANGED count
     \/ /\ CloseFence(l) \/ UNCHANGED <<meta, fence, lapsed>>
        /\ LeaveOnly(l, "dead") /\ Lose
  /\ UNCHANGED members

DieLeave(l) ==
  /\ leave[l] \in {"remove", "finish"} /\ count.deaths < setting.deaths
  /\ count' = [count EXCEPT !.deaths = @ + 1]
  /\ LeaveOnly(l, "dead")
  /\ UNCHANGED <<meta, fence, lapsed, members>>
-----------------------------------------------------------------------------
(***************************************************************************)
(* Queueing, with or without an ad break.                                  *)
(***************************************************************************)
QueuerGoes(g, q) == queuer' = [queuer EXCEPT ![g] = q]
QueuerOnly(g, q) == QueuerGoes(g, q) /\ UNCHANGED <<members, expired, outcome, join, leave, late>>

(* queue_lobby_or_begin_ad_break: the ad policy decides. *)
StartQueue(g, mode) ==
  /\ queuer[g] = Idle /\ g \in setting.gateways /\ count.breaks < MaxBreaks
  /\ count' = [count EXCEPT !.breaks = @ + 1]
  /\ QueuerOnly(g, [Idle EXCEPT !.at = IF mode = "begin" THEN "rev" ELSE "first",
                               !.mode = mode])
  /\ UNCHANGED <<meta, fence, lapsed, claim>>

(* claim_ad_break_finalization, once every participant is resolved. *)
ClaimFinalization(g) ==
  /\ queuer[g] = Idle /\ g \in setting.gateways
  /\ meta.state = "ad_break" /\ meta.resolved = meta.roster
  /\ claim = NoOne /\ claim' = g
  /\ QueuerOnly(g, [Idle EXCEPT !.at = "reload", !.mode = "final", !.break = meta.break])
  /\ UNCHANGED <<meta, fence, lapsed, count>>

ReloadMembers_NoCancel(g) ==
  /\ queuer[g].at = "reload"
  /\ QueuerOnly(g, IF UsersIn(members) = meta.roster
                   THEN [queuer[g] EXCEPT !.at = "first"] ELSE [queuer[g] EXCEPT !.at = "release"])
  /\ UNCHANGED <<meta, fence, lapsed, claim, count>>

(* The break object that was claimed carries its roster. *)
ReloadMembers(g) ==
  LET roster == IF meta.break = queuer[g].break THEN meta.roster ELSE {} IN
  /\ queuer[g].at = "reload"
  /\ QueuerOnly(g, [queuer[g] EXCEPT !.at = IF UsersIn(members) = roster
                                            THEN "first" ELSE "cancel"])
  /\ UNCHANGED <<meta, fence, lapsed, claim, count>>

(* queue_existing_lobby_for_game_types reads the users it expects, computes
   their rating, and refuses if they are others when it comes to the script. *)
ExpectMembers(g) ==
  /\ queuer[g].at = "first"
  /\ QueuerOnly(g, IF members = {} THEN [queuer[g] EXCEPT !.at = "cancel"]
                   ELSE [queuer[g] EXCEPT !.at = "rev", !.snap = members])
  /\ UNCHANGED <<meta, fence, lapsed, claim, count>>

ReadRevision(g) ==
  /\ queuer[g].at = "rev"
  /\ meta' = [meta EXCEPT !.readers = @ \cup {g}]
  /\ QueuerOnly(g, [queuer[g] EXCEPT !.at = "snap"])
  /\ UNCHANGED <<fence, lapsed, claim, count>>

(* get_lobby_members: expired values are not returned.  (Nor are users without an
   account, and every member has one: an authenticated user joined, and no account
   is ever deleted.) *)
SnapshotMembers(g) ==
  LET changed == queuer[g].mode # "begin" /\ UsersIn(members) # UsersIn(queuer[g].snap) IN
  /\ queuer[g].at = "snap"
  /\ QueuerOnly(g, IF members = {} \/ changed THEN [queuer[g] EXCEPT !.at = "cancel"]
                   ELSE [queuer[g] EXCEPT !.at = "script", !.snap = members])
  /\ UNCHANGED <<meta, fence, lapsed, claim, count>>

(* What the metadata slot can still say about a snapshot of the other slot:
   no change is open, none was made since the revision was read, and no lease
   of the snapshot has run out. *)
Fresh_NoReservations(g) == g \in meta.readers /\ queuer[g].snap \cap expired = {}

Fresh(g) == fence = {} /\ g \in meta.readers /\ queuer[g].snap \cap expired = {}

(* A conflict clears outdated reservations and is retried or given up. *)
Conflict(g) ==
  /\ queuer[g].at = "script"
  /\ ~Fresh(g)
  /\ queuer[g].mode = "begin" => meta.state = "waiting"
  /\ queuer[g].mode # "begin" => meta.queue = {}
  /\ meta' = IF lapsed # {} THEN Bump(meta, 1) ELSE meta
  /\ fence' = fence \ lapsed /\ lapsed' = {}
  /\ \E at \in {"rev", "release"} : QueuerOnly(g, [queuer[g] EXCEPT !.at = at])
  /\ UNCHANGED <<claim, count>>

(* BEGIN_AD_BREAK_SCRIPT. *)
BeginAdBreak(g) ==
  LET q == queuer[g] IN
  /\ q.at = "script" /\ q.mode = "begin" /\ meta.state = "waiting" /\ Fresh(g)
  /\ meta' = [meta EXCEPT !.state = "ad_break", !.break = count.breaks,
                          !.roster = UsersIn(q.snap), !.resolved = {}]
  /\ QueuerOnly(g, [q EXCEPT !.at = "release"])
  /\ UNCHANGED <<fence, lapsed, claim, count>>

(* ADMIT_LOBBY_SCRIPT's view of the lobby's state. *)
AdmitState(q) ==
  IF q.mode = "final"
  THEN /\ meta.state = "ad_break" /\ meta.break = q.break
       /\ meta.roster = UsersIn(q.snap) /\ meta.resolved = meta.roster
  ELSE meta.state = "waiting"

Admit(g) ==
  LET q == queuer[g]
      admitted == [NoBreak(meta) EXCEPT !.state = "queued", !.queue = UsersIn(q.snap)]
  IN
  /\ q.at = "script" /\ q.mode # "begin" /\ meta.queue = {} /\ Fresh(g) /\ AdmitState(q)
  /\ \/ meta' = admitted /\ QueuerOnly(g, [q EXCEPT !.at = "release"]) /\ UNCHANGED count
     \/ meta' \in {meta, admitted} /\ QueuerOnly(g, [q EXCEPT !.at = "cancel"]) /\ Lose
  /\ UNCHANGED <<fence, lapsed, claim>>

(* The state forbids it. *)
Rejected(g) ==
  LET q == queuer[g] IN
  /\ q.at = "script"
  /\ IF q.mode = "begin" THEN meta.state # "waiting"
     ELSE meta.queue # {} \/ (Fresh(g) /\ ~AdmitState(q))
  /\ QueuerOnly(g, [q EXCEPT !.at = IF q.mode = "final" THEN "cancel" ELSE "release"])
  /\ UNCHANGED <<meta, fence, lapsed, claim, count>>

(* CANCEL_AD_BREAK_SCRIPT: only the break the gateway knows.  A failure is
   ignored: the break stands, and the reconciler claims it again. *)
Cancels(g) == meta.state = "ad_break" /\ meta.break = queuer[g].break

CancelBreak(g) ==
  /\ queuer[g].at = "cancel"
  /\ \/ meta' = (IF Cancels(g) THEN NoBreak(meta) ELSE meta) /\ UNCHANGED count
     \/ Cancels(g) /\ UNCHANGED meta /\ Lose
  /\ QueuerOnly(g, [queuer[g] EXCEPT !.at = "release"])
  /\ UNCHANGED <<fence, lapsed, claim>>

Forgets(g) == QueuerOnly(g, Idle) /\ meta' = [meta EXCEPT !.readers = @ \ {g}]

ReleaseClaim(g) ==
  /\ queuer[g].at = "release"
  /\ claim' = IF claim = g THEN NoOne ELSE claim
  /\ Forgets(g)
  /\ UNCHANGED <<fence, lapsed, count>>

(* A gateway that dies leaves its claim to run out. *)
DieQueuer(g) ==
  /\ queuer[g].at # "idle" /\ count.deaths < setting.deaths
  /\ count' = [count EXCEPT !.deaths = @ + 1]
  /\ Forgets(g)
  /\ UNCHANGED <<fence, lapsed, claim>>

ClaimExpires ==
  /\ claim # NoOne /\ queuer[claim].mode # "final"
  /\ claim' = NoOne
  /\ UNCHANGED <<meta, fence, lapsed, members, expired, outcome, join, leave, late, queuer, count>>

MetaOnly(m) == /\ meta' = m
               /\ UNCHANGED <<fence, lapsed, members, expired, outcome, join, leave,
                              late, queuer, claim, count>>

(* RESOLVE_AD_BREAK_SCRIPT, for one participant and after the deadline. *)
ResolveAdBreak(u) ==
  /\ meta.state = "ad_break" /\ u \in meta.roster \ meta.resolved
  /\ MetaOnly([meta EXCEPT !.resolved = @ \cup {u}])

TimeoutAdBreak ==
  /\ meta.state = "ad_break" /\ meta.resolved # meta.roster
  /\ MetaOnly([meta EXCEPT !.resolved = meta.roster])

(* A participant cancels the break; the queue is left or its match is over. *)
CancelByParticipant == meta.state = "ad_break" /\ MetaOnly(NoBreak(meta))
Dequeue == /\ meta.state = "queued"
           /\ MetaOnly([meta EXCEPT !.state = "waiting", !.queue = {}])
-----------------------------------------------------------------------------
JoinStep(j) == \/ TouchMember(j) \/ UndoTouch(j) \/ Unfence(j) \/ FinalizeJoin(j)
               \/ PrepareCompensation(j) \/ ProveAdmission(j) \/ RemoveTentative(j)
               \/ ReleaseCompensation(j) \/ VerifyMember(j)

LeaveStep(l) == RemoveUser(l) \/ FinishLeave(l)

QueueStep(g) == \/ ClaimFinalization(g) \/ ReloadMembers(g) \/ ExpectMembers(g)
                \/ ReadRevision(g) \/ SnapshotMembers(g) \/ Conflict(g) \/ BeginAdBreak(g)
                \/ Admit(g) \/ Rejected(g) \/ CancelBreak(g) \/ ReleaseClaim(g)

Change ==
  \/ \E j \in Joins : \/ ReserveJoin(j) \/ JoinStep(j) \/ AbandonFinalizer(j)
                      \/ LateFinalizer(j) \/ DieJoin(j) \/ MemberExpires(j)
  \/ \E c \in Joins \cup Leaves : FenceLapses(c)
  \/ \E l \in Leaves : ReserveLeave(l) \/ LeaveStep(l) \/ DieLeave(l)
  \/ \E g \in Gateways : \/ QueueStep(g) \/ DieQueuer(g)
                         \/ \E mode \in {"begin", "admit"} : StartQueue(g, mode)
  \/ \E u \in Users : ResolveAdBreak(u)
  \/ ClaimExpires \/ TimeoutAdBreak \/ CancelByParticipant \/ Dequeue

Next == Change /\ UNCHANGED setting

Spec == Init /\ [][Next]_vars

(* Tasks that were spawned run on, leases run out, and every connected session
   reconciles the lobby's break once a second. *)
Fairness ==
  /\ \A j \in Joins : WF_lobby(JoinStep(j)) /\ WF_lobby(MemberExpires(j))
  /\ \A l \in Leaves : WF_lobby(LeaveStep(l))
  /\ \A c \in Joins \cup Leaves : WF_lobby(FenceLapses(c))
  /\ \A g \in Gateways : WF_lobby(QueueStep(g))
  /\ WF_lobby(ClaimExpires) /\ WF_lobby(TimeoutAdBreak)

FairSpec == Spec /\ Fairness
-----------------------------------------------------------------------------
(***************************************************************************)
(* Properties.                                                             *)
(***************************************************************************)
TypeOK ==
  /\ meta.state \in {"waiting", "ad_break", "queued"} /\ meta.readers \subseteq Gateways
  /\ meta.roster \subseteq Users /\ meta.queue \subseteq Users
  /\ meta.resolved \subseteq meta.roster
  /\ meta.state = "ad_break" <=> meta.break # 0
  /\ meta.state = "ad_break" <=> meta.roster # {}
  /\ meta.state = "queued" <=> meta.queue # {}
  /\ lapsed \subseteq fence /\ fence \subseteq Joins \cup Leaves
  /\ members \subseteq Joins /\ expired \subseteq Joins
  /\ outcome \in [Joins -> {"none", "in", "out"}]

(* The lobby is queued, or made to wait for an ad, with exactly the users that
   are its members at that moment, whatever joins, leaves, crashes and lost
   answers happened while the roster was read from the other slot. *)
RosterExact ==
  [][/\ (meta.state = "waiting" /\ meta'.state = "ad_break") => meta'.roster = UsersIn(members)
     /\ (meta.state # "queued" /\ meta'.state = "queued") => meta'.queue = UsersIn(members)]_vars

(* A member whose join was not accepted is fenced: no roster can include or
   miss a user whose join may still be undone.  A join that proved its admission
   and lost the answer to its release is accepted without being recorded. *)
FencedUnlessAdmitted ==
  \A j \in members : \/ outcome[j] = "in" \/ j \in fence
                     \/ join[j] \in {"verify", "joined", "gone"}

(* A join that was answered with a failure has left no member and no admission. *)
FailedIsGone ==
  \A j \in Joins : join[j] = "failed" => j \notin members /\ outcome[j] # "in"

(* The two slots agree whatever answers are lost, processes die and finalizers
   arrive late: a member that is not accepted is fenced, and a join that was
   answered with a failure has left nothing behind. *)
SlotsAgree == TypeOK /\ FencedUnlessAdmitted /\ FailedIsGone

(* No lobby is held in an ad break for ever: its break ends, by admission or by
   cancellation, whoever disconnects or dies. *)
BreakEnds ==
  \A b \in 1..MaxBreaks : (meta.break = b) ~> (meta.break # b)
=============================================================================
