---- MODULE AccountIdentity ----
(***************************************************************************)
(* One guest and everything that may happen to it at the same time: it is  *)
(* renamed, registered in place with a password, claimed by a verified     *)
(* CrazyGames identity, and credited with experience by the effects of its *)
(* finished games; somebody else registers one of the same names           *)
(* (upgrade_guest_to_account, create_user, update_guest_username,          *)
(* resolve_crazygames_account and the AddXp effect of                      *)
(* server/src/db/dynamodb.rs).                                             *)
(*                                                                         *)
(* DynamoDB transactions are atomic; the reads before them are separate    *)
(* requests.  A transaction whose answer is lost may still be applied.     *)
(***************************************************************************)
EXTENDS Naturals, FiniteSets

CONSTANTS Names,      \* user names people ask for; Nickname is one of them
          Nickname,   \* first name of the guest
          Upgrades,   \* requests to register the guest, each with its own password
          Launches,   \* launches of one CrazyGames identity on several devices
          Effects,    \* AddXp effects of the guest's games
          Casts,      \* which of all these take part in one behaviour
          MaxLost     \* bound: transactions whose answer is lost

ASSUME AccountAssumption ==
    /\ Nickname \in Names /\ MaxLost \in Nat
    /\ IsFiniteSet(Effects)
    /\ Upgrades \cap Launches = {} /\ Upgrades \cap Effects = {} /\ Launches \cap Effects = {}
    /\ "newcomer" \notin Upgrades \cup Launches \cup Effects
    /\ Launches \cap {"guest", "none"} = {}
    /\ \A c \in Casts : c.names \subseteq Names /\ c.processes \subseteq Upgrades \cup Launches \cup Effects

VARIABLES
    cast,       \* the member of Casts that takes part
    account,    \* user id -> META item
    index,      \* user name -> row of the usernames table
    identity,   \* user id of the CrazyGames identity item
    marked,     \* effects whose marker exists
    request,    \* process -> what it has read and where it is
    late,       \* transactions sent whose answer nobody awaits
    told        \* process -> answer

vars == <<account, index, identity, marked, request, late, told>>

Guest == "guest"                  \* user id of the guest
Newcomer == "newcomer"            \* process and user id of a create_user call
None == "none"
Profile == "profile name"         \* the name in the CrazyGames profile
Users == {Guest, Newcomer} \cup Launches
Processes == Upgrades \cup Launches \cup Effects \cup {Newcomer}

NoAccount == [exists |-> FALSE, guest |-> FALSE, name |-> None, linked |-> FALSE,
              password |-> None, xp |-> 0]
Registered(name, pw) == [NoAccount EXCEPT !.exists = TRUE, !.name = name, !.password = pw]
Linked == [NoAccount EXCEPT !.exists = TRUE, !.name = Profile, !.linked = TRUE]
NoRow == [owner |-> None, xp |-> 0]
Start == [phase |-> "start", name |-> None, seen |-> NoAccount]

Init ==
    /\ cast \in Casts
    /\ account = [u \in Users |->
                    IF u = Guest THEN [Registered(Nickname, None) EXCEPT !.guest = TRUE]
                    ELSE NoAccount]
    /\ index = [n \in Names |-> NoRow]
    /\ identity = None /\ marked = {} /\ late = {}
    /\ request = [p \in Processes |-> Start]
    /\ told = [p \in Processes |-> None]

Goto(p, phase) == request' = [request EXCEPT ![p].phase = phase]
Answer(p, a) == /\ told' = [told EXCEPT ![p] = a]
                /\ Goto(p, "done")

\* A process reads the guest (strongly consistent) and remembers what it saw.
Read(p, name, phase) ==
    request' = [request EXCEPT ![p] = [phase |-> phase, name |-> name, seen |-> account[Guest]]]

-----------------------------------------------------------------------------
(* create_user: the name is reserved first, the account written second.    *)

Reserve(n) ==
    /\ request[Newcomer].phase = "start"
    /\ index[n].owner = None
    /\ index' = [index EXCEPT ![n] = [owner |-> Newcomer, xp |-> 0]]
    /\ request' = [request EXCEPT ![Newcomer] = [Start EXCEPT !.phase = "write", !.name = n]]
    /\ UNCHANGED <<account, identity, marked, late, told>>

CreateUser ==
    /\ request[Newcomer].phase = "write"
    /\ account' = [account EXCEPT ![Newcomer] = Registered(request[Newcomer].name, Newcomer)]
    /\ Answer(Newcomer, Newcomer)
    /\ UNCHANGED <<index, identity, marked, late>>

\* update_guest_username: conditional on the user being a guest.
Rename(n) ==
    /\ account[Guest].guest /\ account[Guest].name # n
    /\ account' = [account EXCEPT ![Guest].name = n]
    /\ UNCHANGED <<index, identity, marked, request, late, told>>

-----------------------------------------------------------------------------
(* upgrade_guest_to_account.                                               *)

UpgradeReads(u) ==
    /\ request[u].phase \in {"start", "retry"}
    /\ \E n \in IF request[u].phase = "retry" THEN {request[u].name} ELSE cast.names :
          IF account[Guest].guest THEN Read(u, n, "upgrade") /\ UNCHANGED told
          ELSE Answer(u, "refused")
    /\ UNCHANGED <<account, index, identity, marked, late>>

\* The condition names every progress field that the mirror row copies.
UpgradeHolds_IgnoresProgress(t) ==
    /\ index[t.name].owner \in {None, Guest}
    /\ account[Guest].guest /\ account[Guest].name = t.seen.name
UpgradeHolds(t) ==
    /\ index[t.name].owner \in {None, Guest}
    /\ account[Guest].guest
    /\ account[Guest].name = t.seen.name /\ account[Guest].xp = t.seen.xp

UpgradeWrites(t, pw) ==
    /\ index' = [index EXCEPT ![t.name] = [owner |-> Guest, xp |-> t.seen.xp]]
    /\ account' = [account EXCEPT ![Guest].guest = FALSE, ![Guest].name = t.name,
                                  ![Guest].password = pw]

UpgradeTransacts(u) ==
    /\ request[u].phase = "upgrade"
    /\ IF UpgradeHolds(request[u])
       THEN UpgradeWrites(request[u], u) /\ Answer(u, "upgraded")
       ELSE Goto(u, "check") /\ UNCHANGED <<account, index, told>>
    /\ UNCHANGED <<identity, marked, late>>

UpgradeUnanswered(u) ==
    /\ request[u].phase = "upgrade" /\ Cardinality(late) < MaxLost
    /\ late' = late \cup {[kind |-> "upgrade", by |-> u, req |-> request[u]]}
    /\ Goto(u, "check")
    /\ UNCHANGED <<account, index, identity, marked, told>>

\* After an error: success if this very upgrade is what the account shows.
Mine_AnyPassword(u) == account[Guest].name = request[u].name
Mine(u) == account[Guest].name = request[u].name /\ account[Guest].password = u

UpgradeChecks(u) ==
    /\ request[u].phase = "check"
    /\ LET owner == index[request[u].name].owner
       IN  CASE ~account[Guest].guest ->
                   Answer(u, IF Mine(u) THEN "upgraded" ELSE "refused")
             [] account[Guest].guest /\ owner \notin {None, Guest} /\ account[owner].exists ->
                   Answer(u, "refused")
             [] OTHER -> Goto(u, "retry") /\ UNCHANGED told
    /\ UNCHANGED <<account, index, identity, marked, late>>

-----------------------------------------------------------------------------
(* resolve_crazygames_account.                                             *)

\* Whether this launch brings the guest's token is the caller's choice.  A guest
\* that is none any more is dropped, and a new account is made instead.
Resolve(l, candidate) ==
    /\ request[l].phase \in {"start", "claim failed", "create failed"}
    /\ candidate => request[l].phase # "create failed"
    /\ CASE identity # None -> Answer(l, identity)
         [] identity = None /\ candidate /\ account[Guest].guest ->
               Goto(l, "claim") /\ UNCHANGED told
         [] OTHER -> Goto(l, "create") /\ UNCHANGED told
    /\ UNCHANGED <<account, index, identity, marked, late>>

ClaimHolds == identity = None /\ account[Guest].guest

ClaimWrites ==
    /\ identity' = Guest
    /\ account' = [account EXCEPT ![Guest].guest = FALSE, ![Guest].name = Profile,
                                  ![Guest].linked = TRUE]

Claim(l) ==
    /\ request[l].phase = "claim"
    /\ IF ClaimHolds THEN ClaimWrites /\ Answer(l, Guest)
       ELSE Goto(l, "claim failed") /\ UNCHANGED <<account, identity, told>>
    /\ UNCHANGED <<index, marked, late>>

ClaimUnanswered(l) ==
    /\ request[l].phase = "claim" /\ Cardinality(late) < MaxLost
    /\ late' = late \cup {[kind |-> "claim", by |-> l, req |-> request[l]]}
    /\ Goto(l, "claim failed")
    /\ UNCHANGED <<account, index, identity, marked, told>>

\* Every attempt makes an id of its own; the mapping lets one of them exist, so
\* the launch stands for all.
CreateWrites(l) == identity' = l /\ account' = [account EXCEPT ![l] = Linked]

CreateLinked(l) ==
    /\ request[l].phase = "create"
    /\ IF identity = None THEN CreateWrites(l) /\ Answer(l, l)
       ELSE Goto(l, "create failed") /\ UNCHANGED <<account, identity, told>>
    /\ UNCHANGED <<index, marked, late>>

CreateUnanswered(l) ==
    /\ request[l].phase = "create" /\ Cardinality(late) < MaxLost
    /\ late' = late \cup {[kind |-> "create", by |-> l, req |-> request[l]]}
    /\ Goto(l, "create failed")
    /\ UNCHANGED <<account, index, identity, marked, told>>

-----------------------------------------------------------------------------
(* The AddXp effect: completion_user_target, then the transaction.         *)

Mirrored(a) == ~a.guest /\ ~a.linked

EffectReads(e) ==
    /\ request[e].phase = "start" /\ e \notin marked
    /\ Read(e, account[Guest].name, "effect")
    /\ UNCHANGED <<account, index, identity, marked, late, told>>

EffectHolds(e, seen) ==
    /\ e \notin marked
    /\ account[Guest].name = seen.name /\ account[Guest].guest = seen.guest
    /\ Mirrored(seen) => index[seen.name].owner = Guest

EffectWrites(e, seen) ==
    /\ account' = [account EXCEPT ![Guest].xp = @ + 1]
    /\ index' = IF Mirrored(seen) THEN [index EXCEPT ![seen.name].xp = @ + 1] ELSE index
    /\ marked' = marked \cup {e}

EffectTransacts(e) ==
    /\ request[e].phase = "effect"
    /\ IF EffectHolds(e, request[e].seen)
       THEN EffectWrites(e, request[e].seen) /\ Answer(e, "applied")
       ELSE Goto(e, "start") /\ UNCHANGED <<account, index, marked, told>>
    /\ UNCHANGED <<identity, late>>

EffectUnanswered(e) ==
    /\ request[e].phase = "effect" /\ Cardinality(late) < MaxLost
    /\ late' = late \cup {[kind |-> "effect", by |-> e, req |-> request[e]]}
    /\ Goto(e, "start")
    /\ UNCHANGED <<account, index, identity, marked, told>>

\* A transaction nobody awaits is applied, or refused by its conditions.
LateTransaction(t) ==
    /\ t \in late /\ late' = late \ {t}
    /\ CASE t.kind = "upgrade" /\ UpgradeHolds(t.req) ->
               UpgradeWrites(t.req, t.by) /\ UNCHANGED <<identity, marked>>
         [] t.kind = "claim" /\ ClaimHolds -> ClaimWrites /\ UNCHANGED <<index, marked>>
         [] t.kind = "create" /\ identity = None ->
               CreateWrites(t.by) /\ UNCHANGED <<index, marked>>
         [] t.kind = "effect" /\ EffectHolds(t.by, t.req.seen) ->
               EffectWrites(t.by, t.req.seen) /\ UNCHANGED identity
         [] OTHER -> UNCHANGED <<account, index, identity, marked>>
    /\ UNCHANGED <<request, told>>

-----------------------------------------------------------------------------

Next ==
    /\ \/ \E n \in cast.names : Reserve(n) \/ Rename(n)
       \/ CreateUser
       \/ \E u \in Upgrades \cap cast.processes :
             UpgradeReads(u) \/ UpgradeTransacts(u) \/ UpgradeUnanswered(u) \/ UpgradeChecks(u)
       \/ \E l \in Launches \cap cast.processes :
             \/ \E c \in BOOLEAN : Resolve(l, c)
             \/ Claim(l) \/ ClaimUnanswered(l)
             \/ CreateLinked(l) \/ CreateUnanswered(l)
       \/ \E e \in Effects \cap cast.processes :
             EffectReads(e) \/ EffectTransacts(e) \/ EffectUnanswered(e)
       \/ \E t \in late : LateTransaction(t)
    /\ UNCHANGED cast

Spec == Init /\ [][Next]_<<vars, cast>>

-----------------------------------------------------------------------------
(* Properties.                                                             *)

TypeOK ==
    /\ \A u \in Users : account[u].name \in Names \cup {None, Profile}
                     /\ account[u].xp \in 0 .. Cardinality(Effects)
    /\ \A n \in Names : index[n].owner \in Users \cup {None}
    /\ identity \in Users \cup {None}

\* A password account owns the row of its name, and the row shows its progress:
\* the upgrade of a guest and a finishing game never leave a stale mirror.
MirrorExact ==
    \A u \in Users : account[u].exists /\ Mirrored(account[u]) =>
        index[account[u].name] = [owner |-> u, xp |-> account[u].xp]

\* Experience is credited once per game, however the account changes meanwhile.
XpExact == account[Guest].xp = Cardinality(marked)

\* One CrazyGames identity is one user, and a linked user never is a password
\* account too.
IdentityUnique ==
    /\ \A u \in Users : account[u].linked <=> identity = u
    /\ \A u \in Users : account[u].linked => account[u].password = None

\* Together: the account is one consistent thing, whoever changes it.
AccountExact == TypeOK /\ MirrorExact /\ XpExact /\ IdentityUnique

\* Answers stay true: whoever was told that the guest became their account can
\* log in to it, and every launch was told the same user.
AnswersTrue ==
    /\ \A u \in Upgrades : told[u] = "upgraded" =>
          account[Guest].password = u /\ account[Guest].name = request[u].name
    /\ \A l \in Launches : told[l] # None => told[l] = identity
====
