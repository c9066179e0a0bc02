---- MODULE AccountIdentityProofs ----
(***************************************************************************)
(* One account, whoever changes it: a guest's registration, its claim by a *)
(* CrazyGames identity and the experience of its games, proved for every   *)
(* number of names, requests, launches, effects and lost answers.          *)
(***************************************************************************)
EXTENDS AccountIdentity, TLAPS, FiniteSetTheorems

-----------------------------------------------------------------------------
(* The inductive invariant.                                                *)

Accounts == [exists : BOOLEAN, guest : BOOLEAN, name : Names \cup {None, Profile},
             linked : BOOLEAN, password : Upgrades \cup {Newcomer, None}, xp : Nat]
Phases == {"start", "write", "done", "upgrade", "check", "retry", "claim", "claim failed",
           "create", "create failed", "effect"}
Requests == [phase : Phases, name : Names \cup {None, Profile}, seen : Accounts]

LateTransactions == [kind : {"upgrade", "claim", "create", "effect"}, by : Processes, req : Requests]

DataTypes ==
    /\ account \in [Users -> Accounts]
    /\ index \in [Names -> [owner : Users \cup {None}, xp : Nat]]
    /\ identity \in Users \cup {None}
    /\ marked \subseteq Effects
RequestTypes ==
    /\ cast \in Casts
    /\ request \in [Processes -> Requests]
    /\ late \subseteq LateTransactions
    /\ DOMAIN told = Processes

\* What an account is while it is a guest, and what the others are.
AccountKinds ==
    /\ account[Guest].exists
    /\ account[Guest].guest => ~account[Guest].linked /\ account[Guest].password = None
    /\ ~account[Guest].linked => account[Guest].name \in Names
    /\ ~account[Newcomer].linked
    /\ account[Newcomer].exists => account[Newcomer].name \in Names
    /\ \A l \in Launches : account[l].exists => account[l].linked
    /\ \A u \in Users \ {Guest} : account[u].xp = 0

\* The newcomer's row is its own from the reservation on.
Reserved ==
    /\ request[Newcomer].phase \in {"start", "write", "done"}
    /\ request[Newcomer].phase # "start" =>
          /\ request[Newcomer].name \in Names
          /\ index[request[Newcomer].name] = [owner |-> Newcomer, xp |-> 0]
    /\ request[Newcomer].phase # "done" => ~account[Newcomer].exists
    /\ request[Newcomer].phase = "done" =>
          account[Newcomer] = Registered(request[Newcomer].name, Newcomer)

\* An account that is no guest any more is what everybody has seen of it since.
StillTrue(seen) ==
    ~seen.guest => /\ ~account[Guest].guest
                   /\ seen.name = account[Guest].name
                   /\ seen.linked = account[Guest].linked
Requested ==
    /\ \A p \in Processes : request[p].phase = "effect" => StillTrue(request[p].seen)
    /\ \A u \in Upgrades :
          request[u].phase \in {"upgrade", "check", "retry"} => request[u].name \in Names
    /\ \A t \in late :
          /\ t.kind = "effect" => t.by \in Effects /\ StillTrue(t.req.seen)
          /\ t.kind = "upgrade" => t.by \in Upgrades /\ t.req.name \in Names
          /\ t.kind = "create" => t.by \in Launches

\* An answer ends its request, and what it says is final.
Answered ==
    /\ \A p \in Upgrades : told[p] # None => request[p].phase = "done"
    /\ \A u \in Upgrades : told[u] = "upgraded" => ~account[Guest].guest
    /\ AnswersTrue

DataInv == DataTypes /\ MirrorExact /\ XpExact /\ IdentityUnique /\ AccountKinds
RequestInv == RequestTypes /\ Reserved /\ Requested /\ Answered
Inv == DataInv /\ RequestInv

-----------------------------------------------------------------------------
(* What the transactions write.                                            *)

\* No write moves an account that is no guest any more, an identity that is
\* taken, or what is the newcomer's.
Keeps ==
    /\ ~account[Guest].guest => /\ ~account'[Guest].guest
                                /\ account'[Guest].name = account[Guest].name
                                /\ account'[Guest].linked = account[Guest].linked
                                /\ account'[Guest].password = account[Guest].password
    /\ identity # None => identity' = identity
    /\ account'[Newcomer] = account[Newcomer]
    /\ \A n \in Names : index[n].owner = Newcomer => index'[n] = index[n]

\* The guest, the newcomer and the accounts of the launches are different users.
LEMMA Distinct ==
    /\ Guest # Newcomer /\ Guest \in Users /\ Newcomer \in Users /\ Launches \subseteq Users
    /\ None \notin Users /\ Guest \notin Launches /\ Newcomer \notin Launches
    /\ \A u \in Users : u = Guest \/ u = Newcomer \/ u \in Launches
    /\ Newcomer \notin Upgrades \cup Launches \cup Effects
    /\ Newcomer \in Processes /\ Upgrades \cup Launches \cup Effects \subseteq Processes
  BY AccountAssumption DEF Users, Processes, Guest, Newcomer, None

\* A step that writes no item keeps the data and what was seen of it.
LEMMA NothingWritten ==
    ASSUME DataInv, UNCHANGED <<account, index, identity, marked>>
    PROVE  DataInv' /\ Keeps
  BY DEF DataInv, DataTypes, MirrorExact, XpExact, IdentityUnique, AccountKinds, Keeps,
         Mirrored

\* A registration makes the guest a password account and gives it the row of its
\* name, with the progress that was read.
LEMMA UpgradeData ==
    ASSUME DataInv, NEW t \in Requests, t.name \in Names, NEW pw \in Upgrades,
           UpgradeHolds(t), UpgradeWrites(t, pw), UNCHANGED <<identity, marked>>
    PROVE  DataInv' /\ Keeps /\ ~account'[Guest].guest
           /\ account'[Guest].password = pw /\ account'[Guest].name = t.name
  <1>1. PICK a : a = [account[Guest] EXCEPT !.guest = FALSE, !.name = t.name,
                                            !.password = pw] OBVIOUS
  <1>2. PICK row : row = [owner |-> Guest, xp |-> t.seen.xp] OBVIOUS
  <1>3. /\ account[Guest] \in Accounts /\ account[Guest].guest
        /\ account[Guest].xp = t.seen.xp /\ index[t.name].owner \in {None, Guest}
    BY Distinct DEF DataInv, DataTypes, UpgradeHolds
  <1>4. /\ a \in Accounts /\ a.guest = FALSE /\ a.name = t.name /\ a.password = pw
        /\ a.xp = account[Guest].xp /\ a.linked = account[Guest].linked
        /\ a.exists = account[Guest].exists
    BY <1>1, <1>3 DEF Accounts
  <1>5. account' = [account EXCEPT ![Guest] = a]
    BY <1>1, <1>3, Distinct DEF UpgradeWrites, DataInv, DataTypes, Accounts
  <1>6. index' = [index EXCEPT ![t.name] = row] BY <1>2 DEF UpgradeWrites
  <1>7. account'[Guest] = a /\ \A u \in Users \ {Guest} : account'[u] = account[u]
    BY <1>5, Distinct DEF DataInv, DataTypes
  <1>8. index'[t.name] = row /\ \A n \in Names \ {t.name} : index'[n] = index[n]
    BY <1>6 DEF DataInv, DataTypes
  <1>9. DataTypes'
    BY <1>2, <1>3, <1>4, <1>5, <1>6, Distinct DEF DataInv, DataTypes, Accounts
  <1>10. MirrorExact'
    <2> SUFFICES ASSUME NEW u \in Users, account'[u].exists, Mirrored(account'[u])
                 PROVE  index'[account'[u].name] = [owner |-> u, xp |-> account'[u].xp]
      BY DEF MirrorExact, Mirrored
    <2>1. CASE u = Guest BY <1>2, <1>3, <1>4, <1>7, <1>8, <2>1
    <2>2. CASE u # Guest
      <3>1. index[account[u].name] = [owner |-> u, xp |-> account[u].xp]
        BY <1>7, <2>2 DEF DataInv, MirrorExact, Mirrored
      <3>2. account[u].name \in Names
        <4>1. u = Newcomer \/ u \in Launches BY <2>2, Distinct
        <4> QED BY <1>7, <2>2, <4>1 DEF DataInv, AccountKinds, Mirrored
      <3>3. account[u].name # t.name BY <1>3, <2>2, <3>1, Distinct
      <3> QED BY <1>7, <1>8, <2>2, <3>1, <3>2, <3>3
    <2> QED BY <2>1, <2>2
  <1>11. XpExact' BY <1>4, <1>7 DEF DataInv, XpExact
  <1>12. IdentityUnique' /\ AccountKinds'
    <2>1. IdentityUnique'
      BY <1>3, <1>4, <1>7, Distinct DEF DataInv, IdentityUnique, AccountKinds
    <2>2. \A u \in Users \ {Guest} : account'[u].xp = 0 BY <1>7 DEF DataInv, AccountKinds
    <2>3. account'[Guest].exists /\ account'[Guest].guest = FALSE
      BY <1>4, <1>7 DEF DataInv, AccountKinds
    <2>4. /\ ~account'[Newcomer].linked
          /\ account'[Newcomer].exists => account'[Newcomer].name \in Names
          /\ \A l \in Launches : account'[l].exists => account'[l].linked
      BY <1>7, Distinct DEF DataInv, AccountKinds
    <2>5. account'[Guest].name \in Names BY <1>4, <1>7
    <2> QED BY <2>1, <2>2, <2>3, <2>4, <2>5 DEF AccountKinds
  <1>13. Keeps BY <1>3, <1>7, <1>8, Distinct DEF Keeps, DataInv, DataTypes
  <1> QED BY <1>4, <1>7, <1>9, <1>10, <1>11, <1>12, <1>13 DEF DataInv

\* A claim makes the guest the account of the identity, under the profile's name
\* and with its progress.
LEMMA ClaimData ==
    ASSUME DataInv, ClaimHolds, ClaimWrites, UNCHANGED <<index, marked>>
    PROVE  DataInv' /\ Keeps /\ identity' = Guest
  <1>1. PICK a : a = [account[Guest] EXCEPT !.guest = FALSE, !.name = Profile,
                                            !.linked = TRUE] OBVIOUS
  <1>2. account[Guest] \in Accounts /\ account[Guest].guest /\ identity = None
    BY Distinct DEF DataInv, DataTypes, ClaimHolds
  <1>3. /\ a \in Accounts /\ a.guest = FALSE /\ a.name = Profile /\ a.linked = TRUE
        /\ a.xp = account[Guest].xp /\ a.password = account[Guest].password
        /\ a.exists = account[Guest].exists
    BY <1>1, <1>2 DEF Accounts
  <1>4. account' = [account EXCEPT ![Guest] = a]
    BY <1>1, <1>2, Distinct DEF ClaimWrites, DataInv, DataTypes, Accounts
  <1>5. account'[Guest] = a /\ \A u \in Users \ {Guest} : account'[u] = account[u]
    BY <1>4, Distinct DEF DataInv, DataTypes
  <1>6. identity' = Guest BY DEF ClaimWrites
  <1>7. DataTypes' BY <1>3, <1>4, <1>6, Distinct DEF DataInv, DataTypes
  <1>8. MirrorExact' BY <1>3, <1>5 DEF DataInv, MirrorExact, Mirrored
  <1>9. XpExact' BY <1>3, <1>5 DEF DataInv, XpExact
  <1>10. AccountKinds' BY <1>3, <1>5, Distinct DEF DataInv, AccountKinds
  <1>11. IdentityUnique'
    <2>1. \A u \in Users : ~account[u].linked
      BY <1>2, Distinct DEF DataInv, IdentityUnique
    <2> QED BY <1>2, <1>3, <1>5, <1>6, <2>1, Distinct
        DEF DataInv, IdentityUnique, AccountKinds
  <1>12. Keeps BY <1>2, <1>5, Distinct DEF Keeps
  <1> QED BY <1>6, <1>7, <1>8, <1>9, <1>10, <1>11, <1>12 DEF DataInv

\* A creation makes the launch's account that of the identity.
LEMMA CreateData ==
    ASSUME DataInv, NEW l \in Launches, identity = None, CreateWrites(l),
           UNCHANGED <<index, marked>>
    PROVE  DataInv' /\ Keeps /\ identity' = l
  <1>1. identity' = l /\ account' = [account EXCEPT ![l] = Linked] BY DEF CreateWrites
  <1>2. /\ account'[l] = Linked /\ \A u \in Users \ {l} : account'[u] = account[u]
        /\ l \in Users /\ l # Guest /\ l # Newcomer
    BY <1>1, Distinct DEF DataInv, DataTypes
  <1>3. /\ Linked \in Accounts /\ Linked.linked = TRUE /\ Linked.password = None
        /\ Linked.guest = FALSE /\ Linked.xp = 0
    BY DEF Linked, NoAccount, Accounts
  <1>4. DataTypes' BY <1>1, <1>2, <1>3 DEF DataInv, DataTypes
  <1>5. MirrorExact' BY <1>2, <1>3 DEF DataInv, MirrorExact, Mirrored
  <1>6. XpExact' BY <1>2, Distinct DEF DataInv, XpExact
  <1>7. AccountKinds' BY <1>2, <1>3, Distinct DEF DataInv, AccountKinds
  <1>8. IdentityUnique'
    <2>1. \A u \in Users : ~account[u].linked BY Distinct DEF DataInv, IdentityUnique
    <2> QED BY <1>1, <1>2, <1>3, <2>1 DEF IdentityUnique
  <1>9. Keeps BY <1>2, Distinct DEF Keeps
  <1> QED BY <1>1, <1>4, <1>5, <1>6, <1>7, <1>8, <1>9 DEF DataInv

\* A game's experience reaches the account and, where there is one, its row.
LEMMA EffectData ==
    ASSUME DataInv, NEW e \in Effects, NEW seen \in Accounts, StillTrue(seen),
           EffectHolds(e, seen), EffectWrites(e, seen), UNCHANGED identity
    PROVE  DataInv' /\ Keeps
  <1>1. PICK a : a = [account[Guest] EXCEPT !.xp = @ + 1] OBVIOUS
  <1>2. /\ account[Guest] \in Accounts /\ e \notin marked
        /\ account[Guest].name = seen.name /\ account[Guest].guest = seen.guest
        /\ Mirrored(seen) => index[seen.name].owner = Guest
    BY Distinct DEF DataInv, DataTypes, EffectHolds
  <1>3. /\ a \in Accounts /\ a.guest = account[Guest].guest /\ a.name = account[Guest].name
        /\ a.linked = account[Guest].linked /\ a.password = account[Guest].password
        /\ a.xp = account[Guest].xp + 1 /\ a.exists = account[Guest].exists
    BY <1>1, <1>2 DEF Accounts
  <1>4. account' = [account EXCEPT ![Guest] = a]
    BY <1>1, <1>2, Distinct DEF EffectWrites, DataInv, DataTypes, Accounts
  <1>5. account'[Guest] = a /\ \A u \in Users \ {Guest} : account'[u] = account[u]
    BY <1>4, Distinct DEF DataInv, DataTypes
  <1>6. Mirrored(seen) <=> Mirrored(account[Guest])
    BY <1>2 DEF Mirrored, StillTrue, DataInv, AccountKinds, Accounts
  <1>7. marked' = marked \cup {e} BY DEF EffectWrites
  <1>8. XpExact'
    <2>1. IsFiniteSet(marked)
      BY AccountAssumption, FS_Subset DEF DataInv, DataTypes
    <2>2. Cardinality(marked') = Cardinality(marked) + 1
      BY <1>2, <1>7, <2>1, FS_AddElement
    <2> QED BY <1>3, <1>5, <2>2 DEF DataInv, XpExact
  <1>9. IdentityUnique' /\ AccountKinds'
    BY <1>3, <1>5, Distinct DEF DataInv, IdentityUnique, AccountKinds
  <1>10. CASE ~Mirrored(seen)
    <2>1. index' = index BY <1>10 DEF EffectWrites
    <2>2. DataTypes' BY <1>3, <1>4, <1>7, <2>1 DEF DataInv, DataTypes
    <2>3. MirrorExact' BY <1>3, <1>5, <1>6, <1>10, <2>1 DEF DataInv, MirrorExact, Mirrored
    <2>4. Keeps BY <1>3, <1>5, <2>1, Distinct DEF Keeps
    <2> QED BY <1>8, <1>9, <2>2, <2>3, <2>4 DEF DataInv
  <1>11. CASE Mirrored(seen)
    <2>1. /\ seen.name \in Names /\ ~account[Guest].linked
          /\ index[seen.name] = [owner |-> Guest, xp |-> account[Guest].xp]
      BY <1>2, <1>6, <1>11, Distinct DEF DataInv, AccountKinds, MirrorExact, Mirrored
    <2>2. PICK row : row = [index[seen.name] EXCEPT !.xp = @ + 1] OBVIOUS
    <2>3. row = [owner |-> Guest, xp |-> account[Guest].xp + 1]
      BY <1>2, <2>1, <2>2 DEF Accounts
    <2>4. index' = [index EXCEPT ![seen.name] = row]
      BY <1>11, <2>2 DEF EffectWrites
    <2>5. index'[seen.name] = row /\ \A n \in Names \ {seen.name} : index'[n] = index[n]
      BY <2>1, <2>4 DEF DataInv, DataTypes
    <2>6. DataTypes'
      BY <1>2, <1>3, <1>4, <1>7, <2>1, <2>3, <2>4, Distinct DEF DataInv, DataTypes, Accounts
    <2>7. MirrorExact'
      <3> SUFFICES ASSUME NEW u \in Users, account'[u].exists, Mirrored(account'[u])
                   PROVE  index'[account'[u].name] = [owner |-> u, xp |-> account'[u].xp]
        BY DEF MirrorExact, Mirrored
      <3>1. CASE u = Guest BY <1>2, <1>3, <1>5, <2>3, <2>5, <3>1
      <3>2. CASE u # Guest
        <4>1. index[account[u].name] = [owner |-> u, xp |-> account[u].xp]
          BY <1>5, <3>2 DEF DataInv, MirrorExact, Mirrored
        <4>2. account[u].name \in Names
          <5>1. u = Newcomer \/ u \in Launches BY <3>2, Distinct
          <5> QED BY <1>5, <3>2, <5>1 DEF DataInv, AccountKinds, Mirrored
        <4>3. account[u].name # seen.name BY <2>1, <3>2, <4>1
        <4> QED BY <1>5, <2>5, <3>2, <4>1, <4>2, <4>3
      <3> QED BY <3>1, <3>2
    <2>8. Keeps BY <1>3, <1>5, <2>1, <2>5, Distinct DEF Keeps
    <2> QED BY <1>8, <1>9, <2>6, <2>7, <2>8 DEF DataInv
  <1> QED BY <1>10, <1>11

-----------------------------------------------------------------------------
(* Requests.                                                               *)

\* What was seen of a settled account stays true.
WillBeTrue(seen) ==
    ~seen.guest => /\ ~account'[Guest].guest
                   /\ seen.name = account'[Guest].name
                   /\ seen.linked = account'[Guest].linked

\* What was seen of the guest stays true over a step that keeps it.
LEMMA SeenKeeps ==
    ASSUME Keeps, NEW seen, StillTrue(seen) PROVE WillBeTrue(seen)
  BY DEF Keeps, StillTrue, WillBeTrue

\* The steps of the requests other than create_user: one process moves on, may
\* leave a transaction behind, and may be answered.
LEMMA RequestMoves ==
    ASSUME Inv, DataInv', Keeps, UNCHANGED cast,
           NEW p \in Upgrades \cup Launches \cup Effects, NEW q \in Requests,
           request[p].phase # "done", request' = [request EXCEPT ![p] = q],
           q.phase = "effect" => WillBeTrue(q.seen),
           p \in Upgrades /\ q.phase \in {"upgrade", "check", "retry"} => q.name \in Names,
           late' \subseteq LateTransactions,
           \A t \in late' \ late :
              /\ t.kind = "effect" => t.by \in Effects /\ WillBeTrue(t.req.seen)
              /\ t.kind = "upgrade" => t.by \in Upgrades /\ t.req.name \in Names
              /\ t.kind = "create" => t.by \in Launches,
           \/ UNCHANGED told
           \/ \E a : /\ told' = [told EXCEPT ![p] = a] /\ q.phase = "done"
                     /\ p \in Upgrades /\ a = "upgraded" =>
                           /\ ~account'[Guest].guest /\ account'[Guest].password = p
                           /\ account'[Guest].name = q.name
                     /\ p \in Launches /\ a # None => a = identity'
    PROVE  Inv'
  <1>1. p \in Processes /\ p # Newcomer BY Distinct
  <1>2. request'[p] = q /\ \A r \in Processes \ {p} : request'[r] = request[r]
    BY <1>1 DEF Inv, RequestInv, RequestTypes
  <1>3. RequestTypes' BY <1>1, <1>2 DEF Inv, RequestInv, RequestTypes
  <1>4. Reserved'
    <2>1. request'[Newcomer] = request[Newcomer] BY <1>1, <1>2, Distinct
    <2>2. account'[Newcomer] = account[Newcomer] BY DEF Keeps
    <2>3. request[Newcomer].phase # "start" =>
              index'[request[Newcomer].name] = [owner |-> Newcomer, xp |-> 0]
      BY DEF Keeps, Inv, RequestInv, Reserved
    <2> QED BY <2>1, <2>2, <2>3 DEF Inv, RequestInv, Reserved, Registered, NoAccount
  <1>5. Requested'
    <2>1. \A r \in Processes : request'[r].phase = "effect" => WillBeTrue(request'[r].seen)
      BY <1>2, SeenKeeps DEF Inv, RequestInv, Requested
    <2>2. \A u \in Upgrades : request'[u].phase \in {"upgrade", "check", "retry"}
                                 => request'[u].name \in Names
      BY <1>2, Distinct DEF Inv, RequestInv, Requested
    <2>3. \A t \in late' :
              /\ t.kind = "effect" => t.by \in Effects /\ WillBeTrue(t.req.seen)
              /\ t.kind = "upgrade" => t.by \in Upgrades /\ t.req.name \in Names
              /\ t.kind = "create" => t.by \in Launches
      BY SeenKeeps DEF Inv, RequestInv, Requested
    <2> QED BY <2>1, <2>2, <2>3 DEF Requested, StillTrue, WillBeTrue
  <1>6. Answered'
    <2>1. \A r \in Processes \ {p} : told'[r] = told[r]
      BY DEF Inv, RequestInv, RequestTypes
    <2>2. \A u \in Upgrades \ {p} :
              /\ told'[u] # None => request'[u].phase = "done"
              /\ told'[u] = "upgraded" => /\ ~account'[Guest].guest
                                          /\ account'[Guest].password = u
                                          /\ account'[Guest].name = request'[u].name
      BY <1>2, <2>1, Distinct DEF Inv, RequestInv, Answered, AnswersTrue, Keeps
    <2>3. \A l \in Launches \ {p} : told'[l] # None => told'[l] = identity'
      BY <2>1, Distinct DEF Inv, RequestInv, Answered, AnswersTrue, Keeps
    <2>4. p \in Upgrades => /\ told'[p] # None => q.phase = "done"
                            /\ told'[p] = "upgraded" => /\ ~account'[Guest].guest
                                                        /\ account'[Guest].password = p
                                                        /\ account'[Guest].name = q.name
      BY <1>1 DEF Inv, RequestInv, RequestTypes, Answered, None
    <2>5. p \in Launches => (told'[p] # None => told'[p] = identity')
      BY <1>1 DEF Inv, RequestInv, RequestTypes, Answered, AnswersTrue, Keeps
    <2> QED BY <1>2, <2>2, <2>3, <2>4, <2>5 DEF Answered, AnswersTrue
  <1> QED BY <1>3, <1>4, <1>5, <1>6 DEF Inv, RequestInv

\* Goto moves the phase and nothing else.
LEMMA GotoMoves ==
    ASSUME Inv, NEW p \in Processes, NEW phase \in Phases, Goto(p, phase)
    PROVE  \E q \in Requests : /\ request' = [request EXCEPT ![p] = q]
                               /\ q.phase = phase /\ q.name = request[p].name
                               /\ q.seen = request[p].seen
  <1>1. PICK q : q = [request[p] EXCEPT !.phase = phase] OBVIOUS
  <1>2. request[p] \in Requests BY DEF Inv, RequestInv, RequestTypes
  <1>3. /\ q \in Requests /\ q.phase = phase /\ q.name = request[p].name
        /\ q.seen = request[p].seen
    BY <1>1, <1>2 DEF Requests
  <1>4. request' = [request EXCEPT ![p] = q] BY <1>1 DEF Goto
  <1> QED BY <1>3, <1>4

\* The same for the phases that end a transaction.
LEMMA GotoNamed ==
    ASSUME Inv, NEW p \in Processes,
           NEW name \in {"done", "check", "claim failed", "create failed"}, Goto(p, name)
    PROVE  \E q \in Requests : /\ request' = [request EXCEPT ![p] = q]
                               /\ q.phase = name /\ q.name = request[p].name
  <1>1. PICK q : q = [request[p] EXCEPT !.phase = name] OBVIOUS
  <1>2. request[p] \in Requests BY DEF Inv, RequestInv, RequestTypes
  <1>3. q \in Requests /\ q.phase = name /\ q.name = request[p].name
    BY <1>1, <1>2 DEF Requests, Phases
  <1>4. request' = [request EXCEPT ![p] = q] BY <1>1 DEF Goto
  <1> QED BY <1>3, <1>4

\* A transaction left behind is the request's own, as it stood.
LEMMA LateTyped ==
    ASSUME Inv, NEW k \in {"upgrade", "claim", "create", "effect"}, NEW p \in Processes,
           late' = late \cup {[kind |-> k, by |-> p, req |-> request[p]]}
    PROVE  /\ late' \subseteq LateTransactions
           /\ \A t \in late' \ late : t.kind = k /\ t.by = p /\ t.req = request[p]
  <1>1. request[p] \in Requests /\ late \subseteq LateTransactions
    BY DEF Inv, RequestInv, RequestTypes
  <1> QED BY <1>1 DEF LateTransactions

\* A step in which a process only moves on or is told what it was waiting for.
LEMMA OnlyMoves ==
    ASSUME Inv, UNCHANGED <<account, index, identity, marked, late, cast>>,
           NEW p \in Upgrades \cup Launches \cup Effects, request[p].phase # "done",
           NEW phase \in Phases \ {"effect", "upgrade"}, Goto(p, phase),
           p \in Upgrades /\ phase \in {"check", "retry"} => request[p].name \in Names,
           \/ UNCHANGED told
           \/ \E a : /\ told' = [told EXCEPT ![p] = a] /\ phase = "done"
                     /\ p \in Upgrades /\ a = "upgraded" =>
                           /\ ~account[Guest].guest /\ account[Guest].password = p
                           /\ account[Guest].name = request[p].name
                     /\ p \in Launches /\ a # None => a = identity
    PROVE  Inv'
  <1>1. DataInv' /\ Keeps BY NothingWritten DEF Inv
  <1>2. p \in Processes BY Distinct
  <1>3. PICK q \in Requests : /\ request' = [request EXCEPT ![p] = q]
                              /\ q.phase = phase /\ q.name = request[p].name
    BY <1>2, GotoMoves
  <1>4. late' \subseteq LateTransactions /\ late' \ late = {}
    BY DEF Inv, RequestInv, RequestTypes
  <1> QED BY <1>1, <1>3, <1>4, RequestMoves

\* Every step of a registration keeps the invariant.
LEMMA UpgradeSteps ==
    ASSUME Inv, UNCHANGED cast, NEW u \in Upgrades,
           \/ UpgradeReads(u) \/ UpgradeTransacts(u) \/ UpgradeUnanswered(u)
           \/ UpgradeChecks(u)
    PROVE  Inv'
  <1>0. u \in Processes /\ u \notin Launches /\ u \in Upgrades \cup Launches \cup Effects
    BY Distinct, AccountAssumption
  <1>1. CASE UpgradeReads(u)
    <2>1. /\ UNCHANGED <<account, index, identity, marked, late>>
          /\ request[u].phase \in {"start", "retry"}
      BY <1>1 DEF UpgradeReads
    <2>2. CASE \E n \in Names : Read(u, n, "upgrade") /\ UNCHANGED told
      <3>1. PICK n \in Names : Read(u, n, "upgrade") BY <2>2
      <3>2. PICK q : q = [phase |-> "upgrade", name |-> n, seen |-> account[Guest]] OBVIOUS
      <3>3. q \in Requests /\ q.phase = "upgrade" /\ q.name = n
        BY <3>2, Distinct DEF Inv, DataInv, DataTypes, Requests, Phases
      <3>4. request' = [request EXCEPT ![u] = q] BY <3>1, <3>2 DEF Read
      <3>5. DataInv' /\ Keeps BY <2>1, NothingWritten DEF Inv
      <3>6. late' \subseteq LateTransactions /\ late' \ late = {}
        BY <2>1 DEF Inv, RequestInv, RequestTypes
      <3> QED BY <1>0, <2>1, <2>2, <3>3, <3>4, <3>5, <3>6, RequestMoves
    <2>3. CASE Answer(u, "refused")
      <3>1. Goto(u, "done") /\ told' = [told EXCEPT ![u] = "refused"] BY <2>3 DEF Answer
      <3> QED BY <1>0, <2>1, <3>1, OnlyMoves DEF Phases
    <2>4. \A n \in IF request[u].phase = "retry" THEN {request[u].name} ELSE cast.names :
             n \in Names
      BY AccountAssumption DEF Inv, RequestInv, RequestTypes, Requested
    <2> QED BY <1>1, <2>2, <2>3, <2>4 DEF UpgradeReads
  <1>2. CASE UpgradeTransacts(u)
    <2>1. /\ UNCHANGED <<identity, marked, late>> /\ request[u].phase = "upgrade"
          /\ request[u].name \in Names /\ request[u] \in Requests
      BY <1>0, <1>2 DEF UpgradeTransacts, Inv, RequestInv, RequestTypes, Requested
    <2>2. CASE UpgradeHolds(request[u])
      <3>1. /\ UpgradeWrites(request[u], u) /\ Goto(u, "done")
            /\ told' = [told EXCEPT ![u] = "upgraded"]
        BY <1>2, <2>2 DEF UpgradeTransacts, Answer
      <3>2. /\ DataInv' /\ Keeps /\ ~account'[Guest].guest
            /\ account'[Guest].password = u /\ account'[Guest].name = request[u].name
        BY <2>1, <2>2, <3>1, UpgradeData DEF Inv
      <3>3. PICK q \in Requests : /\ request' = [request EXCEPT ![u] = q]
                                  /\ q.phase = "done" /\ q.name = request[u].name
        BY <1>0, <3>1, GotoNamed
      <3>4. late' \subseteq LateTransactions /\ late' \ late = {}
        BY <2>1 DEF Inv, RequestInv, RequestTypes
      <3> QED BY <1>0, <2>1, <3>1, <3>2, <3>3, <3>4, RequestMoves
    <2>3. CASE ~UpgradeHolds(request[u])
      <3>1. Goto(u, "check") /\ UNCHANGED <<account, index, told>>
        BY <1>2, <2>3 DEF UpgradeTransacts
      <3> QED BY <1>0, <2>1, <3>1, OnlyMoves DEF Phases
    <2> QED BY <2>2, <2>3
  <1>3. CASE UpgradeUnanswered(u)
    <2>1. /\ UNCHANGED <<account, index, identity, marked, told>>
          /\ request[u].phase = "upgrade" /\ Goto(u, "check")
          /\ late' = late \cup {[kind |-> "upgrade", by |-> u, req |-> request[u]]}
          /\ request[u].name \in Names
      BY <1>3 DEF UpgradeUnanswered, Inv, RequestInv, Requested
    <2>2. DataInv' /\ Keeps BY <2>1, NothingWritten DEF Inv
    <2>3. PICK q \in Requests : /\ request' = [request EXCEPT ![u] = q]
                                /\ q.phase = "check" /\ q.name = request[u].name
      BY <1>0, <2>1, GotoNamed
    <2>4. /\ late' \subseteq LateTransactions
          /\ \A t \in late' \ late : t.kind = "upgrade" /\ t.by = u /\ t.req = request[u]
      BY <1>0, <2>1, LateTyped
    <2> QED BY <1>0, <2>1, <2>2, <2>3, <2>4, RequestMoves
  <1>4. CASE UpgradeChecks(u)
    <2>1. /\ UNCHANGED <<account, index, identity, marked, late>>
          /\ request[u].phase = "check" /\ request[u].name \in Names
      BY <1>4 DEF UpgradeChecks, Inv, RequestInv, Requested
    <2>2. \/ Goto(u, "retry") /\ UNCHANGED told
          \/ \E a : /\ Goto(u, "done") /\ told' = [told EXCEPT ![u] = a]
                    /\ a = "upgraded" => ~account[Guest].guest /\ Mine(u)
      BY <1>4 DEF UpgradeChecks, Answer
    <2> QED BY <1>0, <2>1, <2>2, OnlyMoves DEF Phases, Mine
  <1> QED BY <1>1, <1>2, <1>3, <1>4

\* Every step of a launch keeps the invariant.
LEMMA LaunchSteps ==
    ASSUME Inv, UNCHANGED cast, NEW l \in Launches,
           \/ \E c \in BOOLEAN : Resolve(l, c)
           \/ Claim(l) \/ ClaimUnanswered(l) \/ CreateLinked(l) \/ CreateUnanswered(l)
    PROVE  Inv'
  <1>0. l \in Processes /\ l \notin Upgrades /\ l \in Upgrades \cup Launches \cup Effects
    BY Distinct, AccountAssumption
  <1>1. CASE \E c \in BOOLEAN : Resolve(l, c)
    <2>1. /\ UNCHANGED <<account, index, identity, marked, late>>
          /\ request[l].phase # "done"
      BY <1>1 DEF Resolve
    <2>2. \/ Goto(l, "done") /\ told' = [told EXCEPT ![l] = identity]
          \/ \E phase \in {"claim", "create"} : Goto(l, phase) /\ UNCHANGED told
      BY <1>1 DEF Resolve, Answer
    <2> QED BY <1>0, <2>1, <2>2, OnlyMoves DEF Phases
  <1>2. CASE Claim(l)
    <2>1. UNCHANGED <<index, marked, late>> /\ request[l].phase = "claim"
      BY <1>2 DEF Claim
    <2>2. CASE ClaimHolds
      <3>1. ClaimWrites /\ Goto(l, "done") /\ told' = [told EXCEPT ![l] = Guest]
        BY <1>2, <2>2 DEF Claim, Answer
      <3>2. DataInv' /\ Keeps /\ identity' = Guest
        BY <2>1, <2>2, <3>1, ClaimData DEF Inv
      <3>3. PICK q \in Requests : request' = [request EXCEPT ![l] = q] /\ q.phase = "done"
        BY <1>0, <3>1, GotoNamed
      <3>4. late' \subseteq LateTransactions /\ late' \ late = {}
        BY <2>1 DEF Inv, RequestInv, RequestTypes
      <3> QED BY <1>0, <2>1, <3>1, <3>2, <3>3, <3>4, RequestMoves
    <2>3. CASE ~ClaimHolds
      <3>1. Goto(l, "claim failed") /\ UNCHANGED <<account, identity, told>>
        BY <1>2, <2>3 DEF Claim
      <3> QED BY <1>0, <2>1, <3>1, OnlyMoves DEF Phases
    <2> QED BY <2>2, <2>3
  <1>3. CASE ClaimUnanswered(l)
    <2>1. /\ UNCHANGED <<account, index, identity, marked, told>>
          /\ request[l].phase = "claim" /\ Goto(l, "claim failed")
          /\ late' = late \cup {[kind |-> "claim", by |-> l, req |-> request[l]]}
      BY <1>3 DEF ClaimUnanswered
    <2>2. DataInv' /\ Keeps BY <2>1, NothingWritten DEF Inv
    <2>3. PICK q \in Requests : /\ request' = [request EXCEPT ![l] = q]
                                /\ q.phase = "claim failed"
      BY <1>0, <2>1, GotoNamed
    <2>4. /\ late' \subseteq LateTransactions
          /\ \A t \in late' \ late : t.kind = "claim"
      BY <1>0, <2>1, LateTyped
    <2> QED BY <1>0, <2>1, <2>2, <2>3, <2>4, RequestMoves
  <1>4. CASE CreateLinked(l)
    <2>1. UNCHANGED <<index, marked, late>> /\ request[l].phase = "create"
      BY <1>4 DEF CreateLinked
    <2>2. CASE identity = None
      <3>1. CreateWrites(l) /\ Goto(l, "done") /\ told' = [told EXCEPT ![l] = l]
        BY <1>4, <2>2 DEF CreateLinked, Answer
      <3>2. DataInv' /\ Keeps /\ identity' = l
        BY <2>1, <2>2, <3>1, CreateData DEF Inv
      <3>3. PICK q \in Requests : request' = [request EXCEPT ![l] = q] /\ q.phase = "done"
        BY <1>0, <3>1, GotoNamed
      <3>4. late' \subseteq LateTransactions /\ late' \ late = {}
        BY <2>1 DEF Inv, RequestInv, RequestTypes
      <3> QED BY <1>0, <2>1, <3>1, <3>2, <3>3, <3>4, RequestMoves
    <2>3. CASE identity # None
      <3>1. Goto(l, "create failed") /\ UNCHANGED <<account, identity, told>>
        BY <1>4, <2>3 DEF CreateLinked
      <3> QED BY <1>0, <2>1, <3>1, OnlyMoves DEF Phases
    <2> QED BY <2>2, <2>3
  <1>5. CASE CreateUnanswered(l)
    <2>1. /\ UNCHANGED <<account, index, identity, marked, told>>
          /\ request[l].phase = "create" /\ Goto(l, "create failed")
          /\ late' = late \cup {[kind |-> "create", by |-> l, req |-> request[l]]}
      BY <1>5 DEF CreateUnanswered
    <2>2. DataInv' /\ Keeps BY <2>1, NothingWritten DEF Inv
    <2>3. PICK q \in Requests : /\ request' = [request EXCEPT ![l] = q]
                                /\ q.phase = "create failed"
      BY <1>0, <2>1, GotoNamed
    <2>4. /\ late' \subseteq LateTransactions
          /\ \A t \in late' \ late : t.kind = "create" /\ t.by = l
      BY <1>0, <2>1, LateTyped
    <2> QED BY <1>0, <2>1, <2>2, <2>3, <2>4, RequestMoves
  <1> QED BY <1>1, <1>2, <1>3, <1>4, <1>5

\* Every step of a progress effect keeps the invariant.
LEMMA EffectSteps ==
    ASSUME Inv, UNCHANGED cast, NEW e \in Effects,
           EffectReads(e) \/ EffectTransacts(e) \/ EffectUnanswered(e)
    PROVE  Inv'
  <1>0. /\ e \in Processes /\ e \notin Upgrades /\ e \notin Launches
        /\ e \in Upgrades \cup Launches \cup Effects
    BY Distinct, AccountAssumption
  <1>1. CASE EffectReads(e)
    <2>1. /\ UNCHANGED <<account, index, identity, marked, late, told>>
          /\ request[e].phase = "start" /\ Read(e, account[Guest].name, "effect")
      BY <1>1 DEF EffectReads
    <2>2. PICK q : q = [phase |-> "effect", name |-> account[Guest].name,
                        seen |-> account[Guest]] OBVIOUS
    <2>3. account[Guest] \in Accounts BY Distinct DEF Inv, DataInv, DataTypes
    <2>4. q \in Requests /\ q.seen = account[Guest]
      BY <2>2, <2>3 DEF Requests, Phases, Accounts
    <2>5. WillBeTrue(q.seen) BY <2>1, <2>4 DEF WillBeTrue
    <2>6. request' = [request EXCEPT ![e] = q] BY <2>1, <2>2 DEF Read
    <2>7. DataInv' /\ Keeps BY <2>1, NothingWritten DEF Inv
    <2>8. late' \subseteq LateTransactions /\ late' \ late = {}
      BY <2>1 DEF Inv, RequestInv, RequestTypes
    <2> QED BY <1>0, <2>1, <2>4, <2>5, <2>6, <2>7, <2>8, RequestMoves
  <1>2. CASE EffectTransacts(e)
    <2>1. /\ UNCHANGED <<identity, late>> /\ request[e].phase = "effect"
          /\ StillTrue(request[e].seen) /\ request[e] \in Requests
      BY <1>0, <1>2 DEF EffectTransacts, Inv, RequestInv, RequestTypes, Requested
    <2>2. request[e].seen \in Accounts BY <2>1 DEF Requests
    <2>3. CASE EffectHolds(e, request[e].seen)
      <3>1. /\ EffectWrites(e, request[e].seen) /\ Goto(e, "done")
            /\ told' = [told EXCEPT ![e] = "applied"]
        BY <1>2, <2>3 DEF EffectTransacts, Answer
      <3>2. DataInv' /\ Keeps BY <2>1, <2>2, <2>3, <3>1, EffectData DEF Inv
      <3>3. PICK q \in Requests : request' = [request EXCEPT ![e] = q] /\ q.phase = "done"
        BY <1>0, <3>1, GotoNamed
      <3>4. late' \subseteq LateTransactions /\ late' \ late = {}
        BY <2>1 DEF Inv, RequestInv, RequestTypes
      <3> QED BY <1>0, <2>1, <3>1, <3>2, <3>3, <3>4, RequestMoves
    <2>4. CASE ~EffectHolds(e, request[e].seen)
      <3>1. Goto(e, "start") /\ UNCHANGED <<account, index, marked, told>>
        BY <1>2, <2>4 DEF EffectTransacts
      <3> QED BY <1>0, <2>1, <3>1, OnlyMoves DEF Phases
    <2> QED BY <2>3, <2>4
  <1>3. CASE EffectUnanswered(e)
    <2>1. /\ UNCHANGED <<account, index, identity, marked, told>>
          /\ request[e].phase = "effect" /\ Goto(e, "start")
          /\ late' = late \cup {[kind |-> "effect", by |-> e, req |-> request[e]]}
      BY <1>3 DEF EffectUnanswered
    <2>2. DataInv' /\ Keeps BY <2>1, NothingWritten DEF Inv
    <2>3. WillBeTrue(request[e].seen)
      BY <1>0, <2>1, <2>2, SeenKeeps DEF Inv, RequestInv, Requested
    <2>4. PICK phase \in Phases : phase = "start" BY DEF Phases
    <2>5. Goto(e, phase) BY <2>1, <2>4
    <2>6. PICK q \in Requests : request' = [request EXCEPT ![e] = q] /\ q.phase = phase
      BY <1>0, <2>5, GotoMoves
    <2>7. /\ late' \subseteq LateTransactions
          /\ \A t \in late' \ late : t.kind = "effect" /\ t.by = e /\ t.req = request[e]
      BY <1>0, <2>1, LateTyped
    <2> QED BY <1>0, <2>1, <2>2, <2>3, <2>4, <2>6, <2>7, RequestMoves
  <1> QED BY <1>1, <1>2, <1>3

\* A transaction that arrives late is held to the same conditions.
LEMMA LateSteps ==
    ASSUME Inv, UNCHANGED cast, NEW t \in late, LateTransaction(t) PROVE Inv'
  <1>0. /\ UNCHANGED <<request, told>> /\ late' = late \ {t} /\ t \in LateTransactions
        /\ t.req \in Requests
    BY DEF LateTransaction, Inv, RequestInv, RequestTypes, LateTransactions
  <1>1. DataInv' /\ Keeps
    <2>1. CASE t.kind = "upgrade" /\ UpgradeHolds(t.req)
      <3>1. UpgradeWrites(t.req, t.by) /\ UNCHANGED <<identity, marked>>
        BY <2>1 DEF LateTransaction
      <3>2. t.by \in Upgrades /\ t.req.name \in Names
        BY <2>1 DEF Inv, RequestInv, Requested
      <3> QED BY <1>0, <2>1, <3>1, <3>2, UpgradeData DEF Inv
    <2>2. CASE t.kind = "claim" /\ ClaimHolds
      <3>1. ClaimWrites /\ UNCHANGED <<index, marked>> BY <2>2 DEF LateTransaction
      <3> QED BY <2>2, <3>1, ClaimData DEF Inv
    <2>3. CASE t.kind = "effect" /\ EffectHolds(t.by, t.req.seen)
      <3>1. EffectWrites(t.by, t.req.seen) /\ UNCHANGED identity
        BY <2>3 DEF LateTransaction
      <3>2. t.by \in Effects /\ StillTrue(t.req.seen)
        BY <2>3 DEF Inv, RequestInv, Requested
      <3>3. t.req.seen \in Accounts BY <1>0 DEF Requests
      <3> QED BY <2>3, <3>1, <3>2, <3>3, EffectData DEF Inv
    <2>4. CASE t.kind = "create" /\ identity = None
      <3>1. CreateWrites(t.by) /\ UNCHANGED <<index, marked>> BY <2>4 DEF LateTransaction
      <3>2. t.by \in Launches BY <2>4 DEF Inv, RequestInv, Requested
      <3> QED BY <2>4, <3>1, <3>2, CreateData DEF Inv
    <2>5. CASE UNCHANGED <<account, index, identity, marked>>
      BY <2>5, NothingWritten DEF Inv
    <2> QED BY <2>1, <2>2, <2>3, <2>4, <2>5 DEF LateTransaction
  <1>2. RequestTypes' BY <1>0 DEF Inv, RequestInv, RequestTypes
  <1>3. Reserved'
    <2>1. account'[Newcomer] = account[Newcomer] BY <1>1 DEF Keeps
    <2>2. request[Newcomer].phase # "start" =>
              index'[request[Newcomer].name] = [owner |-> Newcomer, xp |-> 0]
      BY <1>1 DEF Keeps, Inv, RequestInv, Reserved
    <2> QED BY <1>0, <2>1, <2>2 DEF Inv, RequestInv, Reserved, Registered, NoAccount
  <1>4. Requested'
    <2>1. \A p \in Processes : request[p].phase = "effect" => WillBeTrue(request[p].seen)
      BY <1>1, SeenKeeps DEF Inv, RequestInv, Requested
    <2>2. \A s \in late : s.kind = "effect" => s.by \in Effects /\ WillBeTrue(s.req.seen)
      BY <1>1, SeenKeeps DEF Inv, RequestInv, Requested
    <2> QED
      BY <1>0, <2>1, <2>2 DEF Inv, RequestInv, Requested, StillTrue, WillBeTrue
  <1>5. Answered'
    BY <1>0, <1>1, Distinct DEF Inv, RequestInv, Answered, AnswersTrue, Keeps
  <1> QED BY <1>1, <1>2, <1>3, <1>4, <1>5 DEF Inv, RequestInv

\* create_user: the reservation, then the account; and the rename of a guest.
LEMMA NewcomerSteps ==
    ASSUME Inv, UNCHANGED cast,
           (\E n \in Names : Reserve(n) \/ Rename(n)) \/ CreateUser
    PROVE  Inv'
  <1>0. /\ Newcomer \in Processes /\ request[Newcomer] \in Requests
        /\ request \in [Processes -> Requests]
    BY Distinct DEF Inv, RequestInv, RequestTypes
  <1>1. ASSUME NEW n \in Names, Reserve(n) PROVE Inv'
    <2>1. PICK q : q = [Start EXCEPT !.phase = "write", !.name = n] OBVIOUS
    <2>2. PICK row : row = [owner |-> Newcomer, xp |-> 0] OBVIOUS
    <2>3. q \in Requests /\ q.phase = "write" /\ q.name = n
      BY <2>1, AccountAssumption DEF Start, Requests, Phases, NoAccount, Accounts, None
    <2>4. /\ index[n].owner = None /\ request[Newcomer].phase = "start"
          /\ index' = [index EXCEPT ![n] = row]
          /\ request' = [request EXCEPT ![Newcomer] = q]
          /\ UNCHANGED <<account, identity, marked, late, told>>
      BY <1>1, <2>1, <2>2 DEF Reserve
    <2>5. index'[n] = row /\ \A m \in Names \ {n} : index'[m] = index[m]
      BY <2>4 DEF Inv, DataInv, DataTypes
    <2>6. request'[Newcomer] = q
          /\ \A p \in Processes \ {Newcomer} : request'[p] = request[p]
      BY <1>0, <2>4
    <2>7. DataTypes' BY <2>2, <2>4, Distinct DEF Inv, DataInv, DataTypes
    <2>8. MirrorExact'
      <3> SUFFICES ASSUME NEW u \in Users, account[u].exists, Mirrored(account[u])
                   PROVE  index'[account[u].name] = [owner |-> u, xp |-> account[u].xp]
        BY <2>4 DEF MirrorExact, Mirrored
      <3>1. index[account[u].name] = [owner |-> u, xp |-> account[u].xp]
        BY DEF Inv, DataInv, MirrorExact
      <3>2. account[u].name \in Names
        BY Distinct DEF Inv, DataInv, AccountKinds, Mirrored
      <3>3. account[u].name # n BY <2>4, <3>1, Distinct
      <3> QED BY <2>5, <3>1, <3>2, <3>3
    <2>9. XpExact' /\ IdentityUnique' /\ AccountKinds'
      BY <2>4 DEF Inv, DataInv, XpExact, IdentityUnique, AccountKinds
    <2>10. RequestTypes' BY <2>3, <2>4, <2>6, <1>0 DEF Inv, RequestInv, RequestTypes
    <2>11. Reserved'
      BY <2>2, <2>3, <2>4, <2>5, <2>6 DEF Inv, RequestInv, Reserved
    <2>12. Requested'
      BY <2>3, <2>4, <2>6, Distinct DEF Inv, RequestInv, Requested, StillTrue
    <2>13. Answered'
      BY <2>4, <2>6, Distinct DEF Inv, RequestInv, Answered, AnswersTrue
    <2> QED BY <2>7, <2>8, <2>9, <2>10, <2>11, <2>12, <2>13 DEF Inv, DataInv, RequestInv
  <1>2. ASSUME NEW n \in Names, Rename(n) PROVE Inv'
    <2>1. PICK a : a = [account[Guest] EXCEPT !.name = n] OBVIOUS
    <2>2. account[Guest] \in Accounts /\ account[Guest].guest
      BY <1>2, Distinct DEF Rename, Inv, DataInv, DataTypes
    <2>3. /\ a \in Accounts /\ a.guest = account[Guest].guest /\ a.name = n
          /\ a.linked = account[Guest].linked /\ a.password = account[Guest].password
          /\ a.xp = account[Guest].xp /\ a.exists = account[Guest].exists
      BY <2>1, <2>2 DEF Accounts
    <2>4. /\ account' = [account EXCEPT ![Guest] = a]
          /\ UNCHANGED <<index, identity, marked, request, late, told>>
      BY <1>2, <2>1 DEF Rename
    <2>5. account'[Guest] = a /\ \A u \in Users \ {Guest} : account'[u] = account[u]
      BY <2>4, Distinct DEF Inv, DataInv, DataTypes
    <2>6. DataTypes' BY <2>3, <2>4 DEF Inv, DataInv, DataTypes
    <2>7. MirrorExact'
      BY <2>2, <2>3, <2>4, <2>5 DEF Inv, DataInv, MirrorExact, Mirrored
    <2>8. XpExact' /\ IdentityUnique' /\ AccountKinds'
      BY <2>3, <2>4, <2>5, Distinct DEF Inv, DataInv, XpExact, IdentityUnique, AccountKinds
    <2>9. RequestTypes' BY <2>4 DEF Inv, RequestInv, RequestTypes
    <2>10. Reserved'
      BY <2>4, <2>5, Distinct DEF Inv, RequestInv, Reserved, Registered, NoAccount
    <2>11. Requested'
      BY <2>2, <2>3, <2>4, <2>5, Distinct DEF Inv, RequestInv, Requested, StillTrue
    <2>12. Answered'
      BY <2>2, <2>4 DEF Inv, RequestInv, Answered, AnswersTrue
    <2> QED BY <2>6, <2>7, <2>8, <2>9, <2>10, <2>11, <2>12 DEF Inv, DataInv, RequestInv
  <1>3. CASE CreateUser
    <2>1. PICK a : a = Registered(request[Newcomer].name, Newcomer) OBVIOUS
    <2>2. PICK q : q = [request[Newcomer] EXCEPT !.phase = "done"] OBVIOUS
    <2>3. /\ q \in Requests /\ q.phase = "done" /\ q.name = request[Newcomer].name
      BY <1>0, <2>2 DEF Requests, Phases
    <2>4. /\ request[Newcomer].phase = "write" /\ account' = [account EXCEPT ![Newcomer] = a]
          /\ request' = [request EXCEPT ![Newcomer] = q]
          /\ told' = [told EXCEPT ![Newcomer] = Newcomer]
          /\ UNCHANGED <<index, identity, marked, late>>
      BY <1>3, <2>1, <2>2 DEF CreateUser, Answer, Goto
    <2>5. /\ request[Newcomer].name \in Names
          /\ index[request[Newcomer].name] = [owner |-> Newcomer, xp |-> 0]
      BY <2>4 DEF Inv, RequestInv, Reserved
    <2>6. /\ a \in Accounts /\ a.exists = TRUE /\ a.linked = FALSE /\ a.xp = 0
          /\ a.name = request[Newcomer].name
      BY <2>1, <2>5 DEF Registered, NoAccount, Accounts
    <2>7. account'[Newcomer] = a /\ \A u \in Users \ {Newcomer} : account'[u] = account[u]
      BY <2>4, Distinct DEF Inv, DataInv, DataTypes
    <2>8. /\ request'[Newcomer] = q
          /\ \A p \in Processes \ {Newcomer} : request'[p] = request[p]
      BY <1>0, <2>4
    <2>9. \A p \in Processes \ {Newcomer} : told'[p] = told[p]
      BY <2>4 DEF Inv, RequestInv, RequestTypes
    <2>10. DataTypes' BY <2>4, <2>6 DEF Inv, DataInv, DataTypes
    <2>11. MirrorExact'
      BY <2>4, <2>5, <2>6, <2>7 DEF Inv, DataInv, MirrorExact, Mirrored
    <2>12. XpExact' /\ IdentityUnique' /\ AccountKinds'
      BY <2>4, <2>5, <2>6, <2>7, Distinct
      DEF Inv, DataInv, XpExact, IdentityUnique, AccountKinds
    <2>13. RequestTypes' BY <1>0, <2>3, <2>4 DEF Inv, RequestInv, RequestTypes
    <2>14. Reserved'
      BY <2>1, <2>3, <2>4, <2>5, <2>7, <2>8
      DEF Inv, RequestInv, Reserved, Registered, NoAccount
    <2>15. Requested'
      BY <2>3, <2>4, <2>7, <2>8, Distinct DEF Inv, RequestInv, Requested, StillTrue
    <2>16. Answered'
      BY <2>4, <2>7, <2>8, <2>9, Distinct DEF Inv, RequestInv, Answered, AnswersTrue
    <2> QED BY <2>10, <2>11, <2>12, <2>13, <2>14, <2>15, <2>16 DEF Inv, DataInv, RequestInv
  <1> QED BY <1>1, <1>2, <1>3

-----------------------------------------------------------------------------
(* The theorems.                                                           *)

\* It holds of the guest before any request.
LEMMA InitInv == Init => Inv
  <1> SUFFICES ASSUME Init PROVE Inv OBVIOUS
  <1>1. /\ NoAccount \in Accounts /\ Start \in Requests
        /\ NoAccount.exists = FALSE /\ NoAccount.linked = FALSE /\ NoAccount.guest = FALSE
        /\ NoAccount.xp = 0 /\ Start.phase = "start"
    BY DEF NoAccount, Accounts, Start, Requests, Phases
  <1>2. PICK g : g = [Registered(Nickname, None) EXCEPT !.guest = TRUE] OBVIOUS
  <1>3. /\ g \in Accounts /\ g.exists = TRUE /\ g.guest = TRUE /\ g.linked = FALSE
        /\ g.password = None /\ g.xp = 0 /\ g.name = Nickname
    BY <1>2, AccountAssumption DEF Registered, NoAccount, Accounts
  <1>4. account[Guest] = g /\ \A u \in Users \ {Guest} : account[u] = NoAccount
    BY <1>2, Distinct DEF Init
  <1>5. account \in [Users -> Accounts] BY <1>1, <1>2, <1>3 DEF Init
  <1>6. DataTypes BY <1>5 DEF Init, DataTypes, NoRow
  <1>7. MirrorExact /\ IdentityUnique
    BY <1>1, <1>3, <1>4, Distinct DEF Init, MirrorExact, IdentityUnique, Mirrored
  <1>8. XpExact BY <1>3, <1>4, FS_EmptySet DEF Init, XpExact
  <1>9. AccountKinds BY <1>1, <1>3, <1>4, Distinct, AccountAssumption DEF AccountKinds
  <1>10. RequestTypes BY <1>1 DEF Init, RequestTypes
  <1>11. Reserved BY <1>1, <1>4, Distinct DEF Init, Reserved
  <1>12. Requested BY <1>1, Distinct DEF Init, Requested
  <1>13. Answered BY Distinct DEF Init, Answered, AnswersTrue, None
  <1> QED
    BY <1>6, <1>7, <1>8, <1>9, <1>10, <1>11, <1>12, <1>13 DEF Inv, DataInv, RequestInv

\* Every step keeps it.
LEMMA StepInv == Inv /\ [Next]_<<vars, cast>> => Inv'
  <1> SUFFICES ASSUME Inv, [Next]_<<vars, cast>> PROVE Inv' OBVIOUS
  <1>1. CASE UNCHANGED <<vars, cast>>
    <2>1. DataInv' BY <1>1, NothingWritten DEF vars, Inv
    <2>2. RequestInv'
      BY <1>1 DEF vars, Inv, RequestInv, RequestTypes, Reserved, Requested, StillTrue,
                  Answered, AnswersTrue, Registered, NoAccount
    <2> QED BY <2>1, <2>2 DEF Inv
  <1>2. cast.names \subseteq Names
    BY AccountAssumption DEF Inv, RequestInv, RequestTypes
  <1>3. ASSUME UNCHANGED cast, (\E n \in cast.names : Reserve(n) \/ Rename(n)) \/ CreateUser
        PROVE  Inv'
    BY <1>2, <1>3, NewcomerSteps
  <1>4. ASSUME UNCHANGED cast, NEW u \in Upgrades,
               \/ UpgradeReads(u) \/ UpgradeTransacts(u) \/ UpgradeUnanswered(u)
               \/ UpgradeChecks(u)
        PROVE  Inv'
    BY <1>4, UpgradeSteps
  <1>5. ASSUME UNCHANGED cast, NEW l \in Launches,
               \/ \E c \in BOOLEAN : Resolve(l, c)
               \/ Claim(l) \/ ClaimUnanswered(l) \/ CreateLinked(l) \/ CreateUnanswered(l)
        PROVE  Inv'
    BY <1>5, LaunchSteps
  <1>6. ASSUME UNCHANGED cast, NEW e \in Effects,
               EffectReads(e) \/ EffectTransacts(e) \/ EffectUnanswered(e)
        PROVE  Inv'
    BY <1>6, EffectSteps
  <1>7. ASSUME UNCHANGED cast, NEW t \in late, LateTransaction(t) PROVE Inv'
    BY <1>7, LateSteps
  <1> QED BY <1>1, <1>3, <1>4, <1>5, <1>6, <1>7 DEF Next

\* The invariant, along every behaviour.
THEOREM AccountInvariant == Spec => []Inv
  BY InitInv, StepInv, PTL DEF Spec

\* However a registration, a claim, a rename and finishing games interleave, and
\* whichever of their transactions arrives late: a password account owns the row
\* of its name and the row shows its progress, every game is credited once, and
\* an identity is one user (upgrade_guest_to_account, resolve_crazygames_account
\* and the AddXp effect).
THEOREM AccountStaysExact == Spec => []AccountExact
  <1>1. Inv => AccountExact
    <2> SUFFICES ASSUME Inv PROVE AccountExact OBVIOUS
    <2>1. \A u \in Users : account[u].name \in Names \cup {None, Profile}
                           /\ account[u].xp \in Nat
      BY DEF Inv, DataInv, DataTypes, Accounts
    <2>2. account[Guest].xp <= Cardinality(Effects) /\ Cardinality(Effects) \in Nat
      BY AccountAssumption, FS_Subset, FS_CardinalityType
      DEF Inv, DataInv, DataTypes, XpExact
    <2>3. \A u \in Users \ {Guest} : account[u].xp = 0 BY DEF Inv, DataInv, AccountKinds
    <2>4. TypeOK BY <2>1, <2>2, <2>3 DEF TypeOK, Inv, DataInv, DataTypes
    <2> QED BY <2>4 DEF AccountExact, Inv, DataInv
  <1> QED BY <1>1, AccountInvariant, PTL

\* An answer stays true: whoever was told that the guest became their account can
\* log in to it, and every launch was told the same user.
THEOREM AnswersStayTrue == Spec => []AnswersTrue
  <1>1. Inv => AnswersTrue BY DEF Inv, RequestInv, Answered
  <1> QED BY <1>1, AccountInvariant, PTL

====
