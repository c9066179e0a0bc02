------------------------ MODULE LobbyMembershipProofs ------------------------
(***************************************************************************)
(* The two slots of a lobby agree, and a lobby is queued with exactly the  *)
(* users that are its members at that moment: proved for any number of     *)
(* joins, leaves, users, gateways, lost answers and deaths, whatever       *)
(* finalizers arrive late and whatever reservations and leases run out.    *)
(***************************************************************************)
EXTENDS LobbyMembership, TLAPS

-----------------------------------------------------------------------------
(* The inductive invariant.                                                *)

JoinStates == {"idle", "refused", "touch", "undo", "unfence", "finalize", "prepare", "prove",
               "remove", "release_in", "release_out", "failed", "lost", "dead", "verify",
               "joined", "gone"}

MetaInv ==
  /\ DOMAIN meta = {"state", "readers", "break", "roster", "resolved", "queue"}
  /\ meta.state \in {"waiting", "ad_break", "queued"} /\ meta.readers \subseteq Gateways
  /\ meta.roster \subseteq Users /\ meta.queue \subseteq Users
  /\ meta.resolved \subseteq meta.roster
  /\ meta.state = "ad_break" <=> meta.break # 0
  /\ meta.state = "ad_break" <=> meta.roster # {}
  /\ meta.state = "queued" <=> meta.queue # {}

FenceTypes == lapsed \subseteq fence /\ fence \subseteq Joins \cup Leaves
MemberTypes == members \subseteq Joins /\ expired \subseteq Joins
JoinTypes == join \in [Joins -> JoinStates] /\ outcome \in [Joins -> {"none", "in", "out"}]
OtherTypes == /\ DOMAIN leave = Leaves /\ DOMAIN queuer = Gateways
              /\ DOMAIN count = {"lost", "deaths", "breaks"} /\ count.breaks \in Nat

(* A reservation that stands: no script may take it for outdated. *)
Held == fence \ lapsed

(* Where a join is says what it has left in the two slots.  Until it touches
   the members nothing of it is recorded or on its way; from the reservation
   to its acceptance, or to the removal of its member, its fence stands; a
   compensation has first made every later finalizer powerless. *)
JoinInv(j) ==
  /\ join[j] = "idle" => j \notin fence
  /\ join[j] \in {"idle", "refused", "touch", "undo", "unfence"} =>
       outcome[j] = "none" /\ j \notin late
  /\ join[j] \in {"touch", "undo", "unfence"} => j \in Held
  /\ join[j] \in {"idle", "refused", "touch", "unfence", "release_out", "failed"} =>
       j \notin members
  /\ join[j] \in {"finalize", "prepare"} => outcome[j] = "in" \/ j \in Held
  /\ join[j] \in {"prove", "remove", "release_in", "release_out"} =>
       outcome[j] = "out" /\ j \in Held
  /\ join[j] = "failed" => outcome[j] # "in" /\ (outcome[j] = "none" => j \notin late)
  /\ join[j] \in {"lost", "dead"} => j \notin members \/ outcome[j] = "in" \/ j \in Held

LeaveInv(l) == leave[l] \in {"remove", "finish"} => l \in Held

(* A gateway whose revision is still the present one knows the members, unless
   a change is under way, or a lease it saw has run out. *)
QueuerInv(g) ==
  LET q == queuer[g] IN
  /\ DOMAIN q = {"at", "mode", "break", "snap"} /\ q.snap \subseteq Joins
  /\ q.mode = "begin" => count.breaks > 0
  /\ q.at = "script" => q.snap # {}
  /\ (q.at = "script" /\ g \in meta.readers) =>
       fence # {} \/ q.snap \cap expired # {} \/ members = q.snap

Types == MetaInv /\ FenceTypes /\ MemberTypes /\ JoinTypes /\ OtherTypes

Inv == /\ Types
       /\ \A j \in Joins : JoinInv(j)
       /\ \A l \in Leaves : LeaveInv(l)
       /\ \A g \in Gateways : QueuerInv(g)

-----------------------------------------------------------------------------
(* What a step may do to the metadata, the reservations and the bounds.    *)

(* The revision is incremented, or a break ends, or neither. *)
MetaMoves ==
  \/ meta' = meta \/ meta' = [meta EXCEPT !.readers = {}]
  \/ /\ meta.state = "ad_break"
     /\ meta' = NoBreak(meta) \/ meta' = [NoBreak(meta) EXCEPT !.readers = {}]

(* Reservations change only with the revision. *)
Announced == meta'.readers = {} \/ (meta'.readers = meta.readers /\ fence' = fence)

(* The reservations of others that stand are left standing, and none is added. *)
FencesKeep(c) ==
  \A x \in Joins \cup Leaves :
    x # c => (x \in Held => x \in Held') /\ (x \in fence' => x \in fence)

(* The metadata slot after a step in the name of c. *)
SlotMoves(c) == MetaMoves /\ Announced /\ FencesKeep(c) /\ FenceTypes'

CountMoves == \/ count' = count \/ count' = [count EXCEPT !.lost = @ + 1]
              \/ count' = [count EXCEPT !.deaths = @ + 1]

(* RosterExact, of one step. *)
RosterStep ==
  /\ (meta.state = "waiting" /\ meta'.state = "ad_break") => meta'.roster = UsersIn(members)
  /\ (meta.state # "queued" /\ meta'.state = "queued") => meta'.queue = UsersIn(members)

(* A break that does not begin and a queue that is not entered have no roster. *)
LEMMA NoRoster ==
  ASSUME MetaInv, MetaMoves \/ meta'.state = meta.state \/ meta'.state = "waiting"
  PROVE  RosterStep
  <1>1. meta'.state = meta.state \/ meta'.state = "waiting"
    BY DEF MetaInv, MetaMoves, NoBreak
  <1> QED BY <1>1 DEF RosterStep

(* The metadata stays consistent. *)
LEMMA MetaKept == ASSUME MetaInv, MetaMoves PROVE MetaInv'
  <1>1. CASE meta' = meta BY <1>1 DEF MetaInv
  <1>2. CASE meta' = [meta EXCEPT !.readers = {}]
    <2>1. /\ DOMAIN meta' = DOMAIN meta /\ meta'.state = meta.state /\ meta'.readers = {}
          /\ meta'.break = meta.break /\ meta'.roster = meta.roster
          /\ meta'.resolved = meta.resolved /\ meta'.queue = meta.queue
      BY <1>2 DEF MetaInv
    <2> QED BY <2>1 DEF MetaInv
  <1>3. CASE /\ meta.state = "ad_break"
             /\ meta' = NoBreak(meta) \/ meta' = [NoBreak(meta) EXCEPT !.readers = {}]
    <2>1. /\ DOMAIN meta' = DOMAIN meta /\ meta'.state = "waiting"
          /\ meta'.readers = {} \/ meta'.readers = meta.readers
          /\ meta'.break = 0 /\ meta'.roster = {} /\ meta'.resolved = {}
          /\ meta'.queue = meta.queue
      BY <1>3 DEF MetaInv, NoBreak
    <2> QED BY <1>3, <2>1 DEF MetaInv
  <1> QED BY <1>1, <1>2, <1>3 DEF MetaMoves

(* The bounds used. *)
LEMMA CountKept ==
  ASSUME OtherTypes, CountMoves
  PROVE  DOMAIN count' = {"lost", "deaths", "breaks"} /\ count'.breaks = count.breaks
  BY DEF OtherTypes, CountMoves

(* A join that is not moved keeps its place when nothing is done in its name. *)
LEMMA OtherJoin ==
  ASSUME NEW x \in Joins, JoinInv(x), join'[x] = join[x], outcome'[x] = outcome[x],
         x \in late' => x \in late, x \in members' => x \in members,
         x \in Held => x \in Held', x \in fence' => x \in fence
  PROVE  JoinInv(x)'
  BY DEF JoinInv

(* A gateway that is not moved still knows what it knows. *)
LEMMA OtherQueuer ==
  ASSUME NEW g \in Gateways, QueuerInv(g), queuer'[g] = queuer[g],
         count'.breaks >= count.breaks, count.breaks \in Nat, count'.breaks \in Nat,
         g \in meta'.readers => g \in meta.readers /\ fence' = fence,
         expired \subseteq expired',
         members' = members \/ fence # {} \/ \E x \in members : x \in expired'
  PROVE  QueuerInv(g)'
  <1> DEFINE q == queuer[g]
  <1>1. /\ DOMAIN q = {"at", "mode", "break", "snap"} /\ q.snap \subseteq Joins
        /\ q.mode = "begin" => count'.breaks > 0
        /\ q.at = "script" => q.snap # {}
    BY DEF QueuerInv
  <1>2. (q.at = "script" /\ g \in meta'.readers) =>
          fence' # {} \/ q.snap \cap expired' # {} \/ members' = q.snap
    BY DEF QueuerInv
  <1> HIDE DEF q
  <1>3. queuer'[g] = q BY DEF q
  <1> QED BY <1>1, <1>2, <1>3 DEF QueuerInv

(* A step of one join. *)
JoinFrame(j) ==
  /\ SlotMoves(j) /\ CountMoves
  /\ join' = [join EXCEPT ![j] = join'[j]] /\ outcome' = [outcome EXCEPT ![j] = outcome'[j]]
  /\ join'[j] \in JoinStates /\ outcome'[j] \in {"none", "in", "out"}
  /\ late' \subseteq late \cup {j} /\ members' \subseteq members \cup {j}
  /\ members' = members \/ fence # {}
  /\ UNCHANGED <<expired, leave, queuer>>

(* It is enough to look at that join. *)
LEMMA JoinMoves ==
  ASSUME Inv, NEW j \in Joins, JoinFrame(j), JoinInv(j)'
  PROVE  Inv' /\ RosterStep
  <1>1. Types'
    <2>1. MetaInv' /\ FenceTypes' BY MetaKept DEF Inv, Types, JoinFrame, SlotMoves
    <2>2. MemberTypes' BY DEF Inv, Types, MemberTypes, JoinFrame
    <2>3. JoinTypes' BY DEF Inv, Types, JoinTypes, JoinFrame
    <2>4. OtherTypes' BY CountKept DEF Inv, Types, OtherTypes, JoinFrame
    <2> QED BY <2>1, <2>2, <2>3, <2>4 DEF Types
  <1>2. ASSUME NEW x \in Joins PROVE JoinInv(x)'
    <2>1. CASE x # j
      <3>1. join'[x] = join[x] /\ outcome'[x] = outcome[x]
        BY <2>1 DEF Inv, Types, JoinTypes, JoinFrame
      <3>2. (x \in late' => x \in late) /\ (x \in members' => x \in members)
        BY <2>1 DEF JoinFrame
      <3>3. (x \in Held => x \in Held') /\ (x \in fence' => x \in fence)
        BY <2>1 DEF JoinFrame, SlotMoves, FencesKeep
      <3>4. JoinInv(x) BY DEF Inv
      <3> QED BY <3>1, <3>2, <3>3, <3>4, OtherJoin
    <2> QED BY <2>1
  <1>3. ASSUME NEW l \in Leaves PROVE LeaveInv(l)'
    <2>1. l # j BY LobbyAssumption
    <2>2. l \in Held => l \in Held' BY <2>1 DEF JoinFrame, SlotMoves, FencesKeep
    <2> QED BY <2>2 DEF JoinFrame, Inv, LeaveInv
  <1>4. ASSUME NEW g \in Gateways PROVE QueuerInv(g)'
    <2>1. /\ queuer'[g] = queuer[g] /\ expired' = expired
          /\ g \in meta'.readers => g \in meta.readers /\ fence' = fence
          /\ members' = members \/ fence # {}
      BY DEF JoinFrame, SlotMoves, Announced
    <2>2. count'.breaks = count.breaks /\ count.breaks \in Nat
      BY CountKept DEF JoinFrame, Inv, Types, OtherTypes
    <2>3. QueuerInv(g) BY DEF Inv
    <2> QED BY <2>1, <2>2, <2>3, OtherQueuer
  <1>5. RosterStep BY NoRoster DEF Inv, Types, JoinFrame, SlotMoves
  <1> QED BY <1>1, <1>2, <1>3, <1>4, <1>5 DEF Inv

(* What ChangesOnly leaves to be shown of it. *)
LEMMA GoesOnly ==
  ASSUME Inv, NEW j \in Joins, NEW at \in JoinStates, ChangesOnly(j, at),
         UNCHANGED count \/ Lose, SlotMoves(j),
         outcome' = [outcome EXCEPT ![j] = outcome'[j]], outcome'[j] \in {"none", "in", "out"},
         members' \subseteq members \cup {j}, members' = members \/ fence # {}
  PROVE  JoinFrame(j) /\ join'[j] = at /\ late' = late
  <1>1. CountMoves BY DEF CountMoves, Lose
  <1>2. join' = [join EXCEPT ![j] = at] BY DEF ChangesOnly, Goes
  <1>3. join'[j] = at BY <1>2 DEF Inv, Types, JoinTypes
  <1>4. UNCHANGED <<expired, leave, late, queuer>> BY DEF ChangesOnly
  <1> QED BY <1>1, <1>2, <1>3, <1>4 DEF JoinFrame

(* The revision is incremented or not. *)
LEMMA Bumped ==
  ASSUME MetaInv, NEW n, meta' = Bump(meta, n)
  PROVE  MetaMoves /\ (IF n = 0 THEN meta' = meta ELSE meta'.readers = {})
  BY DEF MetaInv, Bump, MetaMoves

(* A step that leaves the metadata slot alone. *)
LEMMA SlotIdle ==
  ASSUME Inv, NEW c, UNCHANGED <<meta, fence, lapsed>>
  PROVE  SlotMoves(c) /\ Held' = Held
  <1>1. MetaMoves /\ Announced BY DEF MetaMoves, Announced
  <1>2. FencesKeep(c) /\ FenceTypes' /\ Held' = Held
    BY DEF FencesKeep, Held, Inv, Types, FenceTypes
  <1> QED BY <1>1, <1>2 DEF SlotMoves

-----------------------------------------------------------------------------
(* Joining.                                                                *)

(* A reservation is made, refused or not answered. *)
LEMMA ReserveJoinInv == ASSUME Inv, NEW j \in Joins, ReserveJoin(j) PROVE Inv' /\ RosterStep
  <1> DEFINE kept == fence \ lapsed
             holds == Reconnects(UserOf[j]) /\ Cardinality(kept) < MaxFences
             cleared == IF Reconnects(UserOf[j]) /\ kept # fence THEN 1 ELSE 0
             n == IF holds THEN cleared + 1 ELSE cleared
  <1>1. /\ meta' = Bump(meta, n)
        /\ fence' = IF ~Reconnects(UserOf[j]) THEN fence
                    ELSE IF holds THEN kept \cup {j} ELSE kept
        /\ lapsed' = lapsed \cap fence'
        /\ UNCHANGED <<members, outcome>>
    BY DEF ReserveJoin
  <1>2. PICK at \in {"touch", "refused", "lost"} :
          /\ ChangesOnly(j, at) /\ (UNCHANGED count \/ Lose)
          /\ at = "touch" => holds
    BY DEF ReserveJoin
  <1>3. join[j] = "idle" /\ j \notin fence /\ outcome[j] = "none" /\ j \notin late
        /\ j \notin members
    BY DEF ReserveJoin, Inv, JoinInv
  <1>4. n = 0 => fence' = fence BY <1>1
  <1>5. j \notin lapsed BY <1>3 DEF Inv, Types, FenceTypes
  <1>6. FencesKeep(j) /\ FenceTypes' /\ (holds => j \in Held')
    BY <1>1, <1>5 DEF FencesKeep, Held, Inv, Types, FenceTypes
  <1> HIDE DEF n, holds
  <1>7. SlotMoves(j)
    <2>1. MetaMoves /\ (n = 0 => meta' = meta) /\ (n # 0 => meta'.readers = {})
      BY <1>1, Bumped DEF Inv, Types
    <2>2. Announced BY <1>4, <2>1 DEF Announced
    <2> QED BY <1>6, <2>1, <2>2 DEF SlotMoves
  <1>8. outcome' = [outcome EXCEPT ![j] = outcome'[j]] /\ outcome'[j] = "none"
    BY <1>1, <1>3 DEF Inv, Types, JoinTypes
  <1>9. JoinFrame(j) /\ join'[j] = at /\ late' = late
    <2>1. at \in JoinStates BY DEF JoinStates
    <2> QED BY <1>1, <1>2, <1>7, <1>8, <2>1, GoesOnly
  <1>10. JoinInv(j)' BY <1>1, <1>2, <1>3, <1>6, <1>8, <1>9 DEF JoinInv
  <1> QED BY <1>9, <1>10, JoinMoves

(* Steps that change the member under a reservation that stands. *)
LEMMA MemberStepInv ==
  ASSUME Inv, NEW j \in Joins, NEW at \in JoinStates, ChangesOnly(j, at),
         UNCHANGED count \/ Lose, UNCHANGED <<meta, fence, lapsed, outcome>>,
         members' \subseteq members \cup {j}, members' = members \/ j \in Held,
         join[j] \in {"touch", "undo", "remove", "prove", "verify"},
         join[j] \in {"touch", "undo"} => at \in {"undo", "finalize", "unfence", "lost"},
         join[j] \in {"remove", "prove"} => at \in {"remove", "release_in", "release_out", "lost"},
         join[j] = "verify" => at \in {"joined", "gone"},
         at \in {"unfence", "release_out"} => j \notin members'
  PROVE  Inv' /\ RosterStep
  <1>1. SlotMoves(j) /\ Held' = Held BY SlotIdle
  <1>2. outcome' = [outcome EXCEPT ![j] = outcome'[j]] /\ outcome'[j] \in {"none", "in", "out"}
        /\ outcome'[j] = outcome[j]
    BY DEF Inv, Types, JoinTypes
  <1>3. members' = members \/ fence # {} BY DEF Held
  <1>4. JoinFrame(j) /\ join'[j] = at /\ late' = late BY <1>1, <1>2, <1>3, GoesOnly
  <1>5. JoinInv(j) BY DEF Inv
  <1>6. fence' = fence OBVIOUS
  <1>7. JoinInv(j)' BY <1>1, <1>2, <1>4, <1>5, <1>6 DEF JoinInv
  <1> QED BY <1>4, <1>7, JoinMoves

(* The member is written, taken back, removed, or looked up. *)
LEMMA TouchesInv ==
  ASSUME Inv, NEW j \in Joins,
         TouchMember(j) \/ UndoTouch(j) \/ RemoveTentative(j) \/ ProveAdmission(j)
           \/ VerifyMember(j)
  PROVE  Inv' /\ RosterStep
  <1>1. join[j] \in {"touch", "undo", "remove"} => j \in Held BY DEF Inv, JoinInv
  <1>2. CASE TouchMember(j)
    <2>1. Touched(j) \subseteq members \cup {j} BY DEF Touched
    <2>2. PICK at \in {"finalize", "undo"} : ChangesOnly(j, at) /\ (UNCHANGED count \/ Lose)
      BY <1>2 DEF TouchMember
    <2>3. members' \subseteq members \cup {j} BY <1>2, <2>1 DEF TouchMember
    <2>4. join[j] = "touch" /\ UNCHANGED <<meta, fence, lapsed, outcome>>
      BY <1>2 DEF TouchMember
    <2>5. at \in JoinStates BY DEF JoinStates
    <2> QED BY <1>1, <2>2, <2>3, <2>4, <2>5, MemberStepInv
  <1>3. CASE UndoTouch(j)
    <2>2. PICK at \in {"unfence", "lost"} :
             /\ ChangesOnly(j, at) /\ (UNCHANGED count \/ Lose)
             /\ at = "unfence" => members' = members \ {j}
      BY <1>3 DEF UndoTouch
    <2>3. members' \subseteq members \cup {j} BY <1>3 DEF UndoTouch
    <2>4. join[j] = "undo" /\ UNCHANGED <<meta, fence, lapsed, outcome>>
      BY <1>3 DEF UndoTouch
    <2>5. at \in JoinStates BY DEF JoinStates
    <2> QED BY <1>1, <2>2, <2>3, <2>4, <2>5, MemberStepInv
  <1>4. CASE RemoveTentative(j)
    <2>2. PICK at \in {"release_out", "remove", "lost"} :
             /\ ChangesOnly(j, at) /\ (UNCHANGED count \/ Lose)
             /\ at = "release_out" => members' = members \ {j}
      BY <1>4 DEF RemoveTentative
    <2>3. members' \subseteq members \cup {j} BY <1>4 DEF RemoveTentative
    <2>4. join[j] = "remove" /\ UNCHANGED <<meta, fence, lapsed, outcome>>
      BY <1>4 DEF RemoveTentative
    <2>5. at \in JoinStates BY DEF JoinStates
    <2> QED BY <1>1, <2>2, <2>3, <2>4, <2>5, MemberStepInv
  <1>5. CASE ProveAdmission(j)
    <2>2. PICK at \in {"release_in", "remove", "lost"} :
             ChangesOnly(j, at) /\ (UNCHANGED count \/ Lose)
      BY <1>5 DEF ProveAdmission
    <2>4. join[j] = "prove" /\ UNCHANGED <<meta, fence, lapsed, members, outcome>>
      BY <1>5 DEF ProveAdmission
    <2>5. at \in JoinStates BY DEF JoinStates
    <2> QED BY <2>2, <2>4, <2>5, MemberStepInv
  <1>6. CASE VerifyMember(j)
    <2>2. PICK at \in {"joined", "gone"} : ChangesOnly(j, at) /\ UNCHANGED count
      BY <1>6 DEF VerifyMember
    <2>4. join[j] = "verify" /\ UNCHANGED <<meta, fence, lapsed, members, outcome>>
      BY <1>6 DEF VerifyMember
    <2>5. at \in JoinStates BY DEF JoinStates
    <2> QED BY <2>2, <2>4, <2>5, MemberStepInv
  <1> QED BY <1>2, <1>3, <1>4, <1>5, <1>6

(* A reservation is closed, and with it a break that includes its user. *)
LEMMA Closes ==
  ASSUME Inv, NEW c \in Joins \cup Leaves, CloseFence(c)
  PROVE  SlotMoves(c)
  <1>1. MetaMoves /\ meta'.readers = {}
    <2> DEFINE m == IF meta.state = "ad_break" /\ c \in fence /\ UserOf[c] \in meta.roster
                    THEN NoBreak(meta) ELSE meta
    <2>1. /\ meta' = [m EXCEPT !.readers = {}]
          /\ m = meta \/ (meta.state = "ad_break" /\ m = NoBreak(meta))
      BY DEF CloseFence, FinishedMeta, Bump
    <2> HIDE DEF m
    <2>2. DOMAIN m = {"state", "readers", "break", "roster", "resolved", "queue"}
      BY <2>1 DEF NoBreak, Inv, Types, MetaInv
    <2> QED BY <2>1, <2>2 DEF MetaMoves
  <1>2. FencesKeep(c) /\ FenceTypes'
    BY DEF CloseFence, FencesKeep, Held, Inv, Types, FenceTypes
  <1> QED BY <1>1, <1>2 DEF SlotMoves, Announced

(* The fence of a touch that failed is closed, or the answer is lost. *)
LEMMA UnfenceInv == ASSUME Inv, NEW j \in Joins, Unfence(j) PROVE Inv' /\ RosterStep
  <1>1. PICK at \in {"failed", "lost"} : ChangesOnly(j, at) /\ (UNCHANGED count \/ Lose)
    BY DEF Unfence
  <1>2. /\ CloseFence(j) \/ UNCHANGED <<meta, fence, lapsed>>
        /\ UNCHANGED <<members, outcome>> /\ join[j] = "unfence"
    BY DEF Unfence
  <1>3. SlotMoves(j) BY <1>2, Closes, SlotIdle
  <1>4. outcome[j] = "none" /\ j \notin late /\ j \notin members BY <1>2 DEF Inv, JoinInv
  <1>5. outcome' = [outcome EXCEPT ![j] = outcome'[j]] /\ outcome'[j] = "none"
    BY <1>2, <1>4 DEF Inv, Types, JoinTypes
  <1>6. JoinFrame(j) /\ join'[j] = at /\ late' = late
    <2>1. at \in JoinStates BY DEF JoinStates
    <2> QED BY <1>1, <1>2, <1>3, <1>5, <2>1, GoesOnly
  <1>7. JoinInv(j)' BY <1>2, <1>4, <1>5, <1>6 DEF JoinInv
  <1> QED BY <1>6, <1>7, JoinMoves

(* What a script that may record an outcome has done to the join. *)
Recorded(j) ==
  /\ SlotMoves(j) /\ outcome' = [outcome EXCEPT ![j] = outcome'[j]]
  /\ outcome'[j] \in {"none", "in", "out"}

(* A script arms the fence of j again under a new revision. *)
LEMMA Arms ==
  ASSUME Inv, NEW j \in Joins, meta' = Bump(meta, 1), fence' = fence \cup {j},
         lapsed' = lapsed \ {j}
  PROVE  SlotMoves(j) /\ j \in Held'
  <1>1. MetaMoves /\ meta'.readers = {} BY Bumped DEF Inv, Types
  <1>2. FencesKeep(j) /\ FenceTypes' /\ j \in Held'
    BY DEF FencesKeep, Held, Inv, Types, FenceTypes
  <1> QED BY <1>1, <1>2 DEF SlotMoves, Announced

(* The first finalizer to arrive decides; a join that is not accepted is fenced. *)
LEMMA Finalizes ==
  ASSUME Inv, NEW j \in Joins, FinalizeWrites(j)
  PROVE  /\ Recorded(j)
         /\ outcome[j] # "none" => outcome'[j] = outcome[j] /\ Held' = Held /\ fence' = fence
         /\ outcome[j] = "none" => outcome'[j] = "in" \/ (outcome'[j] = "out" /\ j \in Held')
  <1>0. outcome \in [Joins -> {"none", "in", "out"}] BY DEF Inv, Types, JoinTypes
  <1>1. CASE outcome[j] # "none"
    <2>1. UNCHANGED <<meta, fence, lapsed, outcome>> BY <1>1 DEF FinalizeWrites
    <2>2. SlotMoves(j) /\ Held' = Held BY <2>1, SlotIdle
    <2> QED BY <1>0, <1>1, <2>1, <2>2 DEF Recorded
  <1>2. CASE outcome[j] = "none"
    <2> DEFINE accepted == j \in fence \ lapsed /\ Reconnects(UserOf[j])
    <2>1. /\ meta' = Bump(meta, 1)
          /\ fence' = IF accepted THEN fence \ {j} ELSE fence \cup {j}
          /\ lapsed' = lapsed \ {j}
          /\ outcome' = [outcome EXCEPT ![j] = IF accepted THEN "in" ELSE "out"]
      BY <1>2 DEF FinalizeWrites
    <2> HIDE DEF accepted
    <2>2. CASE accepted
      <3>1. MetaMoves /\ meta'.readers = {} BY <2>1, Bumped DEF Inv, Types
      <3>2. FencesKeep(j) /\ FenceTypes'
        BY <2>1, <2>2 DEF FencesKeep, Held, Inv, Types, FenceTypes
      <3>3. SlotMoves(j) BY <3>1, <3>2 DEF SlotMoves, Announced
      <3> QED BY <1>0, <1>2, <2>1, <2>2, <3>3 DEF Recorded
    <2>3. CASE ~accepted
      <3>1. SlotMoves(j) /\ j \in Held' BY <2>1, <2>3, Arms
      <3> QED BY <1>0, <1>2, <2>1, <2>3, <3>1 DEF Recorded
    <2> QED BY <2>2, <2>3
  <1> QED BY <1>1, <1>2

(* The join's own finalizer, answered or not. *)
LEMMA FinalizeJoinInv == ASSUME Inv, NEW j \in Joins, FinalizeJoin(j) PROVE Inv' /\ RosterStep
  <1>1. /\ join[j] = "finalize" /\ UNCHANGED members
        /\ FinalizeWrites(j) \/ UNCHANGED <<meta, fence, lapsed, outcome>>
    BY DEF FinalizeJoin
  <1>2. PICK at \in {"verify", "prepare", "finalize"} :
          ChangesOnly(j, at) /\ (UNCHANGED count \/ Lose)
    BY DEF FinalizeJoin
  <1>3. outcome[j] = "in" \/ j \in Held BY <1>1 DEF Inv, JoinInv
  <1>4. Recorded(j) /\ (outcome'[j] = "in" \/ j \in Held')
    <2>1. CASE FinalizeWrites(j) BY <1>3, <2>1, Finalizes
    <2>2. CASE UNCHANGED <<meta, fence, lapsed, outcome>>
      <3>1. SlotMoves(j) /\ Held' = Held BY <2>2, SlotIdle
      <3> QED BY <1>3, <2>2, <3>1 DEF Recorded, Inv, Types, JoinTypes
    <2> QED BY <1>1, <2>1, <2>2
  <1>5. JoinFrame(j) /\ join'[j] = at /\ late' = late
    <2>1. at \in JoinStates BY DEF JoinStates
    <2> QED BY <1>1, <1>2, <1>4, <2>1, GoesOnly DEF Recorded
  <1>6. JoinInv(j)' BY <1>4, <1>5 DEF JoinInv
  <1> QED BY <1>5, <1>6, JoinMoves

(* A finalizer is given up, and may arrive at any later time. *)
LEMMA AbandonFinalizerInv ==
  ASSUME Inv, NEW j \in Joins, AbandonFinalizer(j)
  PROVE  Inv' /\ RosterStep
  <1>1. /\ join[j] = "finalize" /\ join' = [join EXCEPT ![j] = "prepare"]
        /\ late' = late \cup {j} /\ CountMoves
        /\ UNCHANGED <<meta, fence, lapsed, members, expired, outcome, leave, queuer>>
    BY DEF AbandonFinalizer, Goes, Lose, CountMoves
  <1>2. SlotMoves(j) /\ Held' = Held BY <1>1, SlotIdle
  <1>3. join'[j] = "prepare" /\ outcome' = [outcome EXCEPT ![j] = outcome'[j]]
        /\ outcome'[j] = outcome[j] /\ outcome[j] \in {"none", "in", "out"}
    BY <1>1 DEF Inv, Types, JoinTypes
  <1>4. JoinFrame(j) BY <1>1, <1>2, <1>3 DEF JoinFrame, JoinStates
  <1>5. outcome[j] = "in" \/ j \in Held BY <1>1 DEF Inv, JoinInv
  <1>6. JoinInv(j)' BY <1>2, <1>3, <1>5 DEF JoinInv
  <1> QED BY <1>4, <1>6, JoinMoves

(* It changes nothing that a compensation relies on. *)
LEMMA LateFinalizerInv == ASSUME Inv, NEW j \in Joins, LateFinalizer(j) PROVE Inv' /\ RosterStep
  <1>1. /\ j \in late /\ FinalizeWrites(j) /\ late' = late \ {j}
        /\ UNCHANGED <<members, expired, join, leave, queuer, count>>
    BY DEF LateFinalizer
  <1>2. Recorded(j) BY <1>1, Finalizes
  <1>3. join' = [join EXCEPT ![j] = join'[j]] /\ join'[j] = join[j] /\ join[j] \in JoinStates
    BY <1>1 DEF Inv, Types, JoinTypes
  <1>4. JoinFrame(j) BY <1>1, <1>2, <1>3 DEF JoinFrame, Recorded, CountMoves
  <1>5. JoinInv(j) BY DEF Inv
  <1>6. JoinInv(j)'
    <2>1. CASE outcome[j] # "none"
      <3>1. outcome'[j] = outcome[j] /\ Held' = Held /\ fence' = fence
        BY <1>1, <2>1, Finalizes
      <3> QED BY <1>1, <1>3, <1>5, <3>1 DEF JoinInv
    <2>2. CASE outcome[j] = "none"
      <3>1. outcome'[j] = "in" \/ (outcome'[j] = "out" /\ j \in Held')
        BY <1>1, <2>2, Finalizes
      <3>2. join[j] \notin {"idle", "refused", "touch", "undo", "unfence", "failed",
                            "prove", "remove", "release_in", "release_out"}
        BY <1>1, <1>5, <2>2 DEF JoinInv
      <3> QED BY <1>1, <1>3, <3>1, <3>2 DEF JoinInv
    <2> QED BY <2>1, <2>2
  <1> QED BY <1>4, <1>6, JoinMoves

(* Unless the join is accepted, no finalizer will accept it from here on. *)
LEMMA PrepareCompensationInv ==
  ASSUME Inv, NEW j \in Joins, PrepareCompensation(j) PROVE Inv' /\ RosterStep
  <1>0. outcome \in [Joins -> {"none", "in", "out"}] BY DEF Inv, Types, JoinTypes
  <1>1. /\ join[j] = "prepare" /\ UNCHANGED members
        /\ PrepareWrites(j) \/ UNCHANGED <<meta, fence, lapsed, outcome>>
    BY DEF PrepareCompensation
  <1>2. PICK at \in {"verify", "release_in", "prove", "prepare", "lost"} :
          /\ ChangesOnly(j, at) /\ (UNCHANGED count \/ Lose)
          /\ at \in {"release_in", "prove"} => outcome[j] # "in" /\ PrepareWrites(j)
    BY DEF PrepareCompensation
  <1>3. outcome[j] = "in" \/ j \in Held BY <1>1 DEF Inv, JoinInv
  <1>4. /\ Recorded(j) /\ (outcome'[j] = "in" \/ j \in Held')
        /\ (outcome[j] # "in" /\ PrepareWrites(j)) => outcome'[j] = "out" /\ j \in Held'
    <2>1. CASE UNCHANGED <<meta, fence, lapsed, outcome>>
               /\ ~(outcome[j] # "in" /\ PrepareWrites(j))
      <3>1. SlotMoves(j) /\ Held' = Held BY <2>1, SlotIdle
      <3> QED BY <1>0, <1>3, <2>1, <3>1 DEF Recorded
    <2>2. CASE outcome[j] # "in" /\ PrepareWrites(j)
      <3>1. /\ meta' = Bump(meta, 1) /\ fence' = fence \cup {j} /\ lapsed' = lapsed \ {j}
            /\ outcome' = [outcome EXCEPT ![j] = "out"]
        BY <2>2 DEF PrepareWrites
      <3>2. SlotMoves(j) /\ j \in Held' BY <3>1, Arms
      <3> QED BY <1>0, <3>1, <3>2 DEF Recorded
    <2>3. (outcome[j] = "in" /\ PrepareWrites(j)) => UNCHANGED <<meta, fence, lapsed, outcome>>
      BY DEF PrepareWrites
    <2> QED BY <1>1, <2>1, <2>2, <2>3
  <1>5. JoinFrame(j) /\ join'[j] = at /\ late' = late
    <2>1. at \in JoinStates BY DEF JoinStates
    <2> QED BY <1>1, <1>2, <1>4, <2>1, GoesOnly DEF Recorded
  <1>6. JoinInv(j)' BY <1>2, <1>4, <1>5 DEF JoinInv
  <1> QED BY <1>5, <1>6, JoinMoves

(* The fence of a compensation falls when its outcome is settled. *)
LEMMA ReleaseCompensationInv ==
  ASSUME Inv, NEW j \in Joins, ReleaseCompensation(j) PROVE Inv' /\ RosterStep
  <1>0. outcome \in [Joins -> {"none", "in", "out"}] BY DEF Inv, Types, JoinTypes
  <1> DEFINE admitted == join[j] = "release_in"
  <1>1. /\ join[j] \in {"release_in", "release_out"} /\ UNCHANGED members
        /\ ReleaseWrites(j, admitted) \/ UNCHANGED <<meta, fence, lapsed, outcome>>
    BY DEF ReleaseCompensation
  <1>2. PICK at \in {"verify", "failed", "lost"} :
          /\ ChangesOnly(j, at) /\ (UNCHANGED count \/ Lose)
          /\ admitted <=> at = "verify"
    BY DEF ReleaseCompensation
  <1>3. /\ outcome[j] = "out" /\ j \in Held
        /\ ~admitted => j \notin members
    BY <1>1 DEF Inv, JoinInv
  <1> HIDE DEF admitted
  <1>4. Recorded(j) /\ (~admitted => outcome'[j] = "out")
    <2>1. CASE UNCHANGED <<meta, fence, lapsed, outcome>>
      <3>1. SlotMoves(j) BY <2>1, SlotIdle
      <3> QED BY <1>0, <1>3, <2>1, <3>1 DEF Recorded
    <2>2. CASE ReleaseWrites(j, admitted)
      <3>1. /\ meta' = Bump(meta, 1) /\ fence' = fence \ {j} /\ lapsed' = lapsed \ {j}
            /\ outcome' = IF admitted THEN [outcome EXCEPT ![j] = "in"] ELSE outcome
        BY <1>3, <2>2 DEF ReleaseWrites, Held
      <3>2. MetaMoves /\ meta'.readers = {} BY <3>1, Bumped DEF Inv, Types
      <3>3. FencesKeep(j) /\ FenceTypes'
        BY <3>1 DEF FencesKeep, Held, Inv, Types, FenceTypes
      <3>4. SlotMoves(j) BY <3>2, <3>3 DEF SlotMoves, Announced
      <3> QED BY <1>0, <1>3, <3>1, <3>4 DEF Recorded
    <2> QED BY <1>1, <2>1, <2>2
  <1>5. JoinFrame(j) /\ join'[j] = at /\ late' = late
    <2>1. at \in JoinStates BY DEF JoinStates
    <2> QED BY <1>1, <1>2, <1>4, <2>1, GoesOnly DEF Recorded
  <1>6. JoinInv(j)' BY <1>1, <1>2, <1>3, <1>4, <1>5 DEF JoinInv
  <1> QED BY <1>5, <1>6, JoinMoves

(* A process that dies leaves its reservation standing. *)
LEMMA DieJoinInv == ASSUME Inv, NEW j \in Joins, DieJoin(j) PROVE Inv' /\ RosterStep
  <1>1. PICK at \in {"gone", "dead"} :
          /\ join' = [join EXCEPT ![j] = at]
          /\ at = "dead" => join[j] \notin {"verify", "joined"}
    BY DEF DieJoin, Goes
  <1>2. /\ CountMoves /\ join[j] \notin {"idle", "refused", "failed", "lost", "gone", "dead"}
        /\ UNCHANGED <<meta, fence, lapsed, members, expired, outcome, leave, late, queuer>>
    BY DEF DieJoin, CountMoves
  <1>3. SlotMoves(j) /\ Held' = Held BY <1>2, SlotIdle
  <1>4. join'[j] = at /\ outcome' = [outcome EXCEPT ![j] = outcome'[j]]
        /\ outcome'[j] = outcome[j] /\ outcome[j] \in {"none", "in", "out"}
        /\ join[j] \in JoinStates
    BY <1>1, <1>2 DEF Inv, Types, JoinTypes
  <1>5. JoinFrame(j) BY <1>1, <1>2, <1>3, <1>4 DEF JoinFrame, JoinStates
  <1>6. JoinInv(j) BY DEF Inv
  <1>7. at = "dead" => outcome[j] = "in" \/ j \in Held \/ j \notin members
    BY <1>1, <1>2, <1>4, <1>6 DEF JoinInv, JoinStates
  <1>8. JoinInv(j)' BY <1>2, <1>3, <1>4, <1>7 DEF JoinInv
  <1> QED BY <1>5, <1>8, JoinMoves

(* A lease that runs out is remembered: a snapshot that holds it is not fresh. *)
LEMMA MemberExpiresInv == ASSUME Inv, NEW j \in Joins, MemberExpires(j) PROVE Inv' /\ RosterStep
  <1>1. /\ j \in members /\ members' = members \ {j} /\ expired' = expired \cup {j}
        /\ UNCHANGED <<meta, fence, lapsed, outcome, join, leave, late, queuer, count>>
    BY DEF MemberExpires
  <1>2. Types'
    BY <1>1 DEF Inv, Types, MetaInv, FenceTypes, MemberTypes, JoinTypes, OtherTypes
  <1>3. Held' = Held BY <1>1 DEF Held
  <1>4. ASSUME NEW x \in Joins PROVE JoinInv(x)'
    <2>1. JoinInv(x) BY DEF Inv
    <2> QED BY <1>1, <1>3, <2>1, OtherJoin
  <1>5. ASSUME NEW l \in Leaves PROVE LeaveInv(l)' BY <1>1, <1>3 DEF Inv, LeaveInv
  <1>6. ASSUME NEW g \in Gateways PROVE QueuerInv(g)'
    <2>1. QueuerInv(g) /\ count.breaks \in Nat BY DEF Inv, Types, OtherTypes
    <2> QED BY <1>1, <2>1, OtherQueuer
  <1>7. RosterStep BY <1>1, NoRoster DEF Inv, Types
  <1> QED BY <1>2, <1>4, <1>5, <1>6, <1>7 DEF Inv

(* No reservation is taken for outdated while what it guards is unsettled. *)
LEMMA FenceLapsesInv ==
  ASSUME Inv, NEW c \in Joins \cup Leaves, FenceLapses(c)
  PROVE  Inv' /\ RosterStep
  <1>1. /\ c \in fence /\ lapsed' = lapsed \cup {c}
        /\ UNCHANGED <<meta, fence, members, expired, outcome, join, leave, late, queuer, count>>
    BY DEF FenceLapses
  <1>2. /\ c \in Joins => \/ join[c] \in {"lost", "dead"} /\ c \notin members
                         \/ join[c] \in {"verify", "joined", "gone"}
        /\ c \in Leaves => leave[c] = "dead"
    BY LobbyAssumption DEF FenceLapses
  <1>3. Types'
    BY <1>1 DEF Inv, Types, MetaInv, FenceTypes, MemberTypes, JoinTypes, OtherTypes
  <1>4. \A x : x # c => (x \in Held <=> x \in Held') BY <1>1 DEF Held
  <1>5. ASSUME NEW x \in Joins PROVE JoinInv(x)'
    <2>1. JoinInv(x) BY DEF Inv
    <2>2. CASE x # c BY <1>1, <1>4, <2>1, <2>2, OtherJoin
    <2>3. CASE x = c BY <1>1, <1>2, <2>3 DEF JoinInv
    <2> QED BY <2>2, <2>3
  <1>6. ASSUME NEW l \in Leaves PROVE LeaveInv(l)' BY <1>1, <1>2, <1>4 DEF Inv, LeaveInv
  <1>7. ASSUME NEW g \in Gateways PROVE QueuerInv(g)'
    <2>1. QueuerInv(g) /\ count.breaks \in Nat BY DEF Inv, Types, OtherTypes
    <2> QED BY <1>1, <2>1, OtherQueuer
  <1>8. RosterStep BY <1>1, NoRoster DEF Inv, Types
  <1> QED BY <1>3, <1>5, <1>6, <1>7, <1>8 DEF Inv

-----------------------------------------------------------------------------
(* Leaving.                                                                *)

(* A step of one leave. *)
LEMMA LeaveMoves ==
  ASSUME Inv, NEW l \in Leaves, NEW at, LeaveOnly(l, at), SlotMoves(l), CountMoves,
         members' \subseteq members, members' = members \/ fence # {},
         at \in {"remove", "finish"} => l \in Held'
  PROVE  Inv' /\ RosterStep
  <1>1. /\ leave' = [leave EXCEPT ![l] = at]
        /\ UNCHANGED <<expired, outcome, join, late, queuer>>
    BY DEF LeaveOnly, LeaveGoes
  <1>2. Types'
    <2>1. MetaInv' /\ FenceTypes' BY MetaKept DEF Inv, Types, SlotMoves
    <2>2. MemberTypes' /\ JoinTypes' BY <1>1 DEF Inv, Types, MemberTypes, JoinTypes
    <2>3. OtherTypes' BY <1>1, CountKept DEF Inv, Types, OtherTypes
    <2> QED BY <2>1, <2>2, <2>3 DEF Types
  <1>3. \A x \in Joins \cup Leaves :
           x # l => (x \in Held => x \in Held') /\ (x \in fence' => x \in fence)
    BY DEF SlotMoves, FencesKeep
  <1>4. ASSUME NEW x \in Joins PROVE JoinInv(x)'
    <2>1. JoinInv(x) /\ x # l BY LobbyAssumption DEF Inv
    <2>2. (x \in Held => x \in Held') /\ (x \in fence' => x \in fence) BY <1>3, <2>1
    <2> QED BY <1>1, <2>1, <2>2, OtherJoin
  <1>5. ASSUME NEW x \in Leaves PROVE LeaveInv(x)'
    <2>1. CASE x = l BY <1>1, <2>1 DEF LeaveInv, Inv, Types, OtherTypes
    <2>2. CASE x # l BY <1>1, <1>3, <2>2 DEF LeaveInv, Inv, Types, OtherTypes
    <2> QED BY <2>1, <2>2
  <1>6. ASSUME NEW g \in Gateways PROVE QueuerInv(g)'
    <2>1. /\ queuer'[g] = queuer[g] /\ expired' = expired
          /\ g \in meta'.readers => g \in meta.readers /\ fence' = fence
      BY <1>1 DEF SlotMoves, Announced
    <2>2. count'.breaks = count.breaks /\ count.breaks \in Nat
      BY CountKept DEF Inv, Types, OtherTypes
    <2>3. QueuerInv(g) BY DEF Inv
    <2> QED BY <2>1, <2>2, <2>3, OtherQueuer
  <1>7. RosterStep BY NoRoster DEF Inv, Types, SlotMoves
  <1> QED BY <1>2, <1>4, <1>5, <1>6, <1>7 DEF Inv

(* A leave reserves, and ends a break it takes part in. *)
LEMMA ReserveLeaveInv == ASSUME Inv, NEW l \in Leaves, ReserveLeave(l) PROVE Inv' /\ RosterStep
  <1> DEFINE kept == fence \ lapsed
             participant == meta.state = "ad_break" /\ UserOf[l] \in meta.roster
             allowed == meta.state = "waiting" \/ participant
             holds == allowed /\ Cardinality(kept) < MaxFences
             cleared == IF kept # fence THEN 1 ELSE 0
             n == IF holds THEN cleared + 1 ELSE cleared
             m == IF participant THEN NoBreak(meta) ELSE meta
  <1>1. /\ meta' = Bump(m, n)
        /\ fence' = IF holds THEN kept \cup {l} ELSE kept
        /\ lapsed' = {} /\ UNCHANGED members
    BY DEF ReserveLeave, ReserveLeaveWrites
  <1>2. PICK at : /\ LeaveOnly(l, at) /\ (UNCHANGED count \/ Lose)
                  /\ at = "remove" => l \in fence'
                  /\ at # "finish"
    BY DEF ReserveLeave
  <1>3. n = 0 => fence' = fence BY <1>1
  <1>4. m = meta \/ (meta.state = "ad_break" /\ m = NoBreak(meta)) OBVIOUS
  <1>5. FencesKeep(l) /\ FenceTypes' /\ (l \in fence' => l \in Held')
    BY <1>1 DEF FencesKeep, Held, Inv, Types, FenceTypes
  <1> HIDE DEF m, n
  <1>6. /\ DOMAIN m = {"state", "readers", "break", "roster", "resolved", "queue"}
        /\ m.readers = meta.readers
    BY <1>4 DEF NoBreak, Inv, Types, MetaInv
  <1>7. meta' = m \/ meta' = [m EXCEPT !.readers = {}] BY <1>1 DEF Bump
  <1>8. MetaMoves BY <1>4, <1>7 DEF MetaMoves
  <1>9. Announced
    <2>1. n # 0 => meta'.readers = {} BY <1>1, <1>6 DEF Bump
    <2>2. n = 0 => meta'.readers = meta.readers BY <1>1, <1>6 DEF Bump
    <2> QED BY <1>3, <2>1, <2>2 DEF Announced
  <1>10. SlotMoves(l) BY <1>5, <1>8, <1>9 DEF SlotMoves
  <1>11. CountMoves BY <1>2 DEF CountMoves, Lose
  <1> QED BY <1>1, <1>2, <1>5, <1>10, <1>11, LeaveMoves

(* The members go under the reservation, which is then closed; or the process
   of the leave dies. *)
LEMMA LeavesInv ==
  ASSUME Inv, NEW l \in Leaves, RemoveUser(l) \/ FinishLeave(l) \/ DieLeave(l)
  PROVE  Inv' /\ RosterStep
  <1>1. leave[l] \in {"remove", "finish"} /\ l \in Held
    BY DEF RemoveUser, FinishLeave, DieLeave, Inv, LeaveInv
  <1>2. CASE RemoveUser(l)
    <2>1. /\ LeaveOnly(l, "finish") /\ members' \subseteq members /\ CountMoves
          /\ UNCHANGED <<meta, fence, lapsed>>
      BY <1>2 DEF RemoveUser, CountMoves, Lose
    <2>2. SlotMoves(l) /\ Held' = Held BY <2>1, SlotIdle
    <2>3. fence # {} BY <1>1 DEF Held
    <2> QED BY <1>1, <2>1, <2>2, <2>3, LeaveMoves
  <1>3. CASE FinishLeave(l)
    <2>1. PICK at \in {"done", "dead"} : LeaveOnly(l, at)
      BY <1>3 DEF FinishLeave
    <2>2. /\ CountMoves /\ UNCHANGED members
          /\ CloseFence(l) \/ UNCHANGED <<meta, fence, lapsed>>
      BY <1>3 DEF FinishLeave, CountMoves, Lose
    <2>3. SlotMoves(l) BY <2>2, Closes, SlotIdle
    <2> QED BY <2>1, <2>2, <2>3, LeaveMoves
  <1>4. CASE DieLeave(l)
    <2>1. LeaveOnly(l, "dead") /\ CountMoves /\ UNCHANGED <<meta, fence, lapsed, members>>
      BY <1>4 DEF DieLeave, CountMoves
    <2>2. SlotMoves(l) BY <2>1, SlotIdle
    <2> QED BY <2>1, <2>2, LeaveMoves
  <1> QED BY <1>2, <1>3, <1>4

-----------------------------------------------------------------------------
(* Queueing.                                                               *)

(* A step of one gateway.  Fences are cleared of outdated ones only. *)
LEMMA QueueMoves ==
  ASSUME Inv, NEW g \in Gateways, NEW q, QueuerOnly(g, q), MetaInv', FenceTypes',
         Held' = Held, fence' \subseteq fence,
         \A x \in meta'.readers : x = g \/ (x \in meta.readers /\ fence' = fence),
         count'.breaks >= count.breaks, count'.breaks \in Nat,
         DOMAIN count' = {"lost", "deaths", "breaks"},
         DOMAIN q = {"at", "mode", "break", "snap"}, q.snap \subseteq Joins,
         q.mode = "begin" => count'.breaks > 0,
         q.at = "script" => q.snap # {} /\ q.snap = members
  PROVE  Inv'
  <1>1. /\ queuer' = [queuer EXCEPT ![g] = q]
        /\ UNCHANGED <<members, expired, outcome, join, leave, late>>
    BY DEF QueuerOnly, QueuerGoes
  <1>2. Types'
    <2>1. MemberTypes' /\ JoinTypes' BY <1>1 DEF Inv, Types, MemberTypes, JoinTypes
    <2>2. OtherTypes' BY <1>1 DEF Inv, Types, OtherTypes
    <2> QED BY <2>1, <2>2 DEF Types
  <1>3. ASSUME NEW x \in Joins PROVE JoinInv(x)'
    <2>1. JoinInv(x) BY DEF Inv
    <2>2. join'[x] = join[x] /\ outcome'[x] = outcome[x] /\ late' = late /\ members' = members
      BY <1>1
    <2>3. (x \in Held => x \in Held') /\ (x \in fence' => x \in fence) OBVIOUS
    <2> QED BY <2>1, <2>2, <2>3, OtherJoin
  <1>4. ASSUME NEW l \in Leaves PROVE LeaveInv(l)' BY <1>1 DEF Inv, LeaveInv
  <1>5. ASSUME NEW h \in Gateways PROVE QueuerInv(h)'
    <2>1. CASE h # g
      <3>1. queuer'[h] = queuer[h] BY <1>1, <2>1 DEF Inv, Types, OtherTypes
      <3>2. /\ h \in meta'.readers => h \in meta.readers /\ fence' = fence
            /\ expired' = expired /\ members' = members /\ count.breaks \in Nat
        BY <1>1, <2>1 DEF Inv, Types, OtherTypes
      <3>3. QueuerInv(h) BY DEF Inv
      <3> QED BY <3>1, <3>2, <3>3, OtherQueuer
    <2>2. CASE h = g
      <3>1. queuer'[h] = q BY <1>1, <2>2 DEF Inv, Types, OtherTypes
      <3>2. members' = members BY <1>1
      <3> QED BY <3>1, <3>2 DEF QueuerInv
    <2> QED BY <2>1, <2>2
  <1> QED BY <1>2, <1>3, <1>4, <1>5 DEF Inv

(* The same, when the step leaves the metadata slot alone but for g's own reading
   of the revision. *)
LEMMA QueueOnly ==
  ASSUME Inv, NEW g \in Gateways, NEW q, QueuerOnly(g, q), MetaInv',
         meta'.readers \subseteq meta.readers \cup {g}, UNCHANGED <<fence, lapsed>>, CountMoves,
         DOMAIN q = {"at", "mode", "break", "snap"}, q.snap \subseteq Joins,
         q.mode = "begin" => queuer[g].mode = "begin",
         q.at = "script" => q.snap # {} /\ q.snap = members
  PROVE  Inv'
  <1>1. Held' = Held /\ FenceTypes' BY DEF Held, Inv, Types, FenceTypes
  <1>2. /\ DOMAIN count' = {"lost", "deaths", "breaks"} /\ count'.breaks = count.breaks
        /\ count.breaks \in Nat
    BY CountKept DEF Inv, Types, OtherTypes
  <1>3. queuer[g].mode = "begin" => count.breaks > 0 BY DEF Inv, QueuerInv
  <1> QED BY <1>1, <1>2, <1>3, QueueMoves

(* A gateway's record after one of its steps. *)
LEMMA QueuerRecord ==
  ASSUME Inv, NEW g \in Gateways, NEW at
  PROVE  /\ DOMAIN queuer[g] = {"at", "mode", "break", "snap"} /\ queuer[g].snap \subseteq Joins
         /\ DOMAIN [queuer[g] EXCEPT !.at = at] = {"at", "mode", "break", "snap"}
         /\ [queuer[g] EXCEPT !.at = at].at = at
         /\ [queuer[g] EXCEPT !.at = at].mode = queuer[g].mode
         /\ [queuer[g] EXCEPT !.at = at].snap = queuer[g].snap
  BY DEF Inv, QueuerInv

(* A step after which the gateway is somewhere else and knows what it knew. *)
LEMMA MoveTo ==
  ASSUME Inv, NEW g \in Gateways, NEW at, at # "script",
         QueuerOnly(g, [queuer[g] EXCEPT !.at = at]), MetaInv',
         meta'.readers \subseteq meta.readers \cup {g}, UNCHANGED <<fence, lapsed>>, CountMoves
  PROVE  Inv'
  <1>1. PICK q : q = [queuer[g] EXCEPT !.at = at] OBVIOUS
  <1>2. /\ DOMAIN q = {"at", "mode", "break", "snap"} /\ q.snap \subseteq Joins
        /\ q.mode = queuer[g].mode /\ q.at = at
    BY <1>1, QueuerRecord
  <1>3. QueuerOnly(g, q) BY <1>1
  <1> QED BY <1>2, <1>3, QueueOnly

(* A gateway starts, with the bound on starts counted. *)
LEMMA StartQueueInv ==
  ASSUME Inv, NEW g \in Gateways, NEW mode \in {"begin", "admit"}, StartQueue(g, mode)
  PROVE  Inv' /\ RosterStep
  <1>1. PICK q : q = [Idle EXCEPT !.at = IF mode = "begin" THEN "rev" ELSE "first",
                                  !.mode = mode]
    OBVIOUS
  <1>2. /\ DOMAIN q = {"at", "mode", "break", "snap"} /\ q.snap = {} /\ q.at # "script"
    BY <1>1 DEF Idle
  <1>3. /\ QueuerOnly(g, q) /\ count' = [count EXCEPT !.breaks = @ + 1]
        /\ UNCHANGED <<meta, fence, lapsed>>
    BY <1>1 DEF StartQueue
  <1>4. /\ DOMAIN count' = {"lost", "deaths", "breaks"} /\ count'.breaks = count.breaks + 1
        /\ count.breaks \in Nat
    BY <1>3 DEF Inv, Types, OtherTypes
  <1>5. MetaInv' /\ FenceTypes' /\ Held' = Held
    BY <1>3 DEF Inv, Types, MetaInv, FenceTypes, Held
  <1>6. count'.breaks >= count.breaks /\ count'.breaks \in Nat /\ count'.breaks > 0 BY <1>4
  <1>7. Inv' BY <1>2, <1>3, <1>4, <1>5, <1>6, QueueMoves
  <1>8. RosterStep BY <1>3, NoRoster DEF Inv, Types
  <1> QED BY <1>7, <1>8

(* The steps that leave the metadata slot alone. *)
LEMMA ReadsInv ==
  ASSUME Inv, NEW g \in Gateways,
         ClaimFinalization(g) \/ ReloadMembers(g) \/ ExpectMembers(g) \/ SnapshotMembers(g)
           \/ Rejected(g)
  PROVE  Inv' /\ RosterStep
  <1>0. UNCHANGED <<meta, fence, lapsed, count>>
    BY DEF ClaimFinalization, ReloadMembers, ExpectMembers, SnapshotMembers, Rejected
  <1>1. MetaInv' /\ CountMoves /\ meta'.readers \subseteq meta.readers \cup {g}
    BY <1>0 DEF Inv, Types, MetaInv, CountMoves
  <1>2. RosterStep BY <1>0, NoRoster DEF Inv, Types
  <1>3. members \subseteq Joins BY DEF Inv, Types, MemberTypes
  <1>4. /\ DOMAIN queuer[g] = {"at", "mode", "break", "snap"} /\ queuer[g].snap \subseteq Joins
    BY QueuerRecord
  <1>5. CASE ClaimFinalization(g)
    <2>1. PICK q : q = [Idle EXCEPT !.at = "reload", !.mode = "final", !.break = meta.break]
      OBVIOUS
    <2>2. /\ DOMAIN q = {"at", "mode", "break", "snap"} /\ q.snap = {} /\ q.at = "reload"
          /\ q.mode = "final"
      BY <2>1 DEF Idle
    <2>3. QueuerOnly(g, q) BY <1>5, <2>1 DEF ClaimFinalization
    <2> QED BY <1>0, <1>1, <1>2, <2>2, <2>3, QueueOnly
  <1>6. CASE ReloadMembers(g)
    <2>1. PICK at \in {"first", "cancel"} : QueuerOnly(g, [queuer[g] EXCEPT !.at = at])
      BY <1>6 DEF ReloadMembers
    <2> QED BY <1>0, <1>1, <1>2, <2>1, MoveTo
  <1>7. CASE ExpectMembers(g)
    <2>1. CASE members = {}
      <3>1. QueuerOnly(g, [queuer[g] EXCEPT !.at = "cancel"]) BY <1>7, <2>1 DEF ExpectMembers
      <3> QED BY <1>0, <1>1, <1>2, <3>1, MoveTo
    <2>2. CASE members # {}
      <3>1. PICK q : q = [queuer[g] EXCEPT !.at = "rev", !.snap = members] OBVIOUS
      <3>2. /\ DOMAIN q = {"at", "mode", "break", "snap"} /\ q.snap = members /\ q.at = "rev"
            /\ q.mode = queuer[g].mode
        BY <1>4, <3>1
      <3>3. QueuerOnly(g, q) BY <1>7, <2>2, <3>1 DEF ExpectMembers
      <3> QED BY <1>0, <1>1, <1>2, <1>3, <3>2, <3>3, QueueOnly
    <2> QED BY <2>1, <2>2
  <1>8. CASE SnapshotMembers(g)
    <2> DEFINE changed == queuer[g].mode # "begin" /\ UsersIn(members) # UsersIn(queuer[g].snap)
    <2>1. CASE members = {} \/ changed
      <3>1. QueuerOnly(g, [queuer[g] EXCEPT !.at = "cancel"]) BY <1>8, <2>1 DEF SnapshotMembers
      <3> QED BY <1>0, <1>1, <1>2, <3>1, MoveTo
    <2>2. CASE ~(members = {} \/ changed)
      <3>1. PICK q : q = [queuer[g] EXCEPT !.at = "script", !.snap = members] OBVIOUS
      <3>2. /\ DOMAIN q = {"at", "mode", "break", "snap"} /\ q.snap = members
            /\ q.mode = queuer[g].mode
        BY <1>4, <3>1
      <3>3. QueuerOnly(g, q) BY <1>8, <2>2, <3>1 DEF SnapshotMembers
      <3>4. members # {} BY <2>2
      <3> QED BY <1>0, <1>1, <1>2, <1>3, <3>2, <3>3, <3>4, QueueOnly
    <2> QED BY <2>1, <2>2
  <1>9. CASE Rejected(g)
    <2>1. PICK at \in {"cancel", "release"} : QueuerOnly(g, [queuer[g] EXCEPT !.at = at])
      BY <1>9 DEF Rejected
    <2> QED BY <1>0, <1>1, <1>2, <2>1, MoveTo
  <1> QED BY <1>5, <1>6, <1>7, <1>8, <1>9

(* A snapshot that is still fresh shows the members of this very moment. *)
LEMMA FreshIsExact ==
  ASSUME Inv, NEW g \in Gateways, queuer[g].at = "script", Fresh(g)
  PROVE  /\ queuer[g].snap = members /\ members # {} /\ UsersIn(members) # {}
         /\ UsersIn(members) \subseteq Users
  <1>1. queuer[g].snap = members /\ members # {} BY DEF Inv, QueuerInv, Fresh
  <1>2. members \subseteq Joins BY DEF Inv, Types, MemberTypes
  <1> QED BY <1>1, <1>2 DEF UsersIn, Users

(* The break begins with the members. *)
LEMMA BeginAdBreakInv ==
  ASSUME Inv, NEW g \in Gateways, BeginAdBreak(g)
  PROVE  Inv' /\ RosterStep
  <1>1. /\ queuer[g].at = "script" /\ queuer[g].mode = "begin" /\ meta.state = "waiting"
        /\ Fresh(g) /\ QueuerOnly(g, [queuer[g] EXCEPT !.at = "release"])
        /\ meta' = [meta EXCEPT !.state = "ad_break", !.break = count.breaks,
                                !.roster = UsersIn(queuer[g].snap), !.resolved = {}]
        /\ UNCHANGED <<fence, lapsed, count>>
    BY DEF BeginAdBreak
  <1>2. /\ queuer[g].snap = members /\ UsersIn(members) # {} /\ UsersIn(members) \subseteq Users
    BY <1>1, FreshIsExact
  <1>3. count.breaks # 0 BY <1>1 DEF Inv, Types, OtherTypes, QueuerInv
  <1>4. /\ DOMAIN meta' = DOMAIN meta /\ meta'.state = "ad_break" /\ meta'.break = count.breaks
        /\ meta'.roster = UsersIn(members) /\ meta'.resolved = {} /\ meta'.queue = meta.queue
        /\ meta'.readers = meta.readers
    BY <1>1, <1>2 DEF Inv, Types, MetaInv
  <1>5. MetaInv' BY <1>1, <1>2, <1>3, <1>4 DEF Inv, Types, MetaInv
  <1>6. RosterStep BY <1>4 DEF RosterStep
  <1>7. CountMoves BY <1>1 DEF CountMoves
  <1> QED BY <1>1, <1>4, <1>5, <1>6, <1>7, MoveTo

(* The queue is entered with the members. *)
LEMMA AdmitInv ==
  ASSUME Inv, NEW g \in Gateways, Admit(g)
  PROVE  Inv' /\ RosterStep
  <1> DEFINE admitted ==
               [NoBreak(meta) EXCEPT !.state = "queued", !.queue = UsersIn(queuer[g].snap)]
  <1>1. queuer[g].at = "script" /\ Fresh(g) /\ UNCHANGED <<fence, lapsed>>
    BY DEF Admit
  <1>2. meta' = meta \/ meta' = admitted BY DEF Admit
  <1>3. PICK at \in {"release", "cancel"} : QueuerOnly(g, [queuer[g] EXCEPT !.at = at])
    BY DEF Admit
  <1>4. CountMoves BY DEF Admit, CountMoves, Lose
  <1>5. /\ queuer[g].snap = members /\ UsersIn(members) # {} /\ UsersIn(members) \subseteq Users
    BY <1>1, FreshIsExact
  <1>6. CASE meta' = meta
    <2>1. MetaInv' /\ RosterStep BY <1>6, NoRoster DEF Inv, Types, MetaInv
    <2> QED BY <1>1, <1>3, <1>4, <1>6, <2>1, MoveTo
  <1>7. CASE meta' = admitted
    <2>1. /\ DOMAIN meta' = DOMAIN meta /\ meta'.state = "queued" /\ meta'.break = 0
          /\ meta'.roster = {} /\ meta'.resolved = {} /\ meta'.queue = UsersIn(members)
          /\ meta'.readers = meta.readers
      BY <1>5, <1>7 DEF Inv, Types, MetaInv, NoBreak
    <2>2. MetaInv' BY <1>5, <2>1 DEF Inv, Types, MetaInv
    <2>3. RosterStep BY <2>1 DEF RosterStep
    <2> QED BY <1>1, <1>3, <1>4, <2>1, <2>2, <2>3, MoveTo
  <1> QED BY <1>2, <1>6, <1>7

(* The revision is read; a break is cancelled by the gateway that knows it. *)
LEMMA RevisionInv ==
  ASSUME Inv, NEW g \in Gateways, ReadRevision(g) \/ CancelBreak(g)
  PROVE  Inv' /\ RosterStep
  <1>1. CASE ReadRevision(g)
    <2>1. /\ meta' = [meta EXCEPT !.readers = @ \cup {g}]
          /\ QueuerOnly(g, [queuer[g] EXCEPT !.at = "snap"]) /\ UNCHANGED <<fence, lapsed, count>>
      BY <1>1 DEF ReadRevision
    <2>2. /\ DOMAIN meta' = DOMAIN meta /\ meta'.state = meta.state
          /\ meta'.break = meta.break /\ meta'.roster = meta.roster
          /\ meta'.resolved = meta.resolved /\ meta'.queue = meta.queue
          /\ meta'.readers = meta.readers \cup {g}
      BY <2>1 DEF Inv, Types, MetaInv
    <2>3. MetaInv' BY <2>2 DEF Inv, Types, MetaInv
    <2>4. RosterStep BY <2>2, NoRoster DEF Inv, Types
    <2>5. CountMoves BY <2>1 DEF CountMoves
    <2> QED BY <2>1, <2>2, <2>3, <2>4, <2>5, MoveTo
  <1>2. CASE CancelBreak(g)
    <2>1. /\ meta' = meta \/ (meta.state = "ad_break" /\ meta' = NoBreak(meta))
          /\ QueuerOnly(g, [queuer[g] EXCEPT !.at = "release"])
          /\ UNCHANGED <<fence, lapsed>> /\ (UNCHANGED count \/ Lose)
      BY <1>2 DEF CancelBreak, Cancels
    <2>2. MetaMoves BY <2>1 DEF MetaMoves
    <2>3. MetaInv' /\ RosterStep BY <2>2, MetaKept, NoRoster DEF Inv, Types
    <2>4. meta'.readers = meta.readers BY <2>1 DEF Inv, Types, MetaInv, NoBreak
    <2>5. CountMoves BY <2>1 DEF CountMoves, Lose
    <2> QED BY <2>1, <2>3, <2>4, <2>5, MoveTo
  <1> QED BY <1>1, <1>2

(* A conflict clears what is outdated, under a new revision. *)
LEMMA ConflictInv ==
  ASSUME Inv, NEW g \in Gateways, Conflict(g)
  PROVE  Inv' /\ RosterStep
  <1>1. /\ meta' = IF lapsed # {} THEN Bump(meta, 1) ELSE meta
        /\ fence' = fence \ lapsed /\ lapsed' = {} /\ UNCHANGED count
    BY DEF Conflict
  <1>2. PICK at \in {"rev", "release"} : QueuerOnly(g, [queuer[g] EXCEPT !.at = at])
    BY DEF Conflict
  <1>3. MetaMoves /\ (meta'.readers = {} \/ (meta' = meta /\ fence' = fence))
    <2>1. CASE lapsed # {} BY <1>1, <2>1, Bumped DEF Inv, Types
    <2>2. CASE lapsed = {} BY <1>1, <2>2 DEF MetaMoves
    <2> QED BY <2>1, <2>2
  <1>4. MetaInv' /\ RosterStep BY <1>3, MetaKept, NoRoster DEF Inv, Types
  <1>5. FenceTypes' /\ Held' = Held /\ fence' \subseteq fence
    BY <1>1 DEF Held, Inv, Types, FenceTypes
  <1>6. PICK q : q = [queuer[g] EXCEPT !.at = at] OBVIOUS
  <1>7. /\ DOMAIN q = {"at", "mode", "break", "snap"} /\ q.snap \subseteq Joins
        /\ q.mode = queuer[g].mode /\ q.at # "script"
    BY <1>6, QueuerRecord
  <1>8. QueuerOnly(g, q) BY <1>2, <1>6
  <1>9. /\ count'.breaks >= count.breaks /\ count'.breaks \in Nat
        /\ DOMAIN count' = {"lost", "deaths", "breaks"}
        /\ q.mode = "begin" => count'.breaks > 0
    BY <1>1, <1>7 DEF Inv, Types, OtherTypes, QueuerInv
  <1>10. \A x \in meta'.readers : x = g \/ (x \in meta.readers /\ fence' = fence) BY <1>3
  <1> QED BY <1>4, <1>5, <1>7, <1>8, <1>9, <1>10, QueueMoves

(* A gateway is done, or dies: it knows nothing any more. *)
LEMMA ForgetsInv ==
  ASSUME Inv, NEW g \in Gateways, ReleaseClaim(g) \/ DieQueuer(g)
  PROVE  Inv' /\ RosterStep
  <1>1. /\ QueuerOnly(g, Idle) /\ meta' = [meta EXCEPT !.readers = @ \ {g}]
        /\ UNCHANGED <<fence, lapsed>> /\ CountMoves
    BY DEF ReleaseClaim, DieQueuer, Forgets, CountMoves
  <1>2. /\ DOMAIN meta' = DOMAIN meta /\ meta'.state = meta.state
        /\ meta'.break = meta.break /\ meta'.roster = meta.roster
        /\ meta'.resolved = meta.resolved /\ meta'.queue = meta.queue
        /\ meta'.readers = meta.readers \ {g}
    BY <1>1 DEF Inv, Types, MetaInv
  <1>3. MetaInv' BY <1>2 DEF Inv, Types, MetaInv
  <1>4. RosterStep BY <1>2, NoRoster DEF Inv, Types
  <1>5. /\ DOMAIN Idle = {"at", "mode", "break", "snap"} /\ Idle.snap = {} /\ Idle.at = "idle"
        /\ Idle.mode = "none"
    BY DEF Idle
  <1> QED BY <1>1, <1>2, <1>3, <1>4, <1>5, QueueOnly

(* Steps that change the metadata, or the claim, and nothing else. *)
LEMMA MetaOnlyInv ==
  ASSUME Inv, MetaInv', meta'.readers = meta.readers,
         UNCHANGED <<fence, lapsed, members, expired, outcome, join, leave, late, queuer, count>>
  PROVE  Inv'
  <1>1. Types' BY DEF Inv, Types, FenceTypes, MemberTypes, JoinTypes, OtherTypes
  <1>2. Held' = Held BY DEF Held
  <1>3. ASSUME NEW x \in Joins PROVE JoinInv(x)'
    <2>1. JoinInv(x) BY DEF Inv
    <2> QED BY <1>2, <2>1, OtherJoin
  <1>4. ASSUME NEW l \in Leaves PROVE LeaveInv(l)' BY <1>2 DEF Inv, LeaveInv
  <1>5. ASSUME NEW g \in Gateways PROVE QueuerInv(g)'
    <2>1. QueuerInv(g) /\ count.breaks \in Nat BY DEF Inv, Types, OtherTypes
    <2> QED BY <2>1, OtherQueuer
  <1> QED BY <1>1, <1>3, <1>4, <1>5 DEF Inv

(* The break is watched, timed out or cancelled; the queue is left; a claim runs
   out. *)
LEMMA BreakInv ==
  ASSUME Inv, (\E u \in Users : ResolveAdBreak(u)) \/ TimeoutAdBreak \/ CancelByParticipant
                \/ Dequeue \/ ClaimExpires
  PROVE  Inv' /\ RosterStep
  <1>0. UNCHANGED <<fence, lapsed, members, expired, outcome, join, leave, late, queuer, count>>
    BY DEF ResolveAdBreak, TimeoutAdBreak, CancelByParticipant, Dequeue, ClaimExpires, MetaOnly
  <1>1. ASSUME NEW r \in SUBSET meta.roster, meta' = [meta EXCEPT !.resolved = r]
        PROVE  Inv' /\ RosterStep
    <2>1. /\ DOMAIN meta' = DOMAIN meta /\ meta'.state = meta.state
          /\ meta'.break = meta.break /\ meta'.roster = meta.roster
          /\ meta'.resolved = r /\ meta'.queue = meta.queue /\ meta'.readers = meta.readers
      BY <1>1 DEF Inv, Types, MetaInv
    <2>2. MetaInv' BY <2>1 DEF Inv, Types, MetaInv
    <2>3. RosterStep BY <2>1, NoRoster DEF Inv, Types
    <2> QED BY <1>0, <2>1, <2>2, <2>3, MetaOnlyInv
  <1>2. ASSUME NEW u \in Users, ResolveAdBreak(u) PROVE Inv' /\ RosterStep
    <2>1. meta' = [meta EXCEPT !.resolved = meta.resolved \cup {u}] /\ u \in meta.roster
      BY <1>2 DEF ResolveAdBreak, MetaOnly
    <2>2. meta.resolved \cup {u} \in SUBSET meta.roster BY <2>1 DEF Inv, Types, MetaInv
    <2> QED BY <1>1, <2>1, <2>2
  <1>3. CASE TimeoutAdBreak
    <2>1. meta' = [meta EXCEPT !.resolved = meta.roster] BY <1>3 DEF TimeoutAdBreak, MetaOnly
    <2> QED BY <1>1, <2>1
  <1>4. CASE CancelByParticipant
    <2>1. meta' = NoBreak(meta) /\ MetaMoves
      BY <1>4 DEF CancelByParticipant, MetaOnly, MetaMoves
    <2>2. MetaInv' /\ RosterStep BY <2>1, MetaKept, NoRoster DEF Inv, Types
    <2>3. meta'.readers = meta.readers BY <2>1 DEF NoBreak, Inv, Types, MetaInv
    <2> QED BY <1>0, <2>2, <2>3, MetaOnlyInv
  <1>5. CASE Dequeue
    <2>1. meta.state = "queued" /\ meta' = [meta EXCEPT !.state = "waiting", !.queue = {}]
      BY <1>5 DEF Dequeue, MetaOnly
    <2>2. /\ DOMAIN meta' = DOMAIN meta /\ meta'.state = "waiting"
          /\ meta'.break = meta.break /\ meta'.roster = meta.roster
          /\ meta'.resolved = meta.resolved /\ meta'.queue = {}
          /\ meta'.readers = meta.readers
      BY <2>1 DEF Inv, Types, MetaInv
    <2>3. MetaInv' BY <2>1, <2>2 DEF Inv, Types, MetaInv
    <2>4. RosterStep BY <2>2, NoRoster DEF Inv, Types
    <2> QED BY <1>0, <2>2, <2>3, <2>4, MetaOnlyInv
  <1>6. CASE ClaimExpires
    <2>1. meta' = meta BY <1>6 DEF ClaimExpires
    <2>2. MetaInv' /\ RosterStep BY <2>1, NoRoster DEF Inv, Types, MetaInv
    <2> QED BY <1>0, <2>1, <2>2, MetaOnlyInv
  <1> QED BY <1>2, <1>3, <1>4, <1>5, <1>6

-----------------------------------------------------------------------------
(* The theorems.                                                           *)

(* Nobody has joined. *)
LEMMA InitInv == Init => Inv
  <1> SUFFICES ASSUME Init PROVE Inv OBVIOUS
  <1>1. /\ meta = [state |-> "waiting", readers |-> {}, break |-> 0, roster |-> {},
                   resolved |-> {}, queue |-> {}]
        /\ fence = {} /\ lapsed = {} /\ members = {} /\ expired = {} /\ late = {}
        /\ outcome = [j \in Joins |-> "none"] /\ join = [j \in Joins |-> "idle"]
        /\ leave = [l \in Leaves |-> "idle"] /\ queuer = [g \in Gateways |-> Idle]
        /\ count = [lost |-> 0, deaths |-> 0, breaks |-> 0]
    BY DEF Init
  <1>2. MetaInv BY <1>1 DEF MetaInv
  <1>3. FenceTypes /\ MemberTypes BY <1>1 DEF FenceTypes, MemberTypes
  <1>4. JoinTypes /\ OtherTypes BY <1>1 DEF JoinTypes, JoinStates, OtherTypes
  <1>5. \A j \in Joins : JoinInv(j) BY <1>1 DEF JoinInv
  <1>6. \A l \in Leaves : LeaveInv(l) BY <1>1 DEF LeaveInv
  <1>7. \A g \in Gateways : QueuerInv(g) BY <1>1 DEF QueuerInv, Idle
  <1> QED BY <1>2, <1>3, <1>4, <1>5, <1>6, <1>7 DEF Inv, Types

(* Every step keeps the invariant, and begins a break or enters the queue only
   with the members. *)
LEMMA StepInv == ASSUME Inv, [Next]_vars PROVE Inv' /\ (vars' # vars => RosterStep)
  <1>1. CASE UNCHANGED vars
    <2>1. meta' = meta /\ MetaInv' BY <1>1 DEF vars, lobby, Inv, Types, MetaInv
    <2> QED BY <1>1, <2>1, MetaOnlyInv DEF vars, lobby
  <1>2. ASSUME NEW j \in Joins,
               \/ ReserveJoin(j) \/ JoinStep(j) \/ AbandonFinalizer(j)
               \/ LateFinalizer(j) \/ DieJoin(j) \/ MemberExpires(j)
        PROVE  Inv' /\ RosterStep
    BY <1>2, ReserveJoinInv, TouchesInv, UnfenceInv, FinalizeJoinInv, PrepareCompensationInv,
       ReleaseCompensationInv, AbandonFinalizerInv, LateFinalizerInv, DieJoinInv,
       MemberExpiresInv
    DEF JoinStep
  <1>3. ASSUME NEW c \in Joins \cup Leaves, FenceLapses(c) PROVE Inv' /\ RosterStep
    BY <1>3, FenceLapsesInv
  <1>4. ASSUME NEW l \in Leaves, ReserveLeave(l) \/ LeaveStep(l) \/ DieLeave(l)
        PROVE  Inv' /\ RosterStep
    BY <1>4, ReserveLeaveInv, LeavesInv DEF LeaveStep
  <1>5. ASSUME NEW g \in Gateways, QueueStep(g) \/ DieQueuer(g) PROVE Inv' /\ RosterStep
    BY <1>5, ReadsInv, RevisionInv, ConflictInv, BeginAdBreakInv, AdmitInv, ForgetsInv
    DEF QueueStep
  <1>6. ASSUME NEW g \in Gateways, NEW mode \in {"begin", "admit"}, StartQueue(g, mode)
        PROVE  Inv' /\ RosterStep
    BY <1>6, StartQueueInv
  <1>7. CASE \/ \E u \in Users : ResolveAdBreak(u)
             \/ ClaimExpires \/ TimeoutAdBreak \/ CancelByParticipant \/ Dequeue
    BY <1>7, BreakInv
  <1> QED BY <1>1, <1>2, <1>3, <1>4, <1>5, <1>6, <1>7 DEF Next, Change

(* The inductive invariant holds of every lobby. *)
THEOREM LobbyInvariant == Spec => []Inv
  <1>1. Init => Inv BY InitInv
  <1>2. Inv /\ [Next]_vars => Inv' BY StepInv
  <1> QED BY <1>1, <1>2, PTL DEF Spec

(* A member whose join was not accepted is fenced, and a join that was answered
   with a failure has left no member and no admission, whatever answers are lost,
   processes die and finalizers arrive late (the reserve, finalize, prepare and
   release scripts of lobby_manager.rs). *)
THEOREM SlotsAlwaysAgree == Spec => []SlotsAgree
  <1>1. Inv => SlotsAgree
    <2> SUFFICES ASSUME Inv PROVE SlotsAgree OBVIOUS
    <2>1. TypeOK BY DEF TypeOK, Inv, Types, MetaInv, FenceTypes, MemberTypes, JoinTypes
    <2>2. FencedUnlessAdmitted
      <3> SUFFICES ASSUME NEW j \in members
                   PROVE  \/ outcome[j] = "in" \/ j \in fence
                          \/ join[j] \in {"verify", "joined", "gone"}
        BY DEF FencedUnlessAdmitted
      <3>1. j \in Joins /\ join[j] \in JoinStates
        BY DEF Inv, Types, MemberTypes, JoinTypes
      <3>2. JoinInv(j) BY <3>1 DEF Inv
      <3> QED BY <3>1, <3>2 DEF JoinInv, JoinStates, Held
    <2>3. FailedIsGone BY DEF FailedIsGone, Inv, JoinInv
    <2> QED BY <2>1, <2>2, <2>3 DEF SlotsAgree
  <1> QED BY <1>1, LobbyInvariant, PTL

(* A lobby is queued, or made to wait for an ad, with exactly the users that are
   its members at that moment, although the members are read from another slot
   than the one the script runs in (BEGIN_AD_BREAK_SCRIPT, ADMIT_LOBBY_SCRIPT). *)
THEOREM RostersAreExact == Spec => RosterExact
  <1>1. Inv /\ [Next]_vars => [RosterStep]_vars BY StepInv
  <1>2. RosterExact <=> [][RosterStep]_vars BY PTL DEF RosterExact, RosterStep
  <1> QED BY <1>1, <1>2, LobbyInvariant, PTL DEF Spec

=============================================================================
