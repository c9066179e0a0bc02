---- MODULE AssignmentControl ----
(***************************************************************************)
(* The executor control plane of a region: task membership                 *)
(* (server/src/cluster_membership.rs), the coordinator lease               *)
(* (server/src/partition_lease.rs), the versioned assignment document and  *)
(* its per-partition views (server/src/partition_assignment.rs), and the   *)
(* control loop, heartbeat and drain of every task                         *)
(* (server/src/executor_cluster.rs).                                       *)
(*                                                                         *)
(* A control pass is one await at a time: a task may be overtaken by a     *)
(* membership change, by another coordinator or by its own drain between   *)
(* any two of them.                                                        *)
(***************************************************************************)
EXTENDS BalancedAssignment

CONSTANTS Boots,       \* process boots; an identity is never reused
          MaxFaults,   \* bound: lost requests, missed renewals, readiness changes
          Stopping     \* bound: the tasks that may drain or crash

ASSUME ControlAssumption ==
    Boots \subseteq Nat \ {0} /\ IsFiniteSet(Boots) /\ MaxFaults \in Nat /\ Stopping \subseteq Boots

VARIABLES
    \* Redis
    member,     \* boot -> lifecycle of its membership document, "none", "tombstone"
    coord,      \* holder of the coordinator lease, Nobody, or Orphan
    doc,        \* assignment document; version 0: none yet
    view,       \* partition -> projected document
    \* each task
    state,      \* executor state: "warming", "active", "draining", "off"
    ready,      \* phase, listener, failure and Redis freshness, of lifecycle.rs
    watch,      \* lifecycle's assignment_ready: the last control pass succeeded
    beat,       \* lifecycle in the heartbeat request in flight, "none"
    proc,       \* control loop: pc, its locals, stabilizer, token, view cache
    drain,      \* drain(): "no", "announce", "release", "wait", "done"
    \* bounds and history
    faults, announced

vars == <<member, coord, doc, view, state, ready, watch, beat, proc, drain, faults, announced>>

Nobody == 0
Orphan == -1      \* acquired, but its acquirer never learned the token
NoDocument == [version |-> 0, eligible |-> {}, owners |-> NoOwners]
NoCandidate == [set |-> {}, known |-> FALSE, elapsed |-> FALSE]
Idle == [pc |-> "idle", cur |-> NoDocument, seen |-> {}, next |-> NoDocument, pos |-> 0,
         token |-> FALSE, synced |-> 0, cand |-> NoCandidate]

Init ==
    /\ member = [b \in Boots |-> "none"]
    /\ coord = Nobody
    /\ doc = NoDocument
    /\ view = [p \in Partitions |-> NoDocument]
    /\ state = [b \in Boots |-> "warming"]
    /\ ready = [b \in Boots |-> TRUE]
    /\ watch = [b \in Boots |-> FALSE]
    /\ beat = [b \in Boots |-> "none"]
    /\ proc = [b \in Boots |-> Idle]
    /\ drain = [b \in Boots |-> "no"]
    /\ faults = 0
    /\ announced = {}

Fault == faults < MaxFaults /\ faults' = faults + 1

\* transition_unless_draining; a stopped task has no state to change.
Transition(b, next) ==
    state' = [state EXCEPT ![b] = IF @ \in {"draining", "off"} THEN @ ELSE next]

\* lifecycle.is_assignment_eligible
Serviceable(b) == ready[b] /\ watch[b]

\* The control pass of b ends: its locals are gone, and lifecycle learns
\* whether it succeeded (mark_assignment_ready).
EndPass(b, p, succeeded) ==
    /\ proc' = [proc EXCEPT ![b] = [Idle EXCEPT !.token = p.token, !.synced = p.synced,
                                                !.cand = p.cand]]
    /\ watch' = [watch EXCEPT ![b] = succeeded]

\* It goes on with the next await.
Continue(b, p) == proc' = [proc EXCEPT ![b] = p] /\ UNCHANGED watch

Stop(b) ==
    /\ state' = [state EXCEPT ![b] = "off"]
    /\ drain' = [drain EXCEPT ![b] = "done"]
    /\ proc' = [proc EXCEPT ![b] = Idle]
    /\ watch' = [watch EXCEPT ![b] = FALSE]

-----------------------------------------------------------------------------
(* Membership.                                                             *)

\* run_membership_heartbeat: choose the lifecycle and send it.
SendHeartbeat(b) ==
    /\ state[b] # "off" /\ beat[b] = "none"
    /\ LET life == IF state[b] = "draining" THEN "draining"
                   ELSE IF Serviceable(b) THEN "active" ELSE "warming"
       IN  /\ beat' = [beat EXCEPT ![b] = life]
           /\ IF life = "warming" THEN Transition(b, "warming") ELSE UNCHANGED state
    /\ UNCHANGED <<member, coord, doc, view, ready, watch, proc, drain, faults, announced>>

\* The heartbeat script: a tombstone and a DRAINING document stand.
Heartbeat_NoTombstone(b, life) ==
    IF member[b] = "draining" /\ life # "draining" THEN member[b] ELSE life
Heartbeat(b, life) ==
    IF member[b] = "tombstone" \/ (member[b] = "draining" /\ life # "draining")
    THEN member[b] ELSE life

\* The script runs; announced remembers what it left behind.
RunHeartbeat(b) ==
    /\ member' = [member EXCEPT ![b] = Heartbeat(b, beat[b])]
    /\ announced' = announced \cup {c \in {b} : member'[c] \in {"draining", "tombstone"}}

\* It ran, and the reply promotes or demotes this task.  The request of a task
\* that has stopped may still arrive.
HeartbeatDone(b) ==
    /\ beat[b] # "none"
    /\ RunHeartbeat(b)
    /\ beat' = [beat EXCEPT ![b] = "none"]
    /\ Transition(b, IF beat[b] = "active" THEN "active" ELSE "warming")
    /\ UNCHANGED <<coord, doc, view, ready, watch, proc, drain, faults>>

\* The heartbeat timed out and stays in flight, failed, or ran and lost its
\* reply: demote.
HeartbeatFails(b) ==
    /\ Fault
    /\ beat[b] # "none"
    /\ Transition(b, "warming")
    /\ \/ UNCHANGED <<member, announced, beat>>
       \/ UNCHANGED <<member, announced>> /\ beat' = [beat EXCEPT ![b] = "none"]
       \/ RunHeartbeat(b) /\ beat' = [beat EXCEPT ![b] = "none"]
    /\ UNCHANGED <<coord, doc, view, ready, watch, proc, drain>>

\* A membership document or tombstone reaches its TTL.  No request is in flight
\* then: it would carry an expiry that has passed, and is_assignment_eligible
\* refuses what it writes.
MemberExpires(b) ==
    /\ member[b] # "none" /\ beat[b] = "none" /\ state[b] = "off"
    /\ member' = [member EXCEPT ![b] = "none"]
    /\ UNCHANGED <<coord, doc, view, state, ready, watch, beat, proc, drain, faults, announced>>

\* A running task beats too late to keep its document.
MemberLost(b) ==
    /\ Fault
    /\ member[b] # "none" /\ beat[b] = "none" /\ state[b] # "off"
    /\ member' = [member EXCEPT ![b] = "none"]
    /\ UNCHANGED <<coord, doc, view, state, ready, watch, beat, proc, drain, announced>>

\* A local readiness predicate drops or comes back.
ReadinessChanges(b) ==
    /\ Fault
    /\ state[b] \in {"warming", "active"}
    /\ ready' = [ready EXCEPT ![b] = ~@]
    /\ UNCHANGED <<member, coord, doc, view, state, watch, beat, proc, drain, announced>>

-----------------------------------------------------------------------------
(* The control loop.                                                       *)

\* A control tick demotes a task that is not eligible and loads the document;
\* only an ACTIVE task goes on to coordinate.
Tick(b) ==
    /\ proc[b].pc = "idle" /\ state[b] # "off"
    /\ IF Serviceable(b) THEN UNCHANGED state ELSE Transition(b, "warming")
    /\ IF state'[b] = "active"
       THEN Continue(b, [proc[b] EXCEPT !.pc = "lease", !.cur = doc])
       ELSE EndPass(b, proc[b], TRUE)
    /\ UNCHANGED <<member, coord, doc, view, ready, beat, drain, faults, announced>>

\* reconcile_assignment renews the coordinator token, or tries to acquire a new
\* one, which resets the stabilizer.  drain takes the token under the same lock.
Coordinate(b) ==
    LET lost == [proc[b] EXCEPT !.token = FALSE,
                                !.cand = IF proc[b].token THEN NoCandidate ELSE @]
    IN  /\ proc[b].pc = "lease"
        /\ \/ \* drain began
              /\ state[b] # "active"
              /\ EndPass(b, proc[b], TRUE)
              /\ UNCHANGED <<coord, faults>>
           \/ \* another task coordinates
              /\ state[b] = "active" /\ coord \notin {Nobody, b}
              /\ EndPass(b, lost, TRUE)
              /\ UNCHANGED <<coord, faults>>
           \/ \* renewed
              /\ state[b] = "active" /\ proc[b].token /\ coord = b
              /\ Continue(b, [proc[b] EXCEPT !.pc = "decide"])
              /\ UNCHANGED <<coord, faults>>
           \/ \* acquired
              /\ state[b] = "active" /\ coord = Nobody
              /\ coord' = b
              /\ Continue(b, [proc[b] EXCEPT !.pc = "decide", !.token = TRUE,
                                             !.cand = NoCandidate])
              /\ UNCHANGED faults
           \/ \* acquired, but the reply is lost
              /\ Fault
              /\ state[b] = "active" /\ coord = Nobody
              /\ coord' = Orphan
              /\ EndPass(b, lost, FALSE)
        /\ UNCHANGED <<member, doc, view, state, ready, beat, drain, announced>>

\* list_live and is_assignment_eligible
Eligible == {b \in Boots : member[b] = "active"}

\* An owner that can no longer serve bypasses the stabilization window.
UrgentOwnerLoss(d) ==
    \E p \in Partitions :
        d.owners[p] # Unowned /\ member[d.owners[p]] \notin {"active", "draining"}

\* AssignmentStabilizer::should_reconcile, then reconcile or repair.
Decide(b) ==
    LET cur == proc[b].cur
        cand == proc[b].cand
        known == cand.known /\ cand.set = Eligible
        reload == [proc[b] EXCEPT !.pc = "load", !.cur = NoDocument, !.seen = Eligible]
        repair == [proc[b] EXCEPT !.pc = "sync", !.cur = NoDocument, !.next = cur]
    IN  /\ proc[b].pc = "decide"
        /\ Continue(b,
              IF cur.version = 0 \/ cur.eligible = Eligible \/ UrgentOwnerLoss(cur)
              THEN [reload EXCEPT !.cand = NoCandidate]
              ELSE IF known
              THEN IF cand.elapsed THEN reload ELSE repair
              ELSE [repair EXCEPT !.cand = [set |-> Eligible, known |-> TRUE,
                                            elapsed |-> FALSE]])
        /\ UNCHANGED <<member, coord, doc, view, state, ready, beat, drain, faults, announced>>

\* The stabilization window of an unchanged candidate passes.
WindowElapses(b) ==
    /\ proc[b].cand.known /\ ~proc[b].cand.elapsed
    /\ proc' = [proc EXCEPT ![b].cand.elapsed = TRUE]
    /\ UNCHANGED <<member, coord, doc, view, state, ready, watch, beat, drain, faults, announced>>

\* reconcile loads the document again and computes its successor.
Reconcile(b) ==
    LET next == [version |-> doc.version + 1, eligible |-> proc[b].seen,
                 owners |-> Balanced(doc.owners, proc[b].seen)]
        same == doc.version > 0 /\ doc.eligible = next.eligible /\ doc.owners = next.owners
    IN  /\ proc[b].pc = "load"
        /\ Continue(b, [proc[b] EXCEPT !.pc = IF same THEN "sync" ELSE "cas",
                                       !.next = IF same THEN doc ELSE next,
                                       !.seen = {}])
        /\ UNCHANGED <<member, coord, doc, view, state, ready, beat, drain, faults, announced>>

\* The guard of compare_and_set: the exact token and the prior version.
MayWrite_Unfenced(b, next) == TRUE
MayWrite(b, next) == proc[b].token /\ coord = b /\ doc.version + 1 = next.version

\* compare_and_set; a refusal ends the pass, a lost reply fails it.
CompareAndSet(b) ==
    /\ proc[b].pc = "cas"
    /\ IF MayWrite(b, proc[b].next)
       THEN /\ doc' = proc[b].next
            /\ \/ Continue(b, [proc[b] EXCEPT !.pc = "sync"]) /\ UNCHANGED faults
               \/ EndPass(b, proc[b], FALSE) /\ Fault
       ELSE EndPass(b, proc[b], TRUE) /\ UNCHANGED <<doc, faults>>
    /\ UNCHANGED <<member, coord, view, state, ready, beat, drain, announced>>

\* The projection script of one partition: newer views and equal ones stand.
Projected(old, new) == IF old.version >= new.version THEN old ELSE new

LastView(pos) == pos = PartitionCount - 1

\* last_synced_view_version is stored only after the last view.
Cached_Early(p) == p.next.version
Cached(p) == IF LastView(p.pos) THEN p.next.version ELSE p.synced

\* sync_partition_views, one partition at a time.
SyncViews(b) ==
    LET p == proc[b]
        after == [p EXCEPT !.synced = Cached(p)]
    IN  /\ p.pc = "sync"
        /\ IF p.pos = 0 /\ p.synced = p.next.version
           THEN EndPass(b, p, TRUE) /\ UNCHANGED view
           ELSE /\ view' = [view EXCEPT ![p.pos] = Projected(@, p.next)]
                /\ IF LastView(p.pos) THEN EndPass(b, after, TRUE)
                   ELSE Continue(b, [after EXCEPT !.pos = @ + 1])
        /\ UNCHANGED <<member, coord, doc, state, ready, beat, drain, faults, announced>>

\* A coordination operation fails: the pass ends, the next tick starts over.
PassFails(b) ==
    /\ Fault
    /\ state[b] # "off"
    /\ EndPass(b, proc[b], FALSE)
    /\ UNCHANGED <<member, coord, doc, view, state, ready, beat, drain, announced>>

\* The coordinator lease expires unless an ACTIVE holder renews it...
CoordinatorExpires_NoPX == FALSE /\ UNCHANGED vars
CoordinatorExpires ==
    /\ coord \in {Orphan} \cup {b \in Boots : state[b] # "active"}
    /\ coord' = Nobody
    /\ UNCHANGED <<member, doc, view, state, ready, watch, beat, proc, drain, faults, announced>>

\* ...or renews it too late.
CoordinatorLost ==
    /\ Fault
    /\ coord \in Boots /\ state[coord] = "active"
    /\ coord' = Nobody
    /\ UNCHANGED <<member, doc, view, state, ready, watch, beat, proc, drain, announced>>

-----------------------------------------------------------------------------
(* Stopping.                                                               *)

BeginDraining(b) ==
    /\ b \in Stopping /\ state[b] \in {"warming", "active"}
    /\ state' = [state EXCEPT ![b] = "draining"]
    /\ drain' = [drain EXCEPT ![b] = "announce"]
    /\ UNCHANGED <<member, coord, doc, view, ready, watch, beat, proc, faults, announced>>

\* publish_membership, best effort.
Announce(b) ==
    /\ drain[b] = "announce"
    /\ \/ /\ member' = [member EXCEPT ![b] = Heartbeat(b, "draining")]
          /\ announced' = announced \cup {b}
          /\ UNCHANGED faults
       \/ Fault /\ UNCHANGED <<member, announced>>
    /\ drain' = [drain EXCEPT ![b] = "release"]
    /\ UNCHANGED <<coord, doc, view, state, ready, watch, beat, proc>>

\* Take the token under the coordination lock, which no pass holds before it
\* coordinates, and compare-delete the lease, best effort.
ReleaseCoordinator(b) ==
    /\ drain[b] = "release" /\ proc[b].pc \in {"idle", "lease"}
    /\ drain' = [drain EXCEPT ![b] = "wait"]
    /\ \/ /\ coord' = IF proc[b].token /\ coord = b THEN Nobody ELSE coord
          /\ UNCHANGED faults
       \/ Fault /\ proc[b].token /\ UNCHANGED coord
    /\ proc' = [proc EXCEPT ![b].token = FALSE]
    /\ UNCHANGED <<member, doc, view, state, ready, watch, beat, announced>>

\* The wait for the executor handles ends: all handed off, one failed, or the
\* deadline passed (PartitionLease models the executors).  Removal leaves a
\* tombstone unless it fails.
FinishDrain(b) ==
    /\ drain[b] = "wait"
    /\ \/ /\ member' = [member EXCEPT ![b] = "tombstone"]
          /\ announced' = announced \cup {b}
       \/ UNCHANGED <<member, announced>>
    /\ Stop(b)
    /\ UNCHANGED <<coord, doc, view, ready, beat, faults>>

Crash(b) ==
    /\ b \in Stopping /\ state[b] # "off"
    /\ Stop(b)
    /\ UNCHANGED <<member, coord, doc, view, ready, beat, faults, announced>>

-----------------------------------------------------------------------------

Control(b) ==
    Tick(b) \/ Coordinate(b) \/ Decide(b) \/ Reconcile(b)
    \/ CompareAndSet(b) \/ SyncViews(b)

Drain(b) == Announce(b) \/ ReleaseCoordinator(b) \/ FinishDrain(b)

Next ==
    \/ \E b \in Boots :
          \/ SendHeartbeat(b) \/ HeartbeatDone(b) \/ HeartbeatFails(b)
          \/ MemberExpires(b) \/ MemberLost(b) \/ ReadinessChanges(b)
          \/ Control(b) \/ WindowElapses(b) \/ PassFails(b)
          \/ BeginDraining(b) \/ Drain(b) \/ Crash(b)
    \/ CoordinatorExpires \/ CoordinatorLost

\* A running task keeps beating, ticking and draining, Redis answers, and what is
\* not refreshed expires.
Fairness ==
    /\ \A b \in Boots :
          /\ WF_vars(SendHeartbeat(b) \/ HeartbeatDone(b))
          /\ WF_vars(Control(b)) /\ WF_vars(WindowElapses(b)) /\ WF_vars(Drain(b))
          /\ WF_vars(MemberExpires(b))
    /\ WF_vars(CoordinatorExpires)

Spec == Init /\ [][Next]_vars /\ Fairness

-----------------------------------------------------------------------------
(* Properties.                                                             *)

Documents == {doc} \cup {view[p] : p \in Partitions}

TypeOK ==
    /\ \A b \in Boots :
          /\ member[b] \in {"none", "warming", "active", "draining", "tombstone"}
          /\ beat[b] \in {"none", "warming", "active", "draining"}
          /\ state[b] \in {"warming", "active", "draining", "off"}
          /\ proc[b].pc \in {"idle", "lease", "decide", "load", "cas", "sync"}
          /\ proc[b].pos \in Partitions
    /\ coord \in Boots \cup {Nobody, Orphan}
    /\ \A d \in Documents : d.version \in Nat /\ d.eligible \subseteq Boots
    /\ faults \in 0 .. MaxFaults

\* A partition view only ever shows a committed document, and two documents
\* with one version are the same document: no coordinator, however delayed,
\* makes the projection script find a conflict.
ViewsAreCommitted ==
    /\ \A p \in Partitions : view[p].version <= doc.version
    /\ \A d, e \in Documents \cup {proc[b].next : b \in {c \in Boots : proc[c].pc = "sync"}} :
          d.version = e.version => d = e

\* A boot's cached version is a proof: once it skips the projection of a
\* version, every view has reached that version.
CacheIsProof ==
    \A b \in Boots, p \in Partitions : view[p].version >= proc[b].synced

\* Once a boot has announced DRAINING or was retired, no request still in
\* flight makes it eligible again.
NoResurrection == \A b \in announced : member[b] \notin {"active", "warming"}

\* Neither the document nor a view ever goes back to an older version, however
\* late a superseded coordinator writes.
NoRollback ==
    [][/\ doc'.version >= doc.version
       /\ \A p \in Partitions : view'[p].version >= view[p].version]_vars

\* Every partition view follows the committed documents, in their order.
ViewsInOrder == [](TypeOK /\ ViewsAreCommitted) /\ NoRollback

\* When faults cease and some task is up, the document settles on the tasks that are
\* active, and every partition view shows it.
Converged ==
    /\ doc.eligible = {b \in Boots : state[b] = "active"}
    /\ \A p \in Partitions : view[p] = doc
Converges == <>[]((\E b \in Boots : state[b] = "active") => Converged)

====
