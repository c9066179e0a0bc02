---- MODULE CommandRecovery ----
(***************************************************************************)
(* The life of a game's commands across executor terms: the command stream *)
(* and its consumer group, the decision journal, the recovery checkpoint   *)
(* and the planned-handoff watermark in Redis, and the game actor that     *)
(* rebuilds itself from them (server/src/game_executor_v2.rs and the       *)
(* fenced scripts of server/src/game_bus.rs).                              *)
(*                                                                         *)
(* One game, one client session.  Every script checks the lease token, so  *)
(* only the current term writes (PartitionLease).  A write whose reply is  *)
(* lost kills its actor: that is the write followed by Crash.              *)
(***************************************************************************)
EXTENDS SessionOutcomes, Sequences

CONSTANTS MaxEntries,    \* bound: entries of the command stream
          MaxTicks,      \* bound: event sequence up to which tick events occur
          MaxTerms       \* bound: executor terms; the last one is not ended

ASSUME BoundsAssumption ==
    /\ MaxEntries \in Nat \ {0}
    /\ MaxTicks \in Nat
    /\ MaxTerms \in Nat \ {0}

VARIABLES
    \* Redis
    stream,      \* command stream; position = stream id, Created or a client sequence
    delivered,   \* last-delivered id of the consumer group
    pel,         \* delivered, unacknowledged ids
    trimmed,     \* ids below this one were removed from the stream
    decisions,   \* decision journal: stream id -> decision
    ckpt,        \* recovery envelope, NoCkpt before the first checkpoint
    marker,      \* planned-handoff watermark, 0: none
    \* the executor term and its game actor
    exec,        \* "off", "boot", "activating", "run", "barred"
    scan,        \* last id dispatched this term
    handoff,     \* handoff_cancel
    actor,
    late,        \* a checkpoint script sent, then dropped by the handoff
    \* history
    terms,       \* terms so far
    told,        \* client sequence -> outcomes published for it
    frontier,    \* highest event sequence visible when authority moved
    chain,       \* how authority moved since the last recovery snapshot
    behind       \* kinds of move after which a snapshot was not beyond frontier

durable == <<stream, delivered, pel, trimmed, decisions, ckpt, marker>>
history == <<told, frontier, chain, behind>>
vars == <<durable, exec, scan, handoff, actor, late, terms, history>>

Created == 0             \* the GameCreated entry
Rejected == 0            \* outcomes: Rejected, or the server sequence it was scheduled as
ClientSequences == 1 .. MaxSequence
NoCkpt == [cursor |-> -1]
NoLate == [env |-> NoCkpt, covered |-> {}]

\* What an envelope persists of an actor: command_cursor, one session of
\* resolved_client_commands, next_event_stream_sequence (the last one used) and
\* the game state, reduced to the commands scheduled in it; the server command
\* counter is its length.
NewEnvelope == [cursor |-> 0, session |-> NewSession, seq |-> 0, ran |-> <<>>]

\* Its mailbox holds at most the one delivery that is outstanding.
Actor(env, mark) ==
    [up |-> TRUE, live |-> FALSE, task |-> "idle", env |-> env, pending |-> {}, mark |-> mark,
     mail |-> FALSE]
NoActor == [Actor(NewEnvelope, 0) EXCEPT !.up = FALSE]

Init ==
    /\ stream = <<Created>> /\ delivered = 0 /\ pel = {} /\ trimmed = 0
    /\ decisions = [i \in {} |-> i] /\ ckpt = NoCkpt /\ marker = 0
    /\ exec = "off" /\ scan = 0 /\ handoff = FALSE
    /\ actor = NoActor /\ late = NoLate /\ terms = 0
    /\ told = [n \in ClientSequences |-> {}]
    /\ frontier = 0 /\ chain = "none" /\ behind = {}

Undispatched == {i \in pel : i > scan}
Idle == actor.up => actor.task = "idle"

-----------------------------------------------------------------------------
(* Redis scripts.                                                          *)

\* XACK of ids and HDEL of their decisions, always together.
AckAndForget_KeepsDecisions(ids) ==
    /\ pel' = pel \ ids
    /\ UNCHANGED decisions
AckAndForget(ids) ==
    /\ pel' = pel \ ids
    /\ decisions' = Restrict(decisions, DOMAIN decisions \ ids)

\* checkpoint_and_ack_fenced
SaveCheckpoint(env, covered) ==
    /\ ckpt' = env
    /\ marker' = 0
    /\ AckAndForget(covered)
    /\ UNCHANGED <<stream, delivered, trimmed>>

\* An event became visible at sequence s.
Visible(s) == frontier' = Max({frontier, s})

-----------------------------------------------------------------------------
(* Clients and the consumer group.                                         *)

\* A gateway appends a client's command, a new one or a resend.
Submit(n) ==
    /\ Len(stream) < MaxEntries
    /\ stream' = Append(stream, n)
    /\ UNCHANGED <<delivered, pel, trimmed, decisions, ckpt, marker,
                   exec, scan, handoff, actor, late, terms, history>>

\* read_new_fenced: XREADGROUP hands a bounded batch to this consumer.
ReadNew ==
    /\ exec \in {"boot", "run"}
    /\ Undispatched = {}
    /\ \E last \in delivered + 1 .. Len(stream) :
          /\ delivered' = last
          /\ pel' = pel \cup (delivered + 1 .. last)
    /\ UNCHANGED <<stream, trimmed, decisions, ckpt, marker,
                   exec, scan, handoff, actor, late, terms, history>>

\* trim_executor_commands_fenced: MINID is the oldest pending id, or the
\* last-delivered id when nothing is pending.
TrimThreshold_IgnoresPending == delivered
TrimThreshold == IF pel # {} THEN Min(pel) ELSE delivered

Trim ==
    /\ exec # "off"
    /\ TrimThreshold > trimmed
    /\ trimmed' = TrimThreshold
    /\ UNCHANGED <<stream, delivered, pel, decisions, ckpt, marker,
                   exec, scan, handoff, actor, late, terms, history>>

-----------------------------------------------------------------------------
(* Taking over.                                                            *)

\* load_partition_recovery_fenced; the new token fences what is still in flight.
Takeover ==
    /\ exec = "off"
    /\ exec' = "boot"
    /\ terms' = terms + 1
    /\ scan' = 0
    /\ handoff' = FALSE
    /\ late' = NoLate
    /\ actor' = IF ckpt = NoCkpt THEN NoActor ELSE Actor(ckpt, marker)
    /\ UNCHANGED <<durable, history>>

\* The dispatcher reached id: the actor took it into env, and awaits task.
Incorporated(id, env, task) ==
    /\ scan' = id
    /\ actor' = [actor EXCEPT !.env = [env EXCEPT !.cursor = id],
                              !.pending = @ \cup {id},
                              !.task = task, !.mail = FALSE]
    /\ UNCHANGED <<stream, delivered, pel, trimmed, ckpt, marker,
                   exec, handoff, late, terms, chain, behind>>

\* Entries below the game's cursor are covered by its checkpoint.
AckDuplicate(id) ==
    /\ actor.up /\ id <= actor.env.cursor
    /\ scan' = id
    /\ AckAndForget({id})
    /\ UNCHANGED <<stream, delivered, trimmed, ckpt, marker,
                   exec, handoff, actor, late, terms, history>>

\* GameCreated starts an actor from a fresh envelope.
Create(id) ==
    /\ stream[id] = Created /\ ~actor.up
    /\ scan' = id
    /\ actor' = [Actor([NewEnvelope EXCEPT !.cursor = id], 0) EXCEPT !.pending = {id}]
    /\ UNCHANGED <<durable, exec, handoff, late, terms, history>>

\* publish_command_decision_fenced, by a live actor only: the decision and its
\* event become durable together.
Journalled_Not(id, n, o, fence, env) == decisions
Journalled(id, n, o, fence, env) ==
    [i \in DOMAIN decisions \cup {id} |->
        IF i # id THEN decisions[i]
        ELSE [n |-> n, o |-> o, fence |-> fence,
              seq |-> env.seq + 1, counter |-> Len(env.ran)]]

Publish(id, n, o, fence, env) ==
    IF actor.live
    THEN /\ decisions' = Journalled(id, n, o, fence, env)
         /\ told' = [told EXCEPT ![n] = @ \cup {o}]
         /\ Visible(env.seq + 1)
         /\ Incorporated(id, [env EXCEPT !.seq = @ + 1], "idle")
    ELSE /\ Incorporated(id, env, "idle")
         /\ UNCHANGED <<decisions, told, frontier>>

\* incorporate_v2_command without a recorded decision.
Undecided(id) ==
    LET n == stream[id]
        env == actor.env
        s == env.session
    IN  \/ /\ Recorded(s, n)
           /\ Publish(id, n, s.outs[n], 0, env)
        \/ /\ RejectionFenceFor(s, n)
           /\ Publish(id, n, Rejected, s.fence, env)
        \/ \* pruned: a fresh snapshot resends the watermark, unless a handoff began
           /\ IsTerminallyResolved(s, n) /\ ~Recorded(s, n) /\ ~RejectionFenceFor(s, n)
           /\ Incorporated(id, env, IF actor.live /\ ~handoff THEN "refresh" ELSE "idle")
           /\ UNCHANGED <<decisions, told, frontier>>
        \/ /\ ~IsTerminallyResolved(s, n) /\ SparseWindowIsFull(s, n)
           /\ LET fenced == InstallRejectionFence(s, n)
              IN  Publish(id, n, Rejected, fenced.fence, [env EXCEPT !.session = fenced])
        \/ \* a new command is scheduled or refused by the game
           /\ ~IsTerminallyResolved(s, n) /\ ~SparseWindowIsFull(s, n)
           /\ \E run \in {env.ran, Append(env.ran, n)} :
                 LET o == IF run = env.ran THEN Rejected ELSE Len(run)
                 IN  Publish(id, n, o, 0,
                             [env EXCEPT !.ran = run, !.session = Record(s, n, o)])

\* incorporate_recorded_decision: the envelope after replaying decision d.
FencedBy_Forgets(s, d) == s
FencedBy(s, d) == IF d.fence = 0 THEN s ELSE InstallRejectionFence(s, d.fence)

Fresh(s, n) == ~IsTerminallyResolved(s, n)

Replayed(env, d) ==
    LET s == FencedBy(env.session, d)
    IN  [env EXCEPT !.session = IF Fresh(s, d.n) THEN Record(s, d.n, d.o) ELSE s,
                    !.ran = IF Fresh(s, d.n) /\ d.o # Rejected THEN Append(@, d.n) ELSE @,
                    !.seq = d.seq]

\* The checks of incorporate_recorded_decision and replay_scheduled_command; a
\* failed one ends the term, and every later one, before the game is served.
ReplayBails(env, d) ==
    LET s == FencedBy(env.session, d)
    IN  \/ d.seq <= env.seq
        \/ Recorded(s, d.n) /\ s.outs[d.n] # d.o
        \/ RejectionFenceFor(s, d.n) /\ d.o # Rejected
        \/ Fresh(s, d.n) /\ ~CanRecord(s, d.n)
        \/ Fresh(s, d.n) /\ d.o # Rejected /\ d.o # Len(env.ran) + 1
        \/ Len(Replayed(env, d).ran) # d.counter

Replay(id) ==
    /\ ~ReplayBails(actor.env, decisions[id])
    /\ Incorporated(id, Replayed(actor.env, decisions[id]), "idle")
    /\ UNCHANGED <<decisions, told, frontier>>

\* Decisions are attached to reclaimed deliveries; a live one has none yet.
NextId == Min(Undispatched)
HasDecision(id) == exec = "boot" /\ id \in DOMAIN decisions

\* After the handoff the actor takes in only what was already in its mailbox, with
\* the semantics it still has.
Serving == ~handoff \/ actor.mail

\* dispatch_batch: one outstanding delivery per game.
Dispatch ==
    /\ exec \in {"boot", "run"}
    /\ Undispatched # {}
    /\ Idle /\ (exec = "run" /\ actor.up => actor.live)
    /\ LET id == NextId
       IN  \/ ~handoff /\ (AckDuplicate(id) \/ Create(id))
           \/ /\ Serving /\ actor.up /\ id > actor.env.cursor
              /\ IF HasDecision(id) THEN Replay(id)
                 ELSE id \notin DOMAIN decisions /\ Undecided(id)

\* The bootstrap loops end at an empty read; a handoff skips what is left, after
\* the delivery that is outstanding.
ReplayDone ==
    /\ exec = "boot" /\ ~actor.mail
    /\ handoff \/ (Undispatched = {} /\ delivered = Len(stream))
    /\ exec' = "activating"
    /\ scan' = Max(pel \cup {scan})
    /\ UNCHANGED <<durable, handoff, actor, late, terms, history>>

-----------------------------------------------------------------------------
(* The actor: activation, ticks, checkpoints, snapshots.                   *)

\* activate: merge the watermark; the checkpoint and the snapshot follow.
Merged_Not(seq, mark) == seq
Merged(seq, mark) == Max({seq, mark})

StartActivation ==
    /\ exec \in {"activating", "run"}
    /\ actor.up /\ ~actor.live /\ actor.task = "idle"
    /\ ~handoff
    /\ actor' = [actor EXCEPT !.env.seq = Merged(@, actor.mark),
                              !.mark = 0,
                              !.task = "activate"]
    /\ UNCHANGED <<durable, exec, scan, handoff, late, terms, history>>

\* activate_all was answered by every actor (the partition's other games take
\* their own time; this one may already be live and ticking).
BootstrapDone ==
    /\ exec = "activating"
    /\ actor.up => actor.live \/ (handoff /\ actor.task = "idle")
    /\ exec' = "run"
    /\ UNCHANGED <<durable, scan, handoff, actor, late, terms, history>>

\* advance_live publishes an event of the game.
TickEvent ==
    /\ actor.up /\ actor.live /\ actor.task = "idle"
    /\ ~handoff
    /\ actor.env.seq < MaxTicks
    /\ actor' = [actor EXCEPT !.env.seq = @ + 1]
    /\ Visible(actor.env.seq + 1)
    /\ UNCHANGED <<durable, exec, scan, handoff, late, terms, told, chain, behind>>

\* The checkpoint interval fires.
StartCheckpoint ==
    /\ actor.up /\ actor.live /\ actor.task = "idle"
    /\ ~handoff
    /\ actor.pending # {} \/ actor.env # ckpt
    /\ actor' = [actor EXCEPT !.task = "periodic"]
    /\ UNCHANGED <<durable, exec, scan, handoff, late, terms, history>>

\* checkpoint: the script ran.  A snapshot follows unless the checkpoint was a
\* periodic one with no snapshot requested.
Checkpoint ==
    /\ actor.up /\ actor.task \in {"activate", "refresh", "periodic"}
    /\ SaveCheckpoint(actor.env, actor.pending)
    /\ \E next \in {"idle", "snapshot"} :
          /\ next = "idle" => actor.task = "periodic"
          /\ next = "snapshot" => actor.task # "periodic" \/ actor.env.seq < MaxTicks
          /\ actor' = [actor EXCEPT !.pending = {}, !.task = next]
    /\ UNCHANGED <<exec, scan, handoff, late, terms, history>>

\* publish_event(Snapshot): a recovery snapshot re-anchors every replica, so
\* authority's moves up to it are settled.
SnapshotVisible(s) ==
    IF actor.live
    THEN Visible(s) /\ UNCHANGED <<chain, behind>>
    ELSE /\ behind' = behind \cup {c \in {chain} : c # "none" /\ s <= frontier}
         /\ frontier' = s
         /\ chain' = "none"

PublishSnapshot ==
    /\ actor.up /\ actor.task = "snapshot"
    /\ actor' = [actor EXCEPT !.env.seq = @ + 1, !.task = "idle", !.live = TRUE]
    /\ SnapshotVisible(actor.env.seq + 1)
    /\ UNCHANGED <<durable, exec, scan, handoff, late, terms, told>>

\* The handoff drops a checkpoint future: its script may never have been sent,
\* or it is on its way on the checkpoint connection.
DropCheckpoint ==
    /\ handoff
    /\ actor.up /\ actor.task \in {"activate", "refresh", "periodic"}
    /\ actor' = [actor EXCEPT !.task = "idle"]
    /\ late' \in {NoLate, [env |-> actor.env, covered |-> actor.pending]}
    /\ UNCHANGED <<durable, exec, scan, handoff, terms, history>>

\* The handoff drops a snapshot publication: the sequence is used either way.
DropSnapshot ==
    /\ handoff
    /\ actor.up /\ actor.task = "snapshot"
    /\ actor' = [actor EXCEPT !.env.seq = @ + 1, !.task = "idle"]
    /\ \/ SnapshotVisible(actor.env.seq + 1)
       \/ UNCHANGED <<frontier, chain, behind>>
    /\ UNCHANGED <<durable, exec, scan, handoff, late, terms, told>>

\* A dropped checkpoint script reaches Redis while its token still holds.
LateCheckpoint ==
    /\ late # NoLate
    /\ SaveCheckpoint(late.env, late.covered)
    /\ late' = NoLate
    /\ UNCHANGED <<exec, scan, handoff, actor, terms, history>>

-----------------------------------------------------------------------------
(* Giving authority up.                                                    *)

\* A delivery may wait in the mailbox of an actor that serves deliveries, behind
\* the operation the actor is at; a refresh belongs to the outstanding one.
MayHoldMail ==
    /\ actor.up /\ (exec = "boot" \/ (exec = "run" /\ actor.live /\ actor.task # "refresh"))
    /\ Undispatched # {} /\ NextId > actor.env.cursor

\* The watchdog sees the assignment move, or a drain begins.
StartHandoff ==
    /\ exec # "off" /\ ~handoff /\ terms < MaxTerms
    /\ handoff' = TRUE
    /\ \E mail \in BOOLEAN : /\ mail => MayHoldMail
                             /\ actor' = [actor EXCEPT !.mail = mail]
    /\ UNCHANGED <<durable, exec, scan, late, terms, history>>

\* release_bootstrap_authority: no barrier, no watermark.
ReleaseBootstrap ==
    /\ exec \in {"boot", "activating"} /\ terms < MaxTerms
    /\ exec' = "off"
    /\ actor' = NoActor
    /\ late' = NoLate
    /\ chain' = IF chain = "crash" THEN chain ELSE "bootstrap"
    /\ UNCHANGED <<durable, scan, handoff, terms, told, frontier, behind>>

\* cooperative_handoff: the actor's FIFO barrier, behind the operation it awaits
\* and the delivery in its mailbox, persists its watermark.
AtBarrier_Checkpointed == Idle /\ ~actor.mail /\ actor.pending = {}
AtBarrier == Idle /\ ~actor.mail

Barrier ==
    /\ exec = "run" /\ handoff
    /\ AtBarrier
    /\ exec' = "barred"
    /\ marker' = IF actor.up THEN actor.env.seq ELSE marker
    /\ chain' = IF chain \in {"crash", "bootstrap"} THEN chain
                ELSE IF actor.up /\ ~actor.live THEN "bootstrap" ELSE "barrier"
    /\ actor' = NoActor
    /\ UNCHANGED <<stream, delivered, pel, trimmed, decisions, ckpt,
                   scan, handoff, late, terms, told, frontier, behind>>

Release ==
    /\ exec = "barred"
    /\ exec' = "off"
    /\ late' = NoLate
    /\ UNCHANGED <<durable, scan, handoff, actor, terms, history>>

\* The process dies, the lease is lost, or an operation fails: the actor's
\* memory is gone, and nothing was promised about the event sequence.
Crash ==
    /\ exec # "off" /\ terms < MaxTerms
    /\ exec' = "off"
    /\ actor' = NoActor
    /\ chain' = "crash"
    /\ frontier' = 0
    /\ UNCHANGED <<durable, scan, handoff, late, terms, told, behind>>

ExecutorStep ==
    \/ ReadNew \/ Takeover \/ Dispatch \/ ReplayDone \/ StartActivation \/ BootstrapDone
    \/ StartCheckpoint \/ Checkpoint \/ PublishSnapshot \/ DropCheckpoint \/ DropSnapshot
    \/ Barrier \/ Release

Next ==
    \/ \E n \in ClientSequences : Submit(n)
    \/ ExecutorStep
    \/ TickEvent \/ Trim \/ LateCheckpoint
    \/ StartHandoff \/ ReleaseBootstrap \/ Crash

\* The tasks of a term keep running while it holds the lease, and the assigned
\* boot takes over a free partition.
Spec == Init /\ [][Next]_vars /\ WF_vars(ExecutorStep)

-----------------------------------------------------------------------------
(* Properties.                                                             *)

\* What a successor rebuilds from Redis alone, should the actor vanish now: the
\* checkpoint, and over it the decisions of the entries beyond its cursor.
ReplayedTo[i \in 0 .. delivered] ==
    IF i = 0 \/ i <= ckpt.cursor THEN IF ckpt = NoCkpt THEN NewEnvelope ELSE ckpt
    ELSE IF i \in DOMAIN decisions THEN Replayed(ReplayedTo[i - 1], decisions[i])
    ELSE ReplayedTo[i - 1]
Rebuilt == ReplayedTo[delivered]

TypeOK ==
    /\ stream \in Seq(ClientSequences \cup {Created})
    /\ delivered \in 0 .. Len(stream) /\ trimmed \in 0 .. delivered
    /\ pel \subseteq 1 .. delivered
    /\ DOMAIN decisions \subseteq 1 .. delivered
    /\ marker \in Nat
    /\ exec \in {"off", "boot", "activating", "run", "barred"}
    /\ scan \in 0 .. delivered
    /\ actor.task \in {"idle", "activate", "refresh", "periodic", "snapshot"}
    /\ actor.pending \subseteq 1 .. delivered
    /\ behind \subseteq {"none", "barrier", "bootstrap"}

\* A live actor never holds state that its death would lose: replaying the
\* decision journal over the checkpoint rebuilds its commands and its session,
\* at every instant between the two writes.
RecoveryExact ==
    actor.up /\ actor.live =>
        /\ Rebuilt.ran = actor.env.ran
        /\ Rebuilt.session = actor.env.session
        /\ Rebuilt.seq <= actor.env.seq

\* What a client was told stays true for every later executor: its command is
\* resolved in the rebuilt session and, if scheduled, it is in the rebuilt game
\* under the server sequence the client was told.
ToldIsKept ==
    \A n \in ClientSequences : \A o \in told[n] :
        /\ IsTerminallyResolved(Rebuilt.session, n)
        /\ o # Rejected => o <= Len(Rebuilt.ran) /\ Rebuilt.ran[o] = n

\* Crashes, takeovers and resends never make two published outcomes of one
\* command disagree, and never run one twice.
ExactlyOneOutcome ==
    /\ \A n \in ClientSequences : Cardinality(told[n]) <= 1
    /\ IsInjective(actor.env.ran) /\ IsInjective(Rebuilt.ran)

\* An outcome a client was told stands: it is the only one, and every later
\* executor rebuilds it, whatever crashes, takeovers and resends happen.
OutcomesStand == ToldIsKept /\ ExactlyOneOutcome

\* No command is lost: an entry no checkpoint covers is still in the stream,
\* and pending or not yet delivered.
NothingLost ==
    \A i \in 1 .. Len(stream) :
        i > ckpt.cursor => i >= trimmed /\ (i \in pel \/ i > delivered)

\* No bootstrap fails on its own journal: every decision belongs to a pending
\* entry, passes the replay checks in turn, and is never decided again.
ReplayNeverBails ==
    /\ DOMAIN decisions \subseteq pel
    /\ exec \in {"boot", "run"} /\ Undispatched # {} /\ actor.up /\ NextId > actor.env.cursor =>
          IF HasDecision(NextId) THEN ~ReplayBails(actor.env, decisions[NextId])
          ELSE ~Serving \/ NextId \notin DOMAIN decisions

\* After a handoff through the barrier of an activated actor, the successor's
\* recovery snapshot is beyond every event that was visible before.
BarrierHandoffBeyond == "barrier" \notin behind

\* The same, of every planned transfer of authority.
PlannedHandoffBeyond == behind = {}

====
