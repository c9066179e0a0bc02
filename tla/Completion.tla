---- MODULE Completion ----
(***************************************************************************)
(* How one finished match is recorded and paid out: the game actor commits *)
(* an immutable completion record in one fenced Redis script, and the      *)
(* drain of whichever executor term holds the partition applies the        *)
(* record's effects to DynamoDB and retires it (server/src/completion.rs,  *)
(* commit_completion and drain_pending_completions of game_executor_v2.rs, *)
(* the completion scripts of game_bus.rs, transact_completion_effect of    *)
(* db/dynamodb.rs).                                                        *)
(*                                                                         *)
(* A request that nobody awaits any more stays in flight and may still be  *)
(* applied.  Redis scripts name the lease token of their term, DynamoDB    *)
(* transactions do not.  One effect of each kind stands for one per player.*)
(***************************************************************************)
EXTENDS Naturals, Sequences, FiniteSets, Functions, SequencesExt

CONSTANTS MaxTerms,    \* bound: executor terms; the last one is not ended
          MaxFaults    \* bound: requests whose answer is lost or that fail

ASSUME BoundsAssumption ==
    /\ MaxTerms \in Nat \ {0}
    /\ MaxFaults \in Nat

VARIABLES
    solo,       \* the match is a solo game
    \* Redis
    lease,      \* term whose token the lease key holds, 0: none
    active,     \* the game is in active_games: a recovery rebuilds its actor
    record,     \* revision of the completion record, 0: none
    notified,   \* revision of the terminal publication marker, 0: none
    pending,    \* the game is in pending_completions
    done,       \* completion_effects_done
    journal,    \* the replay journal exists
    matched,    \* matchmaking still maps the players to this game
    \* DynamoDB
    anchor,     \* revision of the completion anchor, 0: none
    markers,    \* effects whose persistent marker exists
    \* the executor of the term
    up,         \* its process runs and believes it holds the lease
    actor,      \* game actor: phase and revision of its pending_completion
    drain,      \* the pass over pending completions
    flight,     \* requests sent and not yet applied or refused
    \* history
    terms, faults,
    paid,       \* effect -> how often its mutation was applied
    published   \* revisions whose terminal snapshot was published

redis == <<active, record, notified, pending, done, journal, matched>>
dynamo == <<anchor, markers, paid>>
vars == <<lease, redis, dynamo, up, actor, drain, flight, terms, faults, published>>

Terms == 1 .. MaxTerms

\* The order in which materialize_completion lists the effects.  PersistGame
\* comes after progression, so that a replay outage cannot withhold it.
EffectOrder_RankingFirst == IF solo THEN <<"high_score", "xp", "game">>
                                    ELSE <<"xp", "ranking", "mmr", "game">>
EffectOrder == IF solo THEN <<"xp", "game", "high_score">>
                       ELSE <<"xp", "mmr", "ranking", "game">>
Effects == Range(EffectOrder)

\* Markers that an effect's transaction requires (completion_effect_dependency_guard).
Requires(e) == CASE e = "ranking" -> {"mmr"}
                 [] e = "high_score" -> {"game"}
                 [] OTHER -> {}

NoActor == [phase |-> "none", rev |-> 0]
Idle == [phase |-> "idle", rev |-> 0, seen |-> {}, at |-> 0]
Request(kind, rev, e) == [kind |-> kind, term |-> lease, rev |-> rev, effect |-> e]

Init ==
    /\ solo \in BOOLEAN
    /\ lease = 0 /\ active = TRUE /\ record = 0 /\ notified = 0 /\ pending = FALSE
    /\ done = {} /\ journal = TRUE /\ matched = TRUE
    /\ anchor = 0 /\ markers = {}
    /\ up = FALSE /\ actor = NoActor /\ drain = Idle /\ flight = {}
    /\ terms = 0 /\ faults = 0
    /\ paid = [e \in Effects |-> 0] /\ published = {}

-----------------------------------------------------------------------------
(* Terms.                                                                  *)

\* A boot acquires the free lease and rebuilds the actors of active_games.
Takeover ==
    /\ lease = 0 /\ terms < MaxTerms
    /\ terms' = terms + 1 /\ lease' = terms + 1 /\ up' = TRUE
    /\ actor' = IF active THEN [phase |-> "playing", rev |-> 0] ELSE NoActor
    /\ UNCHANGED <<redis, dynamo, drain, flight, faults, published>>

\* Crash, lost authority, or the end of a planned handoff: the tasks are gone,
\* what they sent is not.
Stopped == /\ up' = FALSE /\ actor' = NoActor /\ drain' = Idle

TermStops ==
    /\ up /\ terms < MaxTerms
    /\ Stopped
    /\ UNCHANGED <<lease, redis, dynamo, flight, terms, faults, published>>

\* The stopped term's lease is released or expires.
LeaseEnds ==
    /\ ~up /\ lease # 0 /\ terms < MaxTerms
    /\ lease' = 0
    /\ UNCHANGED <<redis, dynamo, up, actor, drain, flight, terms, faults, published>>

-----------------------------------------------------------------------------
(* The game actor.                                                         *)

\* advance_live or the catch-up of activate reaches the terminal state.
GameOver ==
    /\ up /\ actor.phase = "playing"
    /\ actor' = [actor EXCEPT !.phase = "over"]
    /\ UNCHANGED <<lease, redis, dynamo, up, drain, flight, terms, faults, published>>

\* First half of commit_completion: a record with a fresh revision, kept for
\* every later attempt.  A failed MMR read leaves the actor as it was.
Materialize ==
    /\ up /\ actor.phase = "over"
    /\ actor' = [phase |-> "ready", rev |-> terms]
    /\ UNCHANGED <<lease, redis, dynamo, up, drain, flight, terms, faults, published>>

SendCommit ==
    /\ up /\ actor.phase = "ready"
    /\ actor' = [actor EXCEPT !.phase = "committing"]
    /\ flight' = flight \cup {Request("commit", actor.rev, "none")}
    /\ UNCHANGED <<lease, redis, dynamo, up, drain, terms, faults, published>>

\* commit_completion_until_handoff drops the future; the script is on its way
\* and the lease is still held until the barrier is through (TermStops).
HandoffCancels ==
    /\ up /\ terms < MaxTerms
    /\ actor.phase \in {"over", "ready", "committing"}
    /\ actor' = [actor EXCEPT !.phase = "cancelled"]
    /\ UNCHANGED <<lease, redis, dynamo, up, drain, flight, terms, faults, published>>

\* The commit outlives FENCED_OPERATION_TIMEOUT: the actor fails, and with it
\* the executor.
CommitTimesOut ==
    /\ up /\ actor.phase = "committing"
    /\ faults < MaxFaults /\ terms < MaxTerms
    /\ faults' = faults + 1
    /\ Stopped
    /\ UNCHANGED <<lease, redis, dynamo, flight, terms, published>>

\* commit_completion_record_fenced.  Refused: the executor fails.
CommitAccepted_Unfenced(r) == record \in {0, r.rev} /\ notified \in {0, r.rev}
CommitAccepted(r) ==
    /\ r.term = lease
    /\ record \in {0, r.rev} /\ notified \in {0, r.rev}
    /\ journal \/ "game" \in done

RunCommit(r) ==
    /\ r \in flight /\ r.kind = "commit"
    /\ flight' = flight \ {r}
    /\ LET awaited == up /\ actor.phase = "committing" /\ actor.rev = r.rev
       IN  IF CommitAccepted(r)
           THEN /\ record' = r.rev /\ notified' = r.rev
                /\ active' = FALSE /\ pending' = TRUE
                /\ published' = IF notified = 0 THEN published \cup {r.rev} ELSE published
                /\ actor' = IF awaited THEN NoActor ELSE actor
                /\ UNCHANGED <<done, journal, matched, up, drain>>
           ELSE /\ UNCHANGED <<redis, published>>
                /\ IF awaited THEN Stopped ELSE UNCHANGED <<up, actor, drain>>
    /\ UNCHANGED <<lease, dynamo, terms, faults>>

-----------------------------------------------------------------------------
(* The drain: one pass over the pending completion.                        *)

\* load_pending_completion, then load_completion_effects_done.
DrainLoad ==
    /\ up /\ drain.phase = "idle" /\ pending /\ record # 0
    /\ drain' = [phase |-> "clean", rev |-> record, seen |-> done, at |-> 1]
    /\ UNCHANGED <<lease, redis, dynamo, up, actor, flight, terms, faults, published>>

\* cleanup_matchmaking_for_completion: mappings that name this game go.
DrainCleansMatch ==
    /\ up /\ drain.phase = "clean"
    /\ matched' = FALSE
    /\ drain' = [drain EXCEPT !.phase = "effect"]
    /\ UNCHANGED <<lease, active, record, notified, pending, done, journal,
                   dynamo, up, actor, flight, terms, faults, published>>

NextEffect == [drain EXCEPT !.phase = "effect", !.at = @ + 1]
Effect == EffectOrder[drain.at]

DrainSkips ==
    /\ up /\ drain.phase = "effect"
    /\ drain' = IF drain.at > Len(EffectOrder) THEN Idle
                ELSE NextEffect
    /\ drain.at <= Len(EffectOrder) => Effect \in drain.seen
    /\ UNCHANGED <<lease, redis, dynamo, up, actor, flight, terms, faults, published>>

\* apply_completion_effect sends its transaction; PersistGame first loads the
\* replay journal with a fenced script, and a missing journal ends the pass.
DrainApplies ==
    /\ up /\ drain.phase = "effect" /\ drain.at <= Len(EffectOrder)
    /\ Effect \notin drain.seen
    /\ IF Effect = "game" /\ ~(lease = terms /\ journal)
       THEN drain' = Idle /\ UNCHANGED flight
       ELSE /\ drain' = [drain EXCEPT !.phase = "applying"]
            /\ flight' = flight \cup {Request("apply", drain.rev, Effect)}
    /\ UNCHANGED <<lease, redis, dynamo, up, actor, terms, faults, published>>

Awaited(r) == /\ up /\ r.term = lease /\ drain.rev = r.rev
              /\ drain.at \in DOMAIN EffectOrder /\ Effect = r.effect
              /\ drain.phase = IF r.kind = "apply" THEN "applying" ELSE "marking"

\* The conditions of the transaction: no marker, no anchor of another revision,
\* and the markers of the effects it depends on.
Applicable_NoMarker(r) == anchor \in {0, r.rev} /\ Requires(r.effect) \subseteq markers
Applicable(r) ==
    /\ r.effect \notin markers
    /\ anchor \in {0, r.rev}
    /\ Requires(r.effect) \subseteq markers

\* transact_completion_effect: a refused transaction is classified by reading
\* the marker, and one that is there counts as done.
RunApply(r) ==
    /\ r \in flight /\ r.kind = "apply"
    /\ flight' = flight \ {r}
    /\ IF Applicable(r)
       THEN /\ markers' = markers \cup {r.effect} /\ anchor' = r.rev
            /\ paid' = [paid EXCEPT ![r.effect] = @ + 1]
       ELSE UNCHANGED dynamo
    /\ drain' = IF ~Awaited(r) THEN drain
                ELSE IF r.effect \in markers' /\ anchor' = r.rev
                     THEN [drain EXCEPT !.phase = "applied"] ELSE Idle
    /\ UNCHANGED <<lease, redis, up, actor, terms, faults, published>>

\* An error or a lost answer: the marker is read at once, while the
\* transaction may still be under way.
ApplyFails(r) ==
    /\ r \in flight /\ r.kind = "apply" /\ Awaited(r)
    /\ faults < MaxFaults /\ faults' = faults + 1
    /\ drain' = IF r.effect \in markers THEN [drain EXCEPT !.phase = "applied"] ELSE Idle
    /\ UNCHANGED <<lease, redis, dynamo, up, actor, flight, terms, published>>

\* mark_completion_effect_done_fenced.
ReadyToMark == drain.phase = "applied"

DrainMarks ==
    /\ up /\ ReadyToMark
    /\ drain' = [drain EXCEPT !.phase = "marking"]
    /\ flight' = flight \cup {Request("mark", drain.rev, Effect)}
    /\ UNCHANGED <<lease, redis, dynamo, up, actor, terms, faults, published>>

\* PersistGame's mark deletes the replay journal it has archived.
JournalAfterMark(r) == journal /\ r.effect # "game"

RunMark(r) ==
    /\ r \in flight /\ r.kind = "mark"
    /\ flight' = flight \ {r}
    /\ LET accepted == r.term = lease /\ record # 0 /\ notified = r.rev
       IN  /\ IF accepted
              THEN /\ done' = done \cup {r.effect}
                   /\ journal' = JournalAfterMark(r)
                   /\ pending' = (pending /\ done' # Effects)
              ELSE UNCHANGED <<done, journal, pending>>
           /\ drain' = IF ~Awaited(r) THEN drain
                       ELSE IF accepted THEN NextEffect ELSE Idle
    /\ UNCHANGED <<lease, active, record, notified, matched,
                   dynamo, up, actor, terms, faults, published>>

MarkFails(r) ==
    /\ r \in flight /\ r.kind = "mark" /\ Awaited(r)
    /\ faults < MaxFaults /\ faults' = faults + 1
    /\ drain' = Idle
    /\ UNCHANGED <<lease, redis, dynamo, up, actor, flight, terms, published>>

\* The cleanup grace of a retired completion passes.
RecordExpires ==
    /\ record # 0 /\ ~pending /\ done = Effects
    /\ record' = 0 /\ notified' = 0 /\ done' = {}
    /\ UNCHANGED <<lease, active, pending, journal, matched, dynamo,
                   up, actor, drain, flight, terms, faults, published>>

-----------------------------------------------------------------------------

ActorStep == Materialize \/ SendCommit
DrainStep == DrainLoad \/ DrainCleansMatch \/ DrainSkips \/ DrainApplies \/ DrainMarks
Arrives == \E r \in flight : RunCommit(r) \/ RunApply(r) \/ RunMark(r)
Fault == CommitTimesOut \/ \E r \in flight : ApplyFails(r) \/ MarkFails(r)

Next ==
    /\ \/ Takeover \/ TermStops \/ LeaseEnds
       \/ GameOver \/ HandoffCancels
       \/ ActorStep \/ DrainStep \/ Arrives \/ Fault
       \/ RecordExpires
    /\ UNCHANGED solo

\* A running term keeps polling its actor and drains every second, what is sent
\* is applied or refused, and a free partition is acquired.
Fairness ==
    /\ WF_vars(Takeover) /\ WF_vars(LeaseEnds)
    /\ WF_vars(ActorStep) /\ WF_vars(DrainStep) /\ WF_vars(Arrives)

Spec == Init /\ [][Next]_<<vars, solo>> /\ Fairness

-----------------------------------------------------------------------------
(* Properties.                                                             *)

TypeOK ==
    /\ lease \in 0 .. MaxTerms /\ terms \in 0 .. MaxTerms /\ faults \in 0 .. MaxFaults
    /\ record \in 0 .. MaxTerms /\ notified \in 0 .. MaxTerms /\ anchor \in 0 .. MaxTerms
    /\ active \in BOOLEAN /\ pending \in BOOLEAN /\ journal \in BOOLEAN
    /\ matched \in BOOLEAN /\ up \in BOOLEAN
    /\ done \subseteq Effects /\ markers \subseteq Effects
    /\ actor \in [phase : {"none", "playing", "over", "ready", "committing", "cancelled"},
                  rev : 0 .. MaxTerms]
    /\ drain \in [phase : {"idle", "clean", "effect", "applying", "applied", "marking"},
                  rev : 0 .. MaxTerms, seen : SUBSET Effects, at : 0 .. Len(EffectOrder) + 1]
    /\ flight \subseteq [kind : {"commit", "apply", "mark"}, term : Terms,
                         rev : Terms, effect : Effects \cup {"none"}]
    /\ paid \in [Effects -> Nat] /\ published \subseteq Terms

\* However often drains of different terms retry an effect, and whichever of
\* their transactions arrives last, DynamoDB applies it once
\* (transact_completion_effect).
EffectsOnce == \A e \in Effects : paid[e] <= 1

\* A completion that has left the pending index was paid in full and its players
\* are free to play again: nobody would come back to it
\* (mark_completion_effect_done_fenced).
RetiredMeansPaid ==
    published # {} /\ ~pending => (\A e \in Effects : paid[e] = 1) /\ ~matched

\* Once a terminal snapshot is out, no later term plays the match again or
\* announces another result: a successor rebuilds the game only if the commit
\* of the term before it did not take effect (commit_completion_record_fenced).
NoReplayOfResult ==
    /\ Cardinality(published) <= 1
    /\ published # {} => /\ actor.phase \in {"none", "cancelled"}
                         /\ anchor \in {0} \cup published

\* The replay journal, the only full copy of the match, is there until the
\* transaction that archives it has been applied.
JournalHeld == published # {} /\ paid["game"] = 0 => journal

\* Together: a completion is paid once, and nothing of it is given up before what
\* needs it is done.
PaidExactly == TypeOK /\ EffectsOnce /\ RetiredMeansPaid /\ JournalHeld

\* A published result is eventually paid and retired, whichever terms come and
\* go: the order of the effects never makes a drain wait for a later effect.
EventuallyPaid == (published # {}) ~> (markers = Effects /\ ~pending)
====
