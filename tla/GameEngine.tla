----------------------------- MODULE GameEngine -----------------------------
(***************************************************************************)
(* One snake of a team match, simulated by the executor and replicated by  *)
(* one browser (common/src/game_engine.rs, game_state.rs).  The executor   *)
(* steps its engine a committed lag behind the clock and publishes what a  *)
(* step did, each event labelled with the tick the step leads to.  The     *)
(* browser fast-forwards its committed state by movement alone to the      *)
(* label of every message it gets, so a turn, a crash or a pellet is       *)
(* derived once by its own step and told once more by the event; on top of *)
(* that state it predicts its player's commands until the server decides   *)
(* them.  Messages may be lost or repeated, and a snapshot anchors the     *)
(* stream again.                                                           *)
(*                                                                         *)
(* Left out: boost, and with it the snakes that do not move in a quantum;  *)
(* the body behind the head and collisions with snakes; inactivity; the    *)
(* readiness gate; completion, which has its own publication path.         *)
(***************************************************************************)
EXTENDS Naturals, Integers, Sequences, FiniteSets, SequencesExt

CONSTANTS Width, Height,     \* The arena.
          Base,              \* The cells of the player's own base.
          Start, StartDir,   \* Where the snake (re)spawns.
          Pellets,           \* Where food may appear.
          Turns,             \* The directions the player may press.
          CommittedLag,      \* committed_state_lag_ms, in ticks.
          Ahead,             \* The window of max_predicted_tick, in ticks.
          Bounds             \* The bounds to explore, one record each: ticks of
                             \* time, presses, pellets, probes, faults.

Cells == (0..Width - 1) \X (0..Height - 1)

VARIABLES bounds,     \* The record of Bounds in force.
          clock,      \* Wall-clock time in ticks since the simulation epoch.
          server,     \* The executor's committed state,
          received,   \* its next server command sequence,
          log,        \* and the messages it has published.
          outbox,     \* Commands sent and not yet decided,
          sent,       \* and every command ever sent.
          next,       \* The message the browser is to get next.
          client,     \* The browser's engine.
          spawned, probes, faults, pressed   \* Uses of the bounds.

vars == <<clock, server, received, log, outbox, sent, next, client, spawned, probes, faults,
          pressed>>

-----------------------------------------------------------------------------
(* The shared simulation. *)

None == <<-1, -1>>
(* Directions: 0 up, 1 right, 2 down, 3 left.                               *)
Opposite(d) == (d + 2) % 4
Towards(p, d) == CASE d = 0 -> <<p[1], p[2] - 1>> [] d = 1 -> <<p[1] + 1, p[2]>>
                   [] d = 2 -> <<p[1], p[2] + 1>> [] OTHER -> <<p[1] - 1, p[2]>>

GameState_new == [tick |-> 0, alive |-> TRUE, head |-> Start, dir |-> StartDir,
                  travel |-> StartDir, food |-> 0, pellets |-> {}, score |-> 0, queue |-> {}]

(* A command is ordered by the tick and the sequence of its server id once   *)
(* it has one; n is its identity in the delivery session.                    *)
Before(a, b) == a.at < b.at \/ (a.at = b.at /\ a.ord < b.ord)

Due(gs) == LET S == {c \in gs.queue : c.at <= gs.tick}
           IN  SetToSortSeq(S, Before)

(* A turn that reverses the snake, against where it faces or where it last   *)
(* moved, is ignored, and so is one that changes nothing.                    *)
Accepts(gs, c) == /\ gs.alive
                  /\ c.dir \notin {gs.dir, Opposite(gs.dir), Opposite(gs.travel)}

Respawned(gs) == [gs EXCEPT !.alive = TRUE, !.head = Start, !.dir = StartDir,
                            !.travel = StartDir, !.food = 0, !.queue = {}]

Died(gs) == [gs EXCEPT !.alive = FALSE, !.queue = {}]

(* One turn takes effect in a step: the ones ignored before it are spent,    *)
(* the ones behind it wait one tick more.                                    *)
TurnOf(gs) == LET due == Due(gs)
                  ok  == {i \in DOMAIN due : Accepts(gs, due[i])}
              IN  IF ok = {} THEN 0 ELSE CHOOSE i \in ok : \A j \in ok : i <= j

Deferred(gs) == LET due == Due(gs) IN
  IF TurnOf(gs) = 0 THEN {}
  ELSE {[due[i] EXCEPT !.at = gs.tick + 1] : i \in TurnOf(gs) + 1 .. Len(due)}

Turned(gs) ==
  LET i == TurnOf(gs)
      q == {c \in gs.queue : c.at > gs.tick} \cup Deferred(gs)
  IN  [gs EXCEPT !.queue = q, !.dir = IF i = 0 THEN @ ELSE Due(gs)[i].dir]

Crashes(gs) == gs.alive /\ Towards(gs.head, gs.dir) \notin Cells

Moved(gs) == IF ~gs.alive THEN gs
             ELSE IF Crashes(gs) THEN Respawned(Died(gs))
             ELSE [gs EXCEPT !.head = Towards(gs.head, gs.dir), !.travel = gs.dir]

Eats(gs) == gs.alive /\ gs.head \in gs.pellets
Fed(gs) == IF Eats(gs) THEN [gs EXCEPT !.food = @ + 1, !.pellets = @ \ {gs.head}] ELSE gs

(* Food carried into the player's own base scores, and the snake starts over.*)
Banks(gs) == gs.alive /\ gs.head \in Base /\ gs.food > 0
Banked(gs) == IF Banks(gs) THEN Respawned(Died([gs EXCEPT !.score = @ + gs.food])) ELSE gs
Ticked(gs) == [gs EXCEPT !.tick = @ + 1]

(* tick_forward(true): what a replica derives by itself.                     *)
MovementOnly(gs) == Ticked(Fed(Moved(Turned(gs))))

(* tick_forward(false): food appears (where there is a random source) and    *)
(* carried food is banked.                                                   *)
Spawn(gs, p) == IF p = None THEN gs ELSE [gs EXCEPT !.pellets = @ \cup {p}]
Full(gs, p) == Ticked(Banked(Spawn(Fed(Moved(Turned(gs))), p)))

(* The events of such a step, in the order it applies them; the first step   *)
(* begins with a snapshot of the state before it.                            *)
If(b, e) == IF b THEN <<e>> ELSE <<>>
Death == <<[kind |-> "Died"], [kind |-> "Respawned"]>>
StepEvents(gs, p) ==
  LET a == Turned(gs)
      b == Moved(a)
      c == Spawn(Fed(b), p)
  IN  If(gs.tick = 0, [kind |-> "Snapshot", state |-> gs])
      \o If(TurnOf(gs) # 0, [kind |-> "Turned", dir |-> a.dir])
      \o (IF Crashes(a) THEN Death ELSE <<>>)
      \o If(Eats(b), [kind |-> "Eaten", at |-> b.head])
      \o If(p # None, [kind |-> "Spawned", at |-> p])
      \o (IF Banks(c) THEN <<[kind |-> "Scored", score |-> c.score + c.food]>> \o Death
          ELSE <<>>)

(* n steps of one kind.                                                      *)
Iterate(Op(_), gs, n) == FoldLeft(LAMBDA g, i : Op(g), gs, [i \in 1..n |-> i])
Until(Op(_), gs, t) == IF gs.tick >= t THEN gs ELSE Iterate(Op, gs, t - gs.tick)

-----------------------------------------------------------------------------
(* The executor. *)

(* Messages carry the tick they describe.  The last message of a step, and   *)
(* every message between steps, also records the state it leaves the         *)
(* executor in: ghost data that only the properties read.                    *)
Mid == [tick |-> -1]
Message(e, t, after) == [event |-> e, tick |-> t, after |-> after]

(* What one step publishes: a snapshot bears its own tick, every other event *)
(* the tick after the step.                                                  *)
Labelled(es, gs, p, label) ==
  [i \in DOMAIN es |->
     IF es[i].kind = "Snapshot" THEN Message(es[i], gs.tick, gs)
     ELSE Message(es[i], label, IF i = Len(es) THEN Full(gs, p) ELSE Mid)]

Published_PreStep(gs, p) == Labelled(StepEvents(gs, p), gs, p, gs.tick)
Published(gs, p) == Labelled(StepEvents(gs, p), gs, p, gs.tick + 1)

(* run_until: the committed state trails the clock by the lag.               *)
Advance == \E p \in Pellets \cup {None} :
  /\ server.tick < clock - CommittedLag
  /\ p # None => /\ spawned < bounds.spawned
                 /\ LET g == Fed(Moved(Turned(server))) IN p \notin g.pellets \cup {g.head}
  /\ server' = Full(server, p)
  /\ log' = log \o Published(server, p)
  /\ spawned' = IF p = None THEN spawned ELSE spawned + 1
  /\ UNCHANGED <<clock, received, outbox, sent, next, client, probes, faults, pressed>>

(* process_command: no command runs before the tick it was stamped with, nor *)
(* in a tick that is over.  A command already decided gets its outcome told  *)
(* again, and nothing is scheduled.                                          *)
ServerCommand(c) ==
  [c EXCEPT !.server = TRUE, !.ord = received,
            !.at = IF c.at > server.tick THEN c.at ELSE server.tick]

Decided(n, l) == \E s \in DOMAIN l : l[s].event.kind \in {"Scheduled", "Rejected"}
                                     /\ l[s].event.command.n = n

Tell(kind, c, replay, after) ==
  log' = Append(log, Message([kind |-> kind, command |-> c, replay |-> replay],
                             server.tick, after))

Decide == \E c \in outbox, accepted \in BOOLEAN :
  /\ outbox' = outbox \ {c}
  /\ IF Decided(c.n, log)
     THEN LET s == CHOOSE k \in DOMAIN log : /\ log[k].event.kind \in {"Scheduled", "Rejected"}
                                            /\ log[k].event.command.n = c.n
          IN  /\ accepted
              /\ Tell(log[s].event.kind, log[s].event.command, TRUE, server)
              /\ UNCHANGED <<server, received>>
     ELSE IF accepted
     THEN LET after == [server EXCEPT !.queue = @ \cup {ServerCommand(c)}]
          IN  /\ server' = after
              /\ received' = received + 1
              /\ Tell("Scheduled", ServerCommand(c), FALSE, after)
     ELSE /\ Tell("Rejected", c, FALSE, server)
          /\ UNCHANGED <<server, received>>
  /\ UNCHANGED <<clock, sent, next, client, spawned, probes, faults, pressed>>

(* A TickHash heartbeat (the fingerprint covers every field kept here), or a *)
(* full snapshot that somebody asked for.                                    *)
Probe == \E kind \in {"TickHash", "Snapshot"} :
  /\ probes < bounds.probes
  /\ log' = Append(log, Message([kind |-> kind, state |-> server], server.tick, server))
  /\ probes' = probes + 1
  /\ UNCHANGED <<clock, server, received, outbox, sent, next, client, spawned, faults,
                 pressed>>

-----------------------------------------------------------------------------
(* The browser's engine. *)

GameEngine_new(gs, seq) ==
  [committed |-> gs, predicted |-> gs, spec |-> {}, seq |-> 0, last |-> seq,
   mismatches |-> 0, resync |-> FALSE, asked |-> FALSE, rebuild |-> FALSE]

(* Applying a replicated event.  A pellet already eaten is not eaten again.  *)
Applied(gs, e) ==
  CASE e.kind = "Turned"    -> [gs EXCEPT !.dir = e.dir]
    [] e.kind = "Died"      -> Died(gs)
    [] e.kind = "Respawned" -> Respawned(gs)
    [] e.kind = "Eaten"     -> IF e.at \in gs.pellets
                               THEN [gs EXCEPT !.pellets = @ \ {e.at}, !.food = @ + 1] ELSE gs
    [] e.kind = "Spawned"   -> [gs EXCEPT !.pellets = @ \cup {e.at}]
    [] e.kind = "Scored"    -> [gs EXCEPT !.score = e.score]
    [] e.kind = "Scheduled" -> IF e.replay THEN gs
                               ELSE [gs EXCEPT !.queue = @ \cup {e.command}]
    [] e.kind = "Snapshot"  -> e.state
    [] OTHER                -> gs

(* An event that cannot follow the state it meets is refused as a whole.     *)
Malformed(gs, e) == /\ e.kind = "Eaten" /\ e.at \in gs.pellets
                    /\ ~gs.alive \/ gs.head # e.at

(* advance_and_apply_replicated_message: movement alone up to the label.     *)
Advanced(gs, m) == IF m.event.kind = "Snapshot" THEN gs ELSE Until(MovementOnly, gs, m.tick)

(* max_predicted_tick and rebuild_predicted_state at the time now: when the  *)
(* authoritative input changed, or the clock asks for a later tick.  There   *)
(* is no random source, so no food appears.                                  *)
PredictedStep(gs) == Full(gs, None)
Target(e, now) == IF now < e.committed.tick + Ahead THEN now ELSE e.committed.tick + Ahead

NeedsRebuild(e, now) == e.rebuild \/ Target(e, now) > e.predicted.tick

Rebuilt(e, now) ==
  IF ~NeedsRebuild(e, now) THEN e
  ELSE [e EXCEPT !.rebuild = FALSE,
                 !.predicted = Until(PredictedStep,
                                     [e.committed EXCEPT !.queue = @ \cup e.spec],
                                     Target(e, now))]

(* process_server_event for message number s.                                *)
IsStale(e, s) == s <= e.last

Retract(e, ev) == IF ev.kind \in {"Scheduled", "Rejected"}
                  THEN {c \in e.spec : c.id # ev.command.id} ELSE e.spec

IsGap(e, s) == s > e.last + 1

Processed(e, m, s) ==
  LET seen      == [e EXCEPT !.last = s, !.resync = @ \/ IsGap(e, s)]
      candidate == Advanced(e.committed, m)
  IN  CASE m.event.kind = "Snapshot" -> GameEngine_new(m.event.state, s)
        [] m.event.kind # "Snapshot" /\ IsStale(e, s) -> e
        [] m.event.kind # "Snapshot" /\ ~IsStale(e, s) /\ Malformed(candidate, m.event) ->
             [seen EXCEPT !.resync = TRUE]
        [] m.event.kind = "TickHash" /\ ~IsStale(e, s) ->
             LET missed == IF candidate = m.event.state THEN 0 ELSE e.mismatches + 1
             IN  [seen EXCEPT !.committed = candidate, !.mismatches = missed,
                              !.resync = @ \/ missed >= 2]
        [] OTHER -> [seen EXCEPT !.committed = Applied(candidate, m.event),
                                 !.spec = Retract(e, m.event), !.rebuild = TRUE]

(* The page handles a frame: the event, then prediction at once.  A snapshot *)
(* builds a new engine, whose command sequence starts over.                  *)
Frame(m, s) == client' = Rebuilt(Processed(client, m, s), clock)

Deliver == /\ next <= Len(log)
           /\ Frame(log[next], next)
           /\ next' = next + 1
           /\ UNCHANGED <<clock, server, received, log, outbox, sent, spawned, probes,
                          faults, pressed>>

Lose == /\ next <= Len(log) /\ faults < bounds.faults
        /\ next' = next + 1 /\ faults' = faults + 1
        /\ UNCHANGED <<clock, server, received, log, outbox, sent, client, spawned, probes,
                       pressed>>

Repeat == \E s \in 1..next - 1 :
  /\ faults < bounds.faults
  /\ Frame(log[s], s)
  /\ faults' = faults + 1
  /\ UNCHANGED <<clock, server, received, log, outbox, sent, next, spawned, probes, pressed>>

(* A gateway bridges the browser with a state it has: the snapshot carries   *)
(* the number of the last message it covers.                                 *)
Bridge == \E s \in DOMAIN log :
  /\ client.asked \/ faults < bounds.faults
  /\ faults' = IF client.asked THEN faults ELSE faults + 1
  /\ log[s].after # Mid
  /\ Frame(Message([kind |-> "Snapshot", state |-> log[s].after], log[s].after.tick,
                   log[s].after), s)
  /\ next' = s + 1
  /\ UNCHANGED <<clock, server, received, log, outbox, sent, spawned, probes, pressed>>

(* The page asks for a resync and clears the flag.                           *)
RequestResync == /\ client.resync
                 /\ client' = [client EXCEPT !.resync = FALSE, !.asked = TRUE]
                 /\ UNCHANGED <<clock, server, received, log, outbox, sent, next, spawned,
                                probes, faults, pressed>>

(* Time passes, and the next animation frame predicts up to it.              *)
Animate == /\ clock < bounds.clock
           /\ clock' = clock + 1
           /\ client' = Rebuilt(client, clock + 1)
           /\ UNCHANGED <<server, received, log, outbox, sent, next, spawned, probes,
                          faults, pressed>>

(* process_local_command, stamped with the predicted tick; the delivery      *)
(* outbox admits it, or it is discarded and prediction is to be rebuilt.     *)
Press == \E d \in Turns, admitted \in BOOLEAN :
  LET n == pressed + 1
      c == [n |-> n, id |-> <<client.predicted.tick, client.seq + 1>>,
            at |-> client.predicted.tick, ord |-> client.seq + 1, server |-> FALSE, dir |-> d]
      e == [client EXCEPT !.seq = @ + 1, !.predicted.queue = @ \cup {c}]
  IN  /\ pressed < bounds.presses /\ pressed' = pressed + 1
      /\ IF admitted
         THEN /\ client' = [e EXCEPT !.spec = @ \cup {c}]
              /\ outbox' = outbox \cup {c} /\ sent' = sent \cup {c}
         ELSE /\ client' = [e EXCEPT !.rebuild = TRUE]
              /\ UNCHANGED <<outbox, sent>>
      /\ UNCHANGED <<clock, server, received, log, next, spawned, probes, faults>>

(* The outbox delivers again what the page has no outcome of.                *)
Resend == \E c \in sent \ outbox :
  /\ faults < bounds.faults /\ faults' = faults + 1
  /\ outbox' = outbox \cup {c}
  /\ UNCHANGED <<clock, server, received, log, sent, next, client, spawned, probes, pressed>>

Init == /\ bounds \in Bounds
        /\ clock = 0 /\ server = GameState_new /\ received = 0
        /\ log = <<Message([kind |-> "Snapshot", state |-> GameState_new], 0, GameState_new)>>
        /\ outbox = {} /\ sent = {} /\ next = 2
        /\ client = Rebuilt(GameEngine_new(GameState_new, 1), 0)
        /\ spawned = 0 /\ probes = 0 /\ faults = 0 /\ pressed = 0

Next == /\ \/ Advance \/ Decide \/ Probe \/ Deliver \/ Lose \/ Repeat \/ Bridge
           \/ RequestResync \/ Animate \/ Press \/ Resend
        /\ UNCHANGED bounds

Spec == Init /\ [][Next]_<<vars, bounds>>
-----------------------------------------------------------------------------
(* Properties *)

Trusted == ~client.resync /\ ~client.asked

(* While the browser trusts its stream, its committed state is the           *)
(* executor's after the same message.                                        *)
InStep ==
  Trusted /\ log[client.last].after # Mid => client.committed = log[client.last].after

(* No probe alarms a browser that missed nothing.                            *)
NoFalseAlarm == Trusted => client.mismatches = 0

(* A command whose outcome the browser has applied is never predicted again. *)
NoGhostTurn == Trusted => \A c \in client.spec : ~Decided(c.n, SubSeq(log, 1, client.last))

(* Once nothing is speculative, what the page shows follows from the         *)
(* committed state alone: no retracted turn, crash or goal stays visible.    *)
PredictionFollows ==
  (client.spec = {} /\ ~client.rebuild) =>
    client.predicted = Until(PredictedStep, client.committed, client.predicted.tick)

(* Together: a page that missed nothing holds the match as it was, and shows *)
(* no more than follows from it.                                             *)
ReplicaExact == InStep /\ NoFalseAlarm /\ NoGhostTurn /\ PredictionFollows
=============================================================================
