-------------------------- MODULE GatewayContinuity --------------------------
(***************************************************************************)
(* How the events of one game reach the sockets of one gateway             *)
(* (replication.rs, and anchor_first_frame / subscribe_to_game_events of   *)
(* ws_server.rs).                                                          *)
(*                                                                         *)
(* The partition's event stream is one ordered log.  Its sequence numbers  *)
(* are the owning actor's: a successor resumes them at its checkpoint, so  *)
(* after a crash the numbers of two terms overlap.  The gateway keeps no   *)
(* game state; each subscription decides by sequence alone what continues  *)
(* the frame its client holds.  A client's state is named by the term and  *)
(* the sequence that produced it, so a delta applied to the wrong state is *)
(* visible here and nowhere in the code.                                   *)
(***************************************************************************)
EXTENDS Integers, Sequences, FiniteSets

CONSTANTS Sockets,      \* sockets of this gateway that watch the game
          Settings      \* what a behaviour may meet, as records:
  \* sockets: the sockets that join
  \* capacity: events a broadcast channel retains (1028 in the code)
  \* log: bound on log entries published without a request
  \* terms, crashes: bounds on executor terms, and on those that end without a
  \*   handoff
  \* decided, rejected: bounds on command outcomes and out-of-band rejections
  \* joins: bound on subscriptions opened

ASSUME GatewayAssumption ==
  /\ IsFiniteSet(Sockets)
  /\ \A x \in Settings :
       /\ x.sockets \subseteq Sockets /\ x.capacity \in Nat \ {0}
       /\ {x.log, x.terms, x.crashes, x.decided, x.rejected, x.joins} \subseteq Nat

VARIABLES
  setting,  \* the member of Settings this behaviour has
  owner,    \* the actor: its life, stream sequence, outcomes, snapshot_requested
  store,    \* Redis and DynamoDB: envelope, journal, handoff mark, terminal copies
  log,      \* the partition's event stream, this game's entries
  want,     \* a targeted snapshot request is in the request stream
  paced,    \* the gateway's RequestPacer refuses another request for now
  router,   \* entries forwarded, the current channel, closed channels' ends
  sub       \* each socket's subscription and what its client was sent

vars == <<owner, store, log, want, paced, router, sub>>

Cold == -1
NoFrame == [term |-> 0, seq |-> 0, dec |-> 0]
NoEnvelope == [term |-> 0, seq |-> 0, dec |-> 0, over |-> FALSE]

(* A socket that watches nothing. *)
Idle == [at |-> "off", ch |-> 0, pos |-> 0, cont |-> Cold, proven |-> FALSE,
         replay |-> "none", loaded |-> 0, seen |-> NoEnvelope,
         frame |-> NoFrame, from |-> "none", right |-> TRUE,
         known |-> {}, barrier |-> "none"]

Init ==
  /\ setting \in Settings
  /\ owner = [life |-> "gone", term |-> 0, seq |-> 0, dec |-> 0,
              asked |-> FALSE, crashes |-> 0, rejected |-> 0]
  /\ store = [env |-> NoEnvelope, journal |-> 0, mark |-> 0,
              over |-> FALSE, durable |-> FALSE]
  /\ log = <<>>
  /\ want = FALSE
  /\ paced = FALSE
  /\ router = [read |-> 0, ch |-> 0, joins |-> 0, ends |-> <<>>, after |-> "read"]
  /\ sub = [s \in Sockets |-> Idle]

Entry(kind, o) == [kind |-> kind, term |-> o.term, seq |-> o.seq, dec |-> o.dec]

-----------------------------------------------------------------------------
(***************************************************************************)
(* The owning actor.                                                       *)
(***************************************************************************)
Larger(a, b) == IF a > b THEN a ELSE b

(* activate: replay the journalled decisions, merge the handoff watermark,
   and checkpoint before anything is published. *)
Activate ==
  /\ owner.life = "gone"
  /\ owner.term < setting.terms
  /\ LET seq == Larger(Larger(store.env.seq, store.journal), store.mark) IN
       /\ owner' = [owner EXCEPT !.life = "starting", !.term = @ + 1,
                                 !.seq = seq, !.asked = FALSE]
       /\ store' = [store EXCEPT !.env = [term |-> owner.term + 1, seq |-> seq,
                                          dec |-> owner.dec, over |-> FALSE],
                                 !.journal = 0, !.mark = 0]
  /\ UNCHANGED <<log, want, paced, router, sub>>

Publish(kind, o) == /\ owner' = o
                    /\ log' = Append(log, Entry(kind, o))

(* The snapshot that ends activation re-anchors every consumer. *)
PublishAnchor ==
  /\ owner.life = "starting"
  /\ Publish("snapshot", [owner EXCEPT !.life = "live", !.seq = @ + 1])
  /\ UNCHANGED <<store, want, paced, router, sub>>

PublishEvent ==
  /\ owner.life = "live"
  /\ Len(log) < setting.log
  /\ Publish("delta", [owner EXCEPT !.seq = @ + 1])
  /\ UNCHANGED <<store, want, paced, router, sub>>

(* A command outcome is journalled and published in one script. *)
PublishOutcome ==
  /\ owner.life = "live"
  /\ Len(log) < setting.log
  /\ owner.dec < setting.decided
  /\ Publish("outcome", [owner EXCEPT !.seq = @ + 1, !.dec = @ + 1])
  /\ store' = [store EXCEPT !.journal = owner.seq + 1]
  /\ UNCHANGED <<want, paced, router, sub>>

(* A terminal rejection is published without a sequence of its own. *)
PublishRejected ==
  /\ owner.life = "live"
  /\ Len(log) < setting.log
  /\ owner.rejected < setting.rejected
  /\ owner' = [owner EXCEPT !.rejected = @ + 1]
  /\ log' = Append(log, [Entry("rejected", owner) EXCEPT !.seq = 0])
  /\ UNCHANGED <<store, want, paced, router, sub>>

Checkpoint_AfterAnswer ==
  /\ owner.life = "live"
  /\ store' = IF owner.asked THEN store
              ELSE [store EXCEPT !.env = [term |-> owner.term, seq |-> owner.seq,
                                          dec |-> owner.dec, over |-> FALSE],
                                 !.journal = 0]
  /\ owner' = [owner EXCEPT !.life = IF owner.asked THEN "answering" ELSE "live"]
  /\ UNCHANGED <<log, want, paced, router, sub>>

Checkpoint ==
  /\ owner.life = "live"
  /\ store' = [store EXCEPT !.env = [term |-> owner.term, seq |-> owner.seq,
                                     dec |-> owner.dec, over |-> FALSE],
                            !.journal = 0]
  /\ owner' = [owner EXCEPT !.life = IF owner.asked THEN "answering" ELSE "live"]
  /\ UNCHANGED <<log, want, paced, router, sub>>

(* Everything published has been forwarded and received. *)
Drained == /\ router.read = Len(log)
           /\ \A s \in Sockets : sub[s].at # "off" => sub[s].pos = router.read

(* The requested snapshot follows its checkpoint; the bound on the log lets
   one more out whenever nothing is in transit. *)
PublishRequested ==
  /\ owner.life = "answering"
  /\ Len(log) < setting.log \/ Drained
  /\ Publish("snapshot", [owner EXCEPT !.life = "live", !.seq = @ + 1,
                                       !.asked = FALSE])
  /\ UNCHANGED <<store, want, paced, router, sub>>

(* A request that meets no live actor is dropped. *)
TakeRequest ==
  /\ want
  /\ want' = FALSE
  /\ owner' = [owner EXCEPT !.asked = @ \/ owner.life \in {"live", "answering"}]
  /\ UNCHANGED <<store, log, paced, router, sub>>

Crash ==
  /\ owner.life \in {"starting", "live", "answering"}
  /\ owner.crashes < setting.crashes
  /\ owner.term < setting.terms
  /\ owner' = [owner EXCEPT !.life = "gone", !.crashes = @ + 1]
  /\ UNCHANGED <<store, log, want, paced, router, sub>>

Barrier_NoMark ==
  /\ owner.life = "live"
  /\ owner.term < setting.terms
  /\ owner' = [owner EXCEPT !.life = "gone"]
  /\ UNCHANGED <<store, log, want, paced, router, sub>>

(* Planned handoff: the actor leaves its publication watermark behind. *)
Barrier ==
  /\ owner.life = "live"
  /\ owner.term < setting.terms
  /\ store' = [store EXCEPT !.mark = owner.seq]
  /\ owner' = [owner EXCEPT !.life = "gone"]
  /\ UNCHANGED <<log, want, paced, router, sub>>

(* The fenced completion: terminal envelope, terminal copy, terminal event. *)
Complete ==
  /\ owner.life = "live"
  /\ Publish("end", [owner EXCEPT !.life = "over", !.seq = @ + 1])
  /\ store' = [store EXCEPT !.env = [term |-> owner.term, seq |-> owner.seq,
                                     dec |-> owner.dec, over |-> TRUE],
                            !.over = TRUE, !.journal = 0]
  /\ UNCHANGED <<want, paced, router, sub>>

(* The PersistGame effect writes the game's row; the envelope and the terminal
   copy in Redis expire when their retention ends, whether or not it has. *)
PersistGame ==
  /\ owner.life = "over" /\ ~store.durable
  /\ store' = [store EXCEPT !.durable = TRUE]
  /\ UNCHANGED <<owner, log, want, paced, router, sub>>

GraceEnds ==
  /\ store.over
  /\ store' = [store EXCEPT !.env = NoEnvelope, !.over = FALSE]
  /\ UNCHANGED <<owner, log, want, paced, router, sub>>
-----------------------------------------------------------------------------
(***************************************************************************)
(* The router: forward_event in its two lock scopes.  A receiver sees the  *)
(* log from where it was created to where its channel was dropped.         *)
(***************************************************************************)
Watching(s) == sub[s].at \notin {"off", "ended"}
ReceiverCount(c) == Cardinality({s \in Sockets : Watching(s) /\ sub[s].ch = c})

ForwardEvent ==
  /\ router.after = "read"
  /\ router.read < Len(log)
  /\ router' = [router EXCEPT
       !.read = @ + 1,
       !.after = IF log[router.read + 1].kind = "end" THEN "teardown"
                 ELSE IF router.ch # 0 /\ ReceiverCount(router.ch) = 0
                      THEN "recheck" ELSE "read"]
  /\ UNCHANGED <<owner, store, log, want, paced, sub>>

DropChannel == [router EXCEPT !.after = "read", !.ch = 0,
                              !.ends = Append(@, router.read)]

Teardown ==
  /\ router.after = "teardown"
  /\ router' = IF router.ch # 0 THEN DropChannel
                                ELSE [router EXCEPT !.after = "read"]
  /\ UNCHANGED <<owner, store, log, want, paced, sub>>

(* A subscriber may have attached since the failed send. *)
Recheck ==
  /\ router.after = "recheck"
  /\ router' = IF router.ch # 0 /\ ReceiverCount(router.ch) = 0
               THEN DropChannel ELSE [router EXCEPT !.after = "read"]
  /\ UNCHANGED <<owner, store, log, want, paced, sub>>

(* What the channel of s has been sent so far. *)
Sent(s) == IF sub[s].ch = router.ch THEN router.read ELSE router.ends[sub[s].ch]
Closed(s) == sub[s].ch # router.ch
-----------------------------------------------------------------------------
(***************************************************************************)
(* Targeted snapshot requests, coalesced by the gateway's pacer.           *)
(***************************************************************************)
RequestSnapshot == /\ want' = (want \/ ~paced)
                   /\ paced' = TRUE

PaceEnds == /\ paced
            /\ paced' = FALSE
            /\ UNCHANGED <<owner, store, log, want, router, sub>>
-----------------------------------------------------------------------------
(***************************************************************************)
(* The first frame.                                                        *)
(***************************************************************************)
(* subscribe_to_game before any read of stored state. *)
Subscribe(s) ==
  /\ sub[s].at = "off"
  /\ router.joins < setting.joins
  /\ LET fresh == router.ch = 0
         c == IF fresh THEN Len(router.ends) + 1 ELSE router.ch IN
       /\ router' = [router EXCEPT !.ch = c, !.joins = @ + 1]
       /\ sub' = [sub EXCEPT ![s] = [Idle EXCEPT !.at = "stored", !.ch = c,
                                                 !.pos = router.read]]
  /\ UNCHANGED <<owner, store, log, want, paced>>

To(s, u) == /\ sub' = [sub EXCEPT ![s] = u]
            /\ UNCHANGED <<owner, store, log, router>>

(* The terminal state: Complete was the owner's last step. *)
Final(u) == [u EXCEPT !.at = "ended", !.from = "terminal", !.right = TRUE,
                      !.replay = "none", !.frame = [term |-> owner.term,
                      seq |-> owner.seq, dec |-> owner.dec]]

(* ... with the outcomes of the recovery envelope, and all others rejected. *)
Disposed(u) == [Final(u) EXCEPT !.known = @ \cup 1..store.env.dec,
                                !.barrier = "final"]

(* A stored terminal copy: only a terminal envelope settles what the client
   has pending; one that is missing, not terminal or could not be read leaves
   the barrier open and replays nothing. *)
ServeCompleted(s) ==
  \/ store.env.over /\ To(s, Disposed(sub[s]))
  \/ To(s, [Final(sub[s]) EXCEPT !.barrier = "open"])

(* get_stored_snapshot; an error falls through like a miss. *)
ReadStored(s) ==
  /\ sub[s].at = "stored"
  /\ \/ store.over /\ ServeCompleted(s)
     \/ To(s, [sub[s] EXCEPT !.at = "recovery"])
  /\ UNCHANGED <<want, paced>>

(* get_recovery; without an active envelope the join waits for the stream. *)
ReadRecovery(s) ==
  /\ sub[s].at = "recovery"
  /\ \/ /\ store.env.term # 0 /\ ~store.env.over
        /\ To(s, [sub[s] EXCEPT !.at = "bridge", !.seen = store.env])
        /\ UNCHANGED <<want, paced>>
     \/ /\ To(s, [sub[s] EXCEPT !.at = "warm"])
        /\ RequestSnapshot

FrameOf(e) == [term |-> e.term, seq |-> e.seq, dec |-> e.dec]

Bridge_Proven(s) ==
  /\ sub[s].at = "bridge"
  /\ IF store.durable
     THEN ServeCompleted(s)
     ELSE To(s, [sub[s] EXCEPT !.at = "forward", !.cont = sub[s].seen.seq,
                               !.replay = "loading", !.from = "bridge",
                               !.frame = FrameOf(sub[s].seen),
                               !.seen = NoEnvelope])
  /\ UNCHANGED <<want, paced>>

(* The recovery bridge: the durable record is asked first; the envelope's
   sequence is the last one already published. *)
Bridge(s) ==
  /\ sub[s].at = "bridge"
  /\ IF store.durable
     THEN ServeCompleted(s)
     ELSE To(s, [sub[s] EXCEPT !.at = "forward", !.cont = sub[s].seen.seq,
                               !.proven = FALSE, !.from = "bridge",
                               !.frame = FrameOf(sub[s].seen),
                               !.seen = NoEnvelope])
  /\ UNCHANGED <<want, paced>>

(* The bounded warm-up ran out, or the channel closed under it: a durable
   terminal state is served, else the client is told to retry. *)
WarmupEnds(s) ==
  /\ sub[s].at = "warm"
  /\ \/ store.durable /\ ServeCompleted(s)
     \/ ~store.durable /\ To(s, [sub[s] EXCEPT !.at = "ended", !.from = "warming"])
  /\ UNCHANGED <<want, paced>>

Hangup(s) ==
  /\ sub[s].at \in {"forward", "ended"}
  /\ To(s, Idle)
  /\ UNCHANGED <<want, paced>>
-----------------------------------------------------------------------------
(***************************************************************************)
(* GameEventSubscription::next and the forwarding loop.                    *)
(***************************************************************************)
Receiving(s) == sub[s].at \in {"warm", "forward"}
Lagged(s) == Sent(s) - sub[s].pos > setting.capacity
Next1(s) == log[sub[s].pos + 1]

(* A frame that replaces the client's state. *)
Anchored(u, e) ==
  [u EXCEPT !.pos = @ + 1, !.cont = e.seq, !.frame = FrameOf(e), !.right = TRUE,
            !.from = "live", !.at = "forward", !.proven = TRUE,
            !.replay = "loading", !.loaded = 0, !.barrier = "none"]

(* Every snapshot re-anchors, cancels a replay for an older frontier and
   starts its own. *)
Snapshot(s) ==
  /\ Receiving(s) /\ sub[s].pos < Sent(s) /\ ~Lagged(s)
  /\ Next1(s).kind = "snapshot"
  /\ To(s, Anchored(sub[s], Next1(s)))
  /\ UNCHANGED <<want, paced>>

(* The terminal frame is forwarded first; then the outcomes of whatever envelope
   can be read, or word to come back. *)
Terminal(s) ==
  /\ Receiving(s) /\ sub[s].pos < Sent(s) /\ ~Lagged(s)
  /\ Next1(s).kind = "end"
  /\ \/ /\ store.env.term # 0
        /\ To(s, [Disposed(sub[s]) EXCEPT !.pos = @ + 1])
     \/ To(s, [Final(sub[s]) EXCEPT !.pos = @ + 1, !.barrier = "none"])
  /\ UNCHANGED <<want, paced>>

(* What the client makes of a forwarded delta. *)
Applied(u, e) ==
  [u EXCEPT !.pos = @ + 1, !.cont = e.seq,
            !.right = @ /\ u.frame.term = e.term /\ u.frame.seq + 1 = e.seq,
            !.frame = [FrameOf(e) EXCEPT !.term = u.frame.term],
            !.known = @ \cup (IF e.kind = "outcome" THEN {e.dec} ELSE {}),
            !.proven = TRUE,
            !.replay = IF u.proven THEN @ ELSE "loading"]

(* The next number is forwarded; the first live event after a bridge starts
   the outcome replay. *)
Forward(s) ==
  /\ Receiving(s) /\ sub[s].pos < Sent(s) /\ ~Lagged(s)
  /\ Next1(s).kind \in {"delta", "outcome"}
  /\ sub[s].cont # Cold
  /\ Next1(s).seq = sub[s].cont + 1
  /\ To(s, Applied(sub[s], Next1(s)))
  /\ UNCHANGED <<want, paced>>

(* A delta is suppressed while cold and dropped when not newer. *)
Suppress(s) ==
  /\ Receiving(s) /\ sub[s].pos < Sent(s) /\ ~Lagged(s)
  /\ Next1(s).kind \in {"delta", "outcome"}
  /\ sub[s].cont = Cold \/ Next1(s).seq <= sub[s].cont
  /\ To(s, [sub[s] EXCEPT !.pos = @ + 1])
  /\ UNCHANGED <<want, paced>>

(* Number 0 is outside the order: a rejection is forwarded even while cold,
   and counts as the first live event of a bridged socket. *)
ForwardRejected(s) ==
  /\ Receiving(s) /\ sub[s].pos < Sent(s) /\ ~Lagged(s)
  /\ Next1(s).kind = "rejected"
  /\ To(s, [sub[s] EXCEPT !.pos = @ + 1,
              !.proven = @ \/ sub[s].at = "forward",
              !.replay = IF sub[s].proven \/ sub[s].at = "warm" THEN @ ELSE "loading"])
  /\ UNCHANGED <<want, paced>>

GoCold(u) == [u EXCEPT !.cont = Cold, !.replay = "none", !.loaded = 0]

Gap(s) ==
  /\ Receiving(s) /\ sub[s].pos < Sent(s) /\ ~Lagged(s)
  /\ Next1(s).kind \in {"delta", "outcome"}
  /\ sub[s].cont # Cold
  /\ Next1(s).seq > sub[s].cont + 1
  /\ To(s, GoCold([sub[s] EXCEPT !.pos = @ + 1]))
  /\ RequestSnapshot

(* The channel overwrote what this receiver had not read. *)
Lag(s) ==
  /\ Receiving(s) /\ Lagged(s)
  /\ To(s, GoCold([sub[s] EXCEPT !.pos = Sent(s) - setting.capacity]))
  /\ RequestSnapshot

ColdTimer_NoSleepArm(s) == FALSE /\ UNCHANGED vars

(* While cold and idle, the request is repeated on the shared cadence. *)
ColdTimer(s) ==
  /\ Receiving(s) /\ sub[s].cont = Cold
  /\ sub[s].pos = Sent(s) /\ ~Closed(s)
  /\ RequestSnapshot
  /\ UNCHANGED <<owner, store, log, router, sub>>

ChannelClosed(s) ==
  /\ sub[s].at = "forward"
  /\ sub[s].pos = Sent(s) /\ Closed(s)
  /\ To(s, [sub[s] EXCEPT !.at = "ended", !.from = "closed", !.replay = "none"])
  /\ UNCHANGED <<want, paced>>

(* The outcome replay reads the recovery envelope: the outcomes of the last
   checkpoint, not those decided since ... *)
LoadOutcomes(s) ==
  /\ sub[s].at = "forward" /\ sub[s].replay = "loading"
  /\ store.env.term # 0
  /\ To(s, [sub[s] EXCEPT !.replay = "loaded", !.loaded = store.env.dec])
  /\ UNCHANGED <<want, paced>>

(* A replay that could not be loaded ends the subscription instead. *)
OutcomesUnavailable(s) ==
  /\ sub[s].at = "forward" /\ sub[s].replay = "loading"
  /\ To(s, [sub[s] EXCEPT !.at = "ended", !.from = "warming", !.replay = "none"])
  /\ UNCHANGED <<want, paced>>

(* ... and its answer and barrier go through the forwarding loop. *)
SendOutcomes(s) ==
  /\ sub[s].at = "forward" /\ sub[s].replay = "loaded"
  /\ To(s, [sub[s] EXCEPT !.replay = "none", !.known = @ \cup 1..sub[s].loaded,
                          !.loaded = 0, !.barrier = "live"])
  /\ UNCHANGED <<want, paced>>
-----------------------------------------------------------------------------
Actor == \/ Activate \/ PublishAnchor \/ PublishEvent \/ PublishOutcome
         \/ PublishRejected \/ Checkpoint \/ PublishRequested \/ TakeRequest \/ Crash \/ Barrier
         \/ Complete \/ PersistGame \/ GraceEnds

Router == ForwardEvent \/ Teardown \/ Recheck \/ PaceEnds

Join(s) == \/ Subscribe(s) \/ ReadStored(s) \/ ReadRecovery(s) \/ Bridge(s)
           \/ WarmupEnds(s) \/ Hangup(s)

Receive(s) == \/ Snapshot(s) \/ Terminal(s) \/ Forward(s) \/ Suppress(s)
              \/ ForwardRejected(s)
              \/ Gap(s) \/ Lag(s) \/ ChannelClosed(s)

Socket(s) == \/ Join(s) \/ Receive(s) \/ ColdTimer(s)
             \/ LoadOutcomes(s) \/ OutcomesUnavailable(s) \/ SendOutcomes(s)

Next == /\ Actor \/ Router \/ \E s \in setting.sockets : Socket(s)
        /\ UNCHANGED setting

(* The router and the subscriptions are spawned tasks, the pacer is a clock,
   and a partition without an owner is eventually claimed; crashes and joins
   are bounded, games need not end. *)
Fairness ==
  /\ WF_vars(ForwardEvent \/ Teardown \/ Recheck) /\ WF_vars(PaceEnds)
  /\ WF_vars(Activate) /\ WF_vars(PublishAnchor) /\ WF_vars(TakeRequest)
  /\ WF_vars(owner.asked /\ Checkpoint) /\ WF_vars(PublishRequested)
  /\ \A s \in Sockets :
       /\ WF_vars(Receive(s)) /\ WF_vars(ColdTimer(s))
       /\ WF_vars(ReadStored(s) \/ ReadRecovery(s) \/ Bridge(s))

Spec == Init /\ [][Next]_<<vars, setting>> /\ Fairness
-----------------------------------------------------------------------------
(***************************************************************************)
(* Properties.                                                             *)
(***************************************************************************)
TypeOK ==
  /\ owner.life \in {"gone", "starting", "live", "answering", "over"}
  /\ owner.term \in 0..setting.terms /\ owner.dec \in 0..setting.decided
  /\ router.read \in 0..Len(log)
  /\ router.after \in {"read", "recheck", "teardown"}
  /\ \A s \in Sockets :
       /\ sub[s].at \in {"off", "stored", "recovery", "bridge", "warm",
                         "forward", "ended"}
       /\ Watching(s) => sub[s].pos <= Sent(s)
       /\ sub[s].barrier \in {"none", "live", "final", "open"}
       /\ sub[s].cont \in Int /\ sub[s].known \subseteq 1..owner.dec

(* Every delta a client applies continues the very state it holds: same
   executor term, next sequence ("deltas contiguous with the checkpointed
   envelope forward immediately").  After a crash, when the numbers of two
   terms overlap, so it does for a client whose state came from a live
   snapshot. *)
DeltasContinue ==
  \A s \in Sockets : sub[s].right \/ (owner.crashes > 0 /\ sub[s].from # "live")

(* A barrier that a client acts upon covers its frontier: every command outcome
   its state contains was forwarded or replayed on this very socket, though
   only checkpointed outcomes are replayed and the others are still on their
   way; so the client may retire its other socket, and with the terminal
   barrier reject what is left in its outbox.  The open barrier beside a
   terminal copy promises nothing. *)
BarrierComplete ==
  \A s \in Sockets :
    sub[s].barrier \in {"live", "final"} => 1..sub[s].frame.dec \subseteq sub[s].known

(* A forwarding subscription never sees its channel close: terminal teardown
   delivers the terminal snapshot first, and a channel that looked abandoned
   is not dropped under a subscriber that just attached. *)
NeverClosed == \A s \in Sockets : sub[s].from # "closed"

(* Together: what a socket is told about its own state is so. *)
SocketsSound == TypeOK /\ BarrierComplete /\ NeverClosed

(* A socket is promoted (its barrier sent) only when live delivery was seen
   on it and it is continuous at that moment, as long as no out-of-band
   rejection was taken for live delivery. *)
PromotedWhileLive ==
  [][\A s \in Sockets :
       (sub[s].barrier # "live" /\ sub'[s].barrier = "live" /\ owner.rejected = 0)
         => sub[s].proven /\ sub[s].cont # Cold]_vars

(* A forwarding subscription that lost continuity is re-anchored or ends:
   its requests, lost in ownerless gaps or coalesced away, are repeated. *)
ColdHeals ==
  \A s \in Sockets :
    (sub[s].at = "forward" /\ sub[s].cont = Cold)
      ~> (sub[s].at # "forward" \/ sub[s].cont # Cold)
=============================================================================
