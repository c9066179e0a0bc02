---- MODULE CommandRecoveryProofs ----
(***************************************************************************)
(* No command is lost, a handoff through the barrier leaves its successor  *)
(* beyond every visible event, replaying the journal rebuilds what the     *)
(* live actor has, and what a client was told stands: proved for every     *)
(* number of commands, stream entries, ticks, terms and recorded outcomes, *)
(* with executors that crash, hand over or give up at any step and         *)
(* checkpoints that arrive late.  Inv is about entries, cursors and event  *)
(* sequences; over it, Exact is about the journal and what it decides.     *)
(* The last section is about one session of a live actor.                  *)
(***************************************************************************)
EXTENDS CommandSession, CommandRecovery, FiniteSetTheorems, TLAPS

-----------------------------------------------------------------------------
(* The inductive invariant of entries, cursors and sequences.              *)

Tasks == {"idle", "activate", "refresh", "periodic", "snapshot"}
IsEnvelope(e) ==
    DOMAIN e = {"cursor", "session", "seq", "ran"} /\ e.cursor \in Nat /\ e.seq \in Nat

StreamTypes ==
    /\ stream \in Seq(ClientSequences \cup {Created})
    /\ delivered \in 0 .. Len(stream) /\ trimmed \in 0 .. delivered
    /\ pel \subseteq 1 .. delivered /\ scan \in 0 .. delivered
    /\ DOMAIN decisions \subseteq pel
    /\ \A i \in DOMAIN decisions : decisions[i].seq \in Nat
    /\ marker \in Nat /\ exec \in {"off", "boot", "activating", "run", "barred"}
HistoryTypes ==
    /\ frontier \in Nat /\ chain \in {"none", "barrier", "bootstrap", "crash"}
    /\ behind \subseteq {"bootstrap"}

\* What an actor has taken in, and what a checkpoint may acknowledge with it.
ActorTypes ==
    /\ DOMAIN actor = {"up", "live", "task", "env", "pending", "mark", "mail"}
    /\ actor.task \in Tasks /\ IsEnvelope(actor.env) /\ actor.env.cursor <= delivered
    /\ actor.pending \subseteq 1 .. actor.env.cursor /\ actor.mark \in Nat
CheckpointTypes ==
    /\ ckpt # NoCkpt => IsEnvelope(ckpt) /\ ckpt.cursor <= delivered
    /\ late # NoLate => /\ DOMAIN late = {"env", "covered"} /\ IsEnvelope(late.env)
                        /\ late.env.cursor <= delivered
                        /\ late.covered \subseteq 1 .. late.env.cursor

\* The actor is ahead of the checkpoint, and where its own dispatcher is unless it
\* still is where the checkpoint put it, or takes in nothing any more.  A mailbox
\* is left for the handoff by an actor that serves deliveries.
Cursors ==
    /\ actor.up => /\ exec \in {"boot", "activating", "run"}
                   /\ ckpt.cursor <= actor.env.cursor
                   /\ actor.env.cursor > scan => actor.env.cursor <= ckpt.cursor
                   /\ exec = "boot" \/ Serving => scan <= actor.env.cursor
                   /\ exec = "boot" => ~actor.live /\ actor.task = "idle"
    /\ exec \in {"boot", "activating", "run"} /\ ~actor.up => ckpt = NoCkpt
    /\ actor.mail => /\ handoff /\ actor.up /\ actor.task # "refresh"
                     /\ exec = "boot" \/ (exec = "run" /\ actor.live)

\* What is visible is covered by a decision beyond entry c.
Beyond(c) == \E i \in DOMAIN decisions : i > c /\ frontier <= decisions[i].seq

\* A checkpoint on its way when its actor was stopped is the last one it sent: the
\* actor may have taken in one delivery since, and decided it.
LateInv ==
    late # NoLate =>
        /\ handoff /\ exec # "boot" /\ ckpt.cursor <= late.env.cursor
        /\ actor.up => /\ actor.task = "idle" /\ late.env.cursor <= actor.env.cursor
                       /\ actor.live =>
                             frontier <= late.env.seq \/ Beyond(late.env.cursor)
        /\ ~actor.up => exec \in {"off", "barred"}

\* What is visible is covered by the actor that made it so and, after a handoff
\* through the barrier, by the watermark, the checkpoint or the decision it left.
Visibility ==
    /\ actor.live => actor.up /\ chain = "none" /\ frontier <= actor.env.seq
    /\ actor.live \/ actor.task = "snapshot" => ckpt # NoCkpt
    /\ actor.live \/ actor.task # "idle" => actor.mark = 0
    /\ ckpt = NoCkpt \/ chain = "crash" => frontier = 0
BarrierInv ==
    chain = "barrier" =>
        /\ actor.up => \/ frontier <= actor.env.seq \/ frontier <= actor.mark
                       \/ /\ actor.task = "idle" /\ (exec = "boot" \/ handoff)
                          /\ Beyond(actor.env.cursor)
        /\ exec \in {"off", "barred"} =>
              frontier <= marker
              \/ (ckpt # NoCkpt /\ (frontier <= ckpt.seq \/ Beyond(ckpt.cursor)))
        /\ late # NoLate /\ ~actor.up =>
              frontier <= late.env.seq \/ Beyond(late.env.cursor)

TypeInv == StreamTypes /\ HistoryTypes /\ ActorTypes /\ CheckpointTypes
Inv == TypeInv /\ NothingLost /\ Cursors /\ LateInv /\ Visibility /\ BarrierInv

-----------------------------------------------------------------------------
(* Numbers.                                                                *)

\* Every nonempty set of naturals has a smallest member.
LEMMA Smallest ==
    ASSUME NEW T \in SUBSET Nat, T # {}
    PROVE  \E x \in T : \A y \in T : x <= y
  <1> DEFINE R == OpToRel(<, Nat)
  <1>1. IsWellFoundedOn(R, Nat) BY NatLessThanWellFounded
  <1>2. R = {ss \in Nat \X Nat : ss[1] < ss[2]} BY DEF OpToRel
  <1> HIDE DEF R
  <1>3. PICK x \in T : \A y \in T : ~ (<<y, x>> \in R) BY <1>1, WFMin
  <1>4. \A y \in T : ~(y < x)
    <2> TAKE y \in T
    <2>1. <<y, x>> \notin R BY <1>3
    <2>2. <<y, x>> \in Nat \X Nat OBVIOUS
    <2> QED BY <1>2, <2>1, <2>2
  <1> QED BY <1>4

\* A bounded set of naturals has a maximum.
LEMMA Largest ==
    ASSUME NEW S \in SUBSET Nat, S # {}, NEW b \in Nat, \A x \in S : x <= b
    PROVE  /\ Max(S) \in S /\ \A y \in S : y <= Max(S)
  <1> DEFINE T == {c \in Nat : \A x \in S : x <= c}
  <1>1. T \in SUBSET Nat /\ T # {} OBVIOUS
  <1>2. PICK c \in T : \A d \in T : c <= d BY <1>1, Smallest
  <1>3. c \in S
    <2> SUFFICES ASSUME c \notin S PROVE FALSE OBVIOUS
    <2>1. PICK z : z \in S OBVIOUS
    <2>2. \A x \in S : x <= c - 1 /\ c - 1 \in Nat BY <2>1
    <2>3. c - 1 \in T BY <2>1, <2>2
    <2> QED BY <1>2, <2>3
  <1>4. \E x \in S : \A y \in S : x >= y BY <1>2, <1>3
  <1> QED BY <1>4 DEF Max
\* The maximum of two.
LEMMA LargerOf == ASSUME NEW x \in Nat, NEW y \in Nat, x <= y PROVE Max({x, y}) = y
  <1>1. {x, y} \in SUBSET Nat /\ {x, y} # {} /\ \A z \in {x, y} : z <= y OBVIOUS
  <1>2. Max({x, y}) \in {x, y} /\ \A z \in {x, y} : z <= Max({x, y}) BY <1>1, Largest
  <1> QED BY <1>2

\* The positions in the stream.
LEMMA Positions ==
    ASSUME TypeInv
    PROVE  /\ Len(stream) \in Nat /\ delivered \in Nat /\ delivered <= Len(stream)
           /\ trimmed \in Nat /\ trimmed <= delivered /\ scan \in Nat /\ scan <= delivered
           /\ \A i \in pel : i \in Nat /\ i >= 1 /\ i <= delivered
  <1>1. Len(stream) \in Nat BY DEF TypeInv, StreamTypes
  <1> QED BY <1>1 DEF TypeInv, StreamTypes

-----------------------------------------------------------------------------
(* Records.                                                                *)

\* The actor that a takeover, a creation or an end of a term leaves.
LEMMA NewActor ==
    ASSUME NEW env, NEW mark
    PROVE  /\ DOMAIN Actor(env, mark) = {"up", "live", "task", "env", "pending", "mark", "mail"}
           /\ Actor(env, mark).up = TRUE /\ Actor(env, mark).live = FALSE
           /\ Actor(env, mark).task = "idle" /\ Actor(env, mark).env = env
           /\ Actor(env, mark).pending = {} /\ Actor(env, mark).mark = mark
           /\ Actor(env, mark).mail = FALSE
  BY DEF Actor

\* The envelope of a game not yet created.
LEMMA EmptyEnvelope ==
    IsEnvelope(NewEnvelope) /\ NewEnvelope.cursor = 0 /\ NewEnvelope.seq = 0
  BY DEF IsEnvelope, NewEnvelope

\* An executor without a term has an empty actor.
LEMMA DeadActor ==
    /\ DOMAIN NoActor = {"up", "live", "task", "env", "pending", "mark", "mail"}
    /\ NoActor.up = FALSE /\ NoActor.live = FALSE /\ NoActor.task = "idle"
    /\ NoActor.env = NewEnvelope /\ NoActor.pending = {} /\ NoActor.mark = 0
    /\ NoActor.mail = FALSE
  BY DEF NoActor, Actor

\* ... which is well typed.
LEMMA DeadTypes == ASSUME actor' = NoActor, delivered' \in Nat PROVE ActorTypes'
  BY DeadActor, EmptyEnvelope DEF ActorTypes, Tasks

\* The absence of a checkpoint is no envelope.
LEMMA NothingYet ==
    /\ NoCkpt.cursor = -1 /\ NoLate.env = NoCkpt
    /\ \A e : IsEnvelope(e) => e # NoCkpt
    /\ \A l : DOMAIN l = {"env", "covered"} /\ IsEnvelope(l.env) => l # NoLate
  BY DEF NoCkpt, NoLate, IsEnvelope

-----------------------------------------------------------------------------
(* Steps that end a term or start one.                                     *)

\* A term ends, by crash or by a release that hands the games on.
LEMMA StopsInv ==
    ASSUME Inv, actor' = NoActor, exec' = "off", UNCHANGED <<durable, scan, handoff, behind>>,
           late' \in {late, NoLate},
           \/ chain' = "crash" /\ frontier' = 0
           \/ chain' \in {"crash", "bootstrap"} /\ frontier' = frontier
              /\ (chain' = "crash" => chain = "crash")
    PROVE  Inv'
  <1>1. TypeInv'
    <2>1. StreamTypes' BY DEF Inv, TypeInv, StreamTypes, durable
    <2>2. HistoryTypes' BY DEF Inv, TypeInv, HistoryTypes
    <2>3. ActorTypes'
      <3>1. delivered' \in Nat BY Positions DEF Inv, durable
      <3> QED BY <3>1, DeadTypes
    <2>4. CheckpointTypes' BY DEF Inv, TypeInv, CheckpointTypes, durable
    <2> QED BY <2>1, <2>2, <2>3, <2>4 DEF TypeInv
  <1>2. NothingLost' BY DEF Inv, NothingLost, durable
  <1>3. Cursors' BY DeadActor DEF Cursors, Serving
  <1>4. LateInv' BY DeadActor DEF Inv, LateInv, durable, Beyond
  <1>5. Visibility' BY DeadActor DEF Inv, Visibility, durable
  <1>6. BarrierInv' BY DEF BarrierInv, Beyond
  <1> QED BY <1>1, <1>2, <1>3, <1>4, <1>5, <1>6 DEF Inv

\* The new actor is where the checkpoint and the watermark were.
LEMMA TakeoverInv == ASSUME Inv, Takeover PROVE Inv'
  <1>1. /\ exec = "off" /\ exec' = "boot" /\ scan' = 0 /\ handoff' = FALSE /\ late' = NoLate
        /\ UNCHANGED <<stream, delivered, pel, trimmed, decisions, ckpt, marker>>
        /\ UNCHANGED <<frontier, chain, behind>>
    BY DEF Takeover, durable, history
  <1>2. ckpt = NoCkpt => actor' = NoActor BY DEF Takeover
  <1>3. ckpt # NoCkpt => /\ DOMAIN actor' = {"up", "live", "task", "env", "pending", "mark", "mail"}
                         /\ actor'.up = TRUE /\ actor'.live = FALSE /\ actor'.task = "idle"
                         /\ actor'.env = ckpt /\ actor'.pending = {} /\ actor'.mark = marker
                         /\ actor'.mail = FALSE
    <2>1. ckpt # NoCkpt => actor' = Actor(ckpt, marker) BY DEF Takeover
    <2> QED BY <2>1 DEF Actor
  <1>4. TypeInv'
    <2>0. delivered \in Nat BY Positions DEF Inv
    <2>1. StreamTypes' BY <1>1, <2>0 DEF Inv, TypeInv, StreamTypes
    <2>2. HistoryTypes' BY <1>1 DEF Inv, TypeInv, HistoryTypes
    <2>3. ActorTypes'
      <3>1. CASE ckpt = NoCkpt
        BY <1>1, <1>2, <2>0, <3>1, DeadTypes
      <3>2. CASE ckpt # NoCkpt
        BY <1>1, <1>3, <3>2 DEF Inv, TypeInv, ActorTypes, CheckpointTypes, StreamTypes, Tasks
      <3> QED BY <3>1, <3>2
    <2>4. CheckpointTypes' BY <1>1 DEF Inv, TypeInv, CheckpointTypes
    <2> QED BY <2>1, <2>2, <2>3, <2>4 DEF TypeInv
  <1>5. NothingLost' BY <1>1 DEF Inv, NothingLost
  <1>6. Cursors'
    BY <1>1, <1>2, <1>3, DeadActor DEF Inv, TypeInv, CheckpointTypes, IsEnvelope, Cursors, Serving
  <1>7. LateInv' BY <1>1 DEF LateInv, Beyond
  <1>8. Visibility' BY <1>1, <1>2, <1>3, DeadActor DEF Inv, Visibility
  <1>9. BarrierInv' BY <1>1, <1>2, <1>3, DeadActor DEF Inv, BarrierInv, Beyond
  <1> QED BY <1>4, <1>5, <1>6, <1>7, <1>8, <1>9 DEF Inv

\* A watermark or an empty partition is released.
LEMMA ReleaseInv == ASSUME Inv, Release PROVE Inv'
  <1>1. /\ exec = "barred" /\ exec' = "off" /\ late' = NoLate
        /\ UNCHANGED <<stream, delivered, pel, trimmed, decisions, ckpt, marker>>
        /\ UNCHANGED <<scan, handoff, actor, frontier, chain, behind>>
    BY DEF Release, durable, history
  <1>2. TypeInv'
    BY <1>1 DEF Inv, TypeInv, StreamTypes, HistoryTypes, ActorTypes, CheckpointTypes
  <1>3. NothingLost' BY <1>1 DEF Inv, NothingLost
  <1>4. Cursors' /\ LateInv' BY <1>1 DEF Inv, Cursors, LateInv, Serving, Beyond
  <1>5. Visibility' /\ BarrierInv' BY <1>1 DEF Inv, Visibility, BarrierInv, Beyond
  <1> QED BY <1>2, <1>3, <1>4, <1>5 DEF Inv

\* The barrier writes down the sequence of a live actor, beyond all that is visible.
LEMMA BarrierStepInv == ASSUME Inv, Barrier PROVE Inv'
  <1>1. /\ exec = "run" /\ exec' = "barred" /\ actor' = NoActor
        /\ UNCHANGED <<stream, delivered, pel, trimmed, decisions, ckpt>>
        /\ UNCHANGED <<scan, handoff, late, frontier, behind>>
    BY DEF Barrier
  <1>2. /\ marker' = IF actor.up THEN actor.env.seq ELSE marker
        /\ chain' = IF chain \in {"crash", "bootstrap"} THEN chain
                    ELSE IF actor.up /\ ~actor.live THEN "bootstrap" ELSE "barrier"
    BY DEF Barrier
  <1>3. TypeInv'
    <2>0. delivered' \in Nat BY <1>1, Positions DEF Inv
    <2>1. marker' \in Nat BY <1>2 DEF Inv, TypeInv, StreamTypes, ActorTypes, IsEnvelope
    <2>2. StreamTypes' BY <1>1, <2>1 DEF Inv, TypeInv, StreamTypes
    <2>3. HistoryTypes' BY <1>1, <1>2 DEF Inv, TypeInv, HistoryTypes
    <2>4. ActorTypes' BY <1>1, <2>0, DeadTypes
    <2>5. CheckpointTypes' BY <1>1 DEF Inv, TypeInv, CheckpointTypes
    <2> QED BY <2>2, <2>3, <2>4, <2>5 DEF TypeInv
  <1>4. NothingLost' BY <1>1 DEF Inv, NothingLost
  <1>5. Cursors' /\ LateInv' BY <1>1, DeadActor DEF Inv, Cursors, LateInv, Serving, Beyond
  <1>6. Visibility' BY <1>1, <1>2, DeadActor DEF Inv, Visibility
  <1>7. BarrierInv'
    <2> SUFFICES ASSUME chain' = "barrier"
                 PROVE  /\ frontier <= marker'
                        /\ late # NoLate =>
                              frontier <= late.env.seq \/ Beyond(late.env.cursor)
      BY <1>1, DeadActor DEF BarrierInv, Beyond
    <2>1. CASE actor.up
      <3>1. actor.live BY <1>2, <2>1
      <3>2. frontier <= actor.env.seq BY <3>1 DEF Inv, Visibility
      <3>3. late # NoLate => frontier <= late.env.seq \/ Beyond(late.env.cursor)
        BY <2>1, <3>1 DEF Inv, LateInv
      <3> QED BY <1>2, <2>1, <3>2, <3>3
    <2>2. CASE ~actor.up
      <3>1. frontier = 0 BY <1>1, <2>2 DEF Inv, Cursors, Visibility
      <3>2. late = NoLate BY <1>1, <2>2 DEF Inv, LateInv
      <3> QED BY <1>2, <2>2, <3>1, <3>2 DEF Inv, TypeInv, StreamTypes
    <2> QED BY <2>1, <2>2
  <1> QED BY <1>3, <1>4, <1>5, <1>6, <1>7 DEF Inv

-----------------------------------------------------------------------------
(* The stream and its group.                                               *)

\* New entries, and deliveries of them, leave nothing behind.
LEMMA SubmitInv == ASSUME Inv, NEW n \in ClientSequences, Submit(n) PROVE Inv'
  <1>1. /\ stream' = Append(stream, n)
        /\ UNCHANGED <<delivered, pel, trimmed, decisions, ckpt, marker>>
        /\ UNCHANGED <<exec, scan, handoff, actor, late, frontier, chain, behind>>
    BY DEF Submit, history
  <1>2. /\ Len(stream') = Len(stream) + 1 /\ stream' \in Seq(ClientSequences \cup {Created})
    BY <1>1 DEF Inv, TypeInv, StreamTypes
  <1>3. TypeInv'
    <2>0. Len(stream) \in Nat /\ delivered \in Nat BY Positions DEF Inv
    <2>1. StreamTypes' BY <1>1, <1>2, <2>0 DEF Inv, TypeInv, StreamTypes
    <2>2. HistoryTypes' /\ ActorTypes' /\ CheckpointTypes'
      BY <1>1 DEF Inv, TypeInv, HistoryTypes, ActorTypes, CheckpointTypes
    <2> QED BY <2>1, <2>2 DEF TypeInv
  <1>4. NothingLost'
    <2> SUFFICES ASSUME NEW i \in 1 .. Len(stream'), i > ckpt.cursor
                 PROVE  i >= trimmed /\ (i \in pel \/ i > delivered)
      BY <1>1 DEF NothingLost
    <2>1. /\ Len(stream) \in Nat /\ delivered \in Nat /\ delivered <= Len(stream)
          /\ trimmed \in Nat /\ trimmed <= delivered
      BY Positions DEF Inv
    <2>2. CASE i \in 1 .. Len(stream) BY <2>2 DEF Inv, NothingLost
    <2>3. CASE i = Len(stream) + 1 BY <2>1, <2>3
    <2> QED BY <1>2, <2>1, <2>2, <2>3
  <1>5. Cursors' /\ LateInv' BY <1>1 DEF Inv, Cursors, LateInv, Serving, Beyond
  <1>6. Visibility' /\ BarrierInv' BY <1>1 DEF Inv, Visibility, BarrierInv, Beyond
  <1> QED BY <1>3, <1>4, <1>5, <1>6 DEF Inv

\* A group read extends what is delivered and pending by the same ids.
LEMMA ReadNewInv == ASSUME Inv, ReadNew PROVE Inv'
  <1>1. PICK last \in delivered + 1 .. Len(stream) :
            delivered' = last /\ pel' = pel \cup (delivered + 1 .. last)
    BY DEF ReadNew
  <1>2. /\ UNCHANGED <<stream, trimmed, decisions, ckpt, marker>>
        /\ UNCHANGED <<exec, scan, handoff, actor, late, frontier, chain, behind>>
    BY DEF ReadNew, history
  <1>3. /\ Len(stream) \in Nat /\ delivered \in Nat /\ delivered <= Len(stream)
        /\ trimmed \in Nat /\ trimmed <= delivered /\ scan \in Nat /\ scan <= delivered
        /\ last \in Nat /\ delivered < last /\ last <= Len(stream)
    BY <1>1, Positions DEF Inv
  <1>4. TypeInv'
    <2>0. pel' \subseteq 1 .. delivered' /\ pel \subseteq pel'
      BY <1>1, <1>3 DEF Inv, TypeInv, StreamTypes
    <2>1. StreamTypes' BY <1>1, <1>2, <1>3, <2>0 DEF Inv, TypeInv, StreamTypes
    <2>2. HistoryTypes' BY <1>2 DEF Inv, TypeInv, HistoryTypes
    <2>3. ActorTypes' BY <1>1, <1>2, <1>3 DEF Inv, TypeInv, ActorTypes, IsEnvelope
    <2>4. CheckpointTypes' BY <1>1, <1>2, <1>3 DEF Inv, TypeInv, CheckpointTypes, IsEnvelope
    <2> QED BY <2>1, <2>2, <2>3, <2>4 DEF TypeInv
  <1>5. NothingLost' BY <1>1, <1>2, <1>3 DEF Inv, NothingLost
  <1>6. Cursors' /\ LateInv' BY <1>2 DEF Inv, Cursors, LateInv, Serving, Beyond
  <1>7. Visibility' /\ BarrierInv' BY <1>2 DEF Inv, Visibility, BarrierInv, Beyond
  <1> QED BY <1>4, <1>5, <1>6, <1>7 DEF Inv

\* MINID keeps what is pending and what is not delivered.
LEMMA TrimInv == ASSUME Inv, Trim PROVE Inv'
  <1>1. /\ trimmed' = TrimThreshold
        /\ UNCHANGED <<stream, delivered, pel, decisions, ckpt, marker>>
        /\ UNCHANGED <<exec, scan, handoff, actor, late, frontier, chain, behind>>
    BY DEF Trim, history
  <1>2. /\ Len(stream) \in Nat /\ delivered \in Nat /\ delivered <= Len(stream)
        /\ \A i \in pel : i \in Nat /\ i >= 1 /\ i <= delivered
    BY Positions DEF Inv
  <1>3. pel # {} => Min(pel) \in pel /\ \A i \in pel : Min(pel) <= i
    <2> SUFFICES ASSUME pel # {} PROVE Min(pel) \in pel /\ \A i \in pel : Min(pel) <= i
      OBVIOUS
    <2>1. \E x \in pel : \A y \in pel : x <= y BY <1>2, Smallest
    <2> QED BY <2>1 DEF Min
  <1>4. trimmed' \in 0 .. delivered BY <1>1, <1>2, <1>3 DEF TrimThreshold
  <1>5. \A i \in pel : trimmed' <= i BY <1>1, <1>3 DEF TrimThreshold
  <1>6. TypeInv'
    BY <1>1, <1>4 DEF Inv, TypeInv, StreamTypes, HistoryTypes, ActorTypes, CheckpointTypes
  <1>7. NothingLost' BY <1>1, <1>2, <1>4, <1>5 DEF Inv, NothingLost
  <1>8. Cursors' /\ LateInv' BY <1>1 DEF Inv, Cursors, LateInv, Serving, Beyond
  <1>9. Visibility' /\ BarrierInv' BY <1>1 DEF Inv, Visibility, BarrierInv, Beyond
  <1> QED BY <1>6, <1>7, <1>8, <1>9 DEF Inv

\* The dispatcher has been through all that was delivered, or skips it.
LEMMA ReplayDoneInv == ASSUME Inv, ReplayDone PROVE Inv'
  <1>1. /\ exec = "boot" /\ exec' = "activating" /\ scan' = Max(pel \cup {scan})
        /\ ~actor.mail /\ (handoff \/ Undispatched = {})
        /\ UNCHANGED <<stream, delivered, pel, trimmed, decisions, ckpt, marker>>
        /\ UNCHANGED <<handoff, actor, late, frontier, chain, behind>>
    BY DEF ReplayDone, durable, history
  <1>2. /\ delivered \in Nat /\ scan \in Nat /\ scan <= delivered
        /\ \A i \in pel : i \in Nat /\ i >= 1 /\ i <= delivered
    BY Positions DEF Inv
  <1>3. scan' \in pel \cup {scan} /\ scan <= scan'
    <2>1. /\ pel \cup {scan} \in SUBSET Nat /\ pel \cup {scan} # {}
          /\ \A x \in pel \cup {scan} : x <= delivered
      BY <1>2
    <2> QED BY <1>1, <1>2, <2>1, Largest
  <1>4. scan' \in 0 .. delivered BY <1>2, <1>3
  <1>5. TypeInv'
    BY <1>1, <1>4 DEF Inv, TypeInv, StreamTypes, HistoryTypes, ActorTypes, CheckpointTypes
  <1>6. NothingLost' BY <1>1 DEF Inv, NothingLost
  <1>9. ~handoff => scan' = scan /\ \A i \in pel : i <= scan
    BY <1>1, <1>2, <1>3 DEF Undispatched
  <1>7. Cursors'
    <2>1. actor.env.cursor \in Nat BY DEF Inv, TypeInv, ActorTypes, IsEnvelope
    <2>2. actor.up /\ ~handoff => scan' <= actor.env.cursor BY <1>1, <1>9 DEF Inv, Cursors
    <2> QED BY <1>1, <1>2, <1>3, <1>4, <2>1, <2>2 DEF Inv, Cursors, Serving
  <1>8. LateInv' /\ Visibility' BY <1>1 DEF Inv, LateInv, Visibility, Beyond
  <1>10. BarrierInv'
    <2>1. actor.up /\ ~handoff => ~Beyond(actor.env.cursor)
      <3>1. \A i \in DOMAIN decisions : i \in pel BY DEF Inv, TypeInv, StreamTypes
      <3>2. actor.env.cursor \in Nat BY DEF Inv, TypeInv, ActorTypes, IsEnvelope
      <3> QED BY <1>1, <1>2, <1>9, <3>1, <3>2 DEF Inv, Cursors, Beyond
    <2> QED BY <1>1, <2>1 DEF Inv, BarrierInv, Beyond
  <1> QED BY <1>5, <1>6, <1>7, <1>8, <1>10 DEF Inv

\* The control steps that write nothing.
LEMMA ControlInv ==
    ASSUME Inv, UNCHANGED <<durable, scan, actor, late, frontier, chain, behind>>,
           \/ exec = "activating" /\ exec' = "run" /\ handoff' = handoff
           \/ exec' = exec /\ handoff' = handoff
    PROVE  Inv'
  <1>1. TypeInv'
    BY DEF Inv, TypeInv, StreamTypes, HistoryTypes, ActorTypes, CheckpointTypes, durable
  <1>2. NothingLost' BY DEF Inv, NothingLost, durable
  <1>3. Cursors' BY DEF Inv, Cursors, durable, Serving
  <1>4. LateInv' BY DEF Inv, LateInv, durable, Beyond
  <1>5. Visibility' BY DEF Inv, Visibility, durable
  <1>6. BarrierInv' BY DEF Inv, BarrierInv, durable, Beyond
  <1> QED BY <1>1, <1>2, <1>3, <1>4, <1>5, <1>6 DEF Inv

\* The handoff begins, with or without a delivery in the mailbox.
LEMMA StartHandoffInv == ASSUME Inv, StartHandoff PROVE Inv'
  <1>1. /\ ~handoff /\ handoff' = TRUE
        /\ UNCHANGED <<stream, delivered, pel, trimmed, decisions, ckpt, marker>>
        /\ UNCHANGED <<exec, scan, late, frontier, chain, behind>>
    BY DEF StartHandoff, durable, history
  <1>2. PICK mail \in BOOLEAN :
            (mail => MayHoldMail) /\ actor' = [actor EXCEPT !.mail = mail]
    BY DEF StartHandoff
  <1>3. /\ DOMAIN actor' = {"up", "live", "task", "env", "pending", "mark", "mail"}
        /\ actor'.up = actor.up /\ actor'.live = actor.live /\ actor'.task = actor.task
        /\ actor'.env = actor.env /\ actor'.pending = actor.pending
        /\ actor'.mark = actor.mark /\ actor'.mail = mail
    BY <1>2 DEF Inv, TypeInv, ActorTypes
  <1>4. TypeInv'
    BY <1>1, <1>3 DEF Inv, TypeInv, StreamTypes, HistoryTypes, ActorTypes, CheckpointTypes
  <1>5. NothingLost' BY <1>1 DEF Inv, NothingLost
  <1>6. Cursors'
    <2>1. actor.up /\ exec = "boot" => actor.task = "idle" BY DEF Inv, Cursors
    <2> QED BY <1>1, <1>2, <1>3, <2>1 DEF Inv, Cursors, Serving, MayHoldMail
  <1>7. LateInv' BY <1>1 DEF Inv, LateInv
  <1>8. Visibility' BY <1>1, <1>3 DEF Inv, Visibility
  <1>9. BarrierInv' BY <1>1, <1>3 DEF Inv, BarrierInv, Beyond
  <1> QED BY <1>4, <1>5, <1>6, <1>7, <1>8, <1>9 DEF Inv

-----------------------------------------------------------------------------
(* Dispatch.                                                               *)

\* Cursors and sequences are numbers, -1 where there is no checkpoint.
LEMMA CheckpointCursor ==
    ASSUME Inv
    PROVE  /\ ckpt.cursor \in Int
           /\ actor.env.cursor \in Nat /\ actor.env.seq \in Nat
           /\ ckpt # NoCkpt => ckpt.cursor \in Nat /\ ckpt.seq \in Nat
           /\ ckpt = NoCkpt => ckpt.cursor = -1
  BY NothingYet DEF Inv, TypeInv, ActorTypes, CheckpointTypes, IsEnvelope

\* The next delivery is pending, and beyond the dispatcher.
LEMMA NextDelivery ==
    ASSUME Inv, Undispatched # {}
    PROVE  /\ NextId \in pel /\ NextId > scan /\ NextId \in Nat /\ NextId >= 1
           /\ NextId <= delivered /\ \A i \in pel : i > scan => NextId <= i
  <1>1. \A i \in pel : i \in Nat /\ i >= 1 /\ i <= delivered BY Positions DEF Inv
  <1>2. Undispatched \in SUBSET Nat /\ Undispatched \subseteq pel
    BY <1>1 DEF Undispatched
  <1>3. \E x \in Undispatched : \A y \in Undispatched : x <= y BY <1>2, Smallest
  <1>4. NextId \in Undispatched /\ \A i \in Undispatched : NextId <= i
    BY <1>3 DEF NextId, Min
  <1> QED BY <1>1, <1>4 DEF Undispatched

\* What a script acknowledges loses its decision with it.
LEMMA Acknowledged ==
    ASSUME Inv, NEW ids, AckAndForget(ids)
    PROVE  /\ pel' = pel \ ids /\ DOMAIN decisions' \subseteq pel'
           /\ \A i \in DOMAIN decisions' : decisions'[i].seq \in Nat
           /\ \A i \in DOMAIN decisions \ ids :
                 i \in DOMAIN decisions' /\ decisions'[i] = decisions[i]
  BY DEF AckAndForget, Restrict, Inv, TypeInv, StreamTypes

\* ... so that a decision beyond what was acknowledged stays.
LEMMA StaysBeyond ==
    ASSUME Inv, NEW ids, AckAndForget(ids), frontier' = frontier, NEW c \in Nat,
           ids \subseteq 1 .. c, Beyond(c)
    PROVE  Beyond(c)'
  <1>1. PICK i \in DOMAIN decisions : i > c /\ frontier <= decisions[i].seq BY DEF Beyond
  <1>2. i \in Nat BY Positions DEF Inv, TypeInv, StreamTypes
  <1>3. i \notin ids BY <1>1, <1>2
  <1> QED BY <1>1, <1>3, Acknowledged DEF Beyond

\* A duplicate is acknowledged because the checkpoint covers it, not because the
\* actor has seen it.
LEMMA AckDuplicateInv ==
    ASSUME Inv, ~handoff, Undispatched # {}, AckDuplicate(NextId)
    PROVE  Inv'
  <1>0. PICK id : id = NextId OBVIOUS
  <1>1. id \in pel /\ id > scan /\ id \in Nat /\ id >= 1 /\ id <= delivered
    BY <1>0, NextDelivery
  <1>2. /\ actor.up /\ id <= actor.env.cursor /\ scan' = id /\ AckAndForget({id})
        /\ UNCHANGED <<stream, delivered, trimmed, ckpt, marker>>
        /\ UNCHANGED <<exec, handoff, actor, late, frontier, chain, behind>>
    BY <1>0 DEF AckDuplicate, history
  <1>3. /\ pel' = pel \ {id} /\ DOMAIN decisions' \subseteq pel'
        /\ \A i \in DOMAIN decisions' : decisions'[i].seq \in Nat
    BY <1>2, Acknowledged
  <1>4. delivered \in Nat /\ scan \in Nat BY Positions DEF Inv
  <1>5. id <= ckpt.cursor
    <2>1. actor.env.cursor > scan BY <1>1, <1>2, <1>4, CheckpointCursor
    <2>2. actor.env.cursor <= ckpt.cursor BY <1>2, <2>1 DEF Inv, Cursors
    <2> QED BY <1>1, <1>2, <2>2, CheckpointCursor
  <1>6. TypeInv'
    <2>1. StreamTypes' BY <1>1, <1>2, <1>3, <1>4 DEF Inv, TypeInv, StreamTypes
    <2>2. HistoryTypes' /\ ActorTypes' /\ CheckpointTypes'
      BY <1>2 DEF Inv, TypeInv, HistoryTypes, ActorTypes, CheckpointTypes
    <2> QED BY <2>1, <2>2 DEF TypeInv
  <1>7. NothingLost'
    <2> SUFFICES ASSUME NEW i \in 1 .. Len(stream), i > ckpt.cursor
                 PROVE  i >= trimmed /\ (i \in pel' \/ i > delivered)
      BY <1>2 DEF NothingLost
    <2>1. i # id BY <1>1, <1>5, CheckpointCursor
    <2> QED BY <1>3, <2>1 DEF Inv, NothingLost
  <1>8. Cursors' BY <1>1, <1>2, <1>4, CheckpointCursor DEF Inv, Cursors, Serving
  <1>9. LateInv' /\ Visibility' BY <1>2 DEF Inv, LateInv, Visibility
  <1>10. BarrierInv'
    <2>1. actor.env.cursor \in Nat /\ {id} \subseteq 1 .. actor.env.cursor
      BY <1>1, <1>2, CheckpointCursor
    <2>2. Beyond(actor.env.cursor) => Beyond(actor.env.cursor)'
      BY <1>2, <2>1, StaysBeyond DEF Beyond
    <2> QED BY <1>2, <2>2 DEF Inv, BarrierInv, Cursors, LateInv
  <1> QED BY <1>6, <1>7, <1>8, <1>9, <1>10 DEF Inv

\* A game is created when no checkpoint of it exists.
LEMMA CreateInv ==
    ASSUME Inv, ~handoff, exec \in {"boot", "run"}, Undispatched # {}, Create(NextId)
    PROVE  Inv'
  <1>0. PICK id : id = NextId OBVIOUS
  <1>1. id \in pel /\ id > scan /\ id \in Nat /\ id >= 1 /\ id <= delivered
    BY <1>0, NextDelivery
  <1>2. /\ ~actor.up /\ scan' = id
        /\ UNCHANGED <<stream, delivered, pel, trimmed, decisions, ckpt, marker>>
        /\ UNCHANGED <<exec, handoff, late, frontier, chain, behind>>
    BY <1>0 DEF Create, durable, history
  <1>3. PICK env : env = [NewEnvelope EXCEPT !.cursor = id] OBVIOUS
  <1>4. IsEnvelope(env) /\ env.cursor = id /\ env.seq = 0
    BY <1>1, <1>3 DEF IsEnvelope, NewEnvelope
  <1>5. actor' = [Actor(env, 0) EXCEPT !.pending = {id}] BY <1>0, <1>3 DEF Create
  <1>6. /\ DOMAIN actor' = {"up", "live", "task", "env", "pending", "mark", "mail"}
        /\ actor'.up = TRUE /\ actor'.live = FALSE /\ actor'.task = "idle"
        /\ actor'.env = env /\ actor'.pending = {id} /\ actor'.mark = 0
        /\ actor'.mail = FALSE
    BY <1>5 DEF Actor
  <1>7. ckpt = NoCkpt /\ frontier = 0 BY <1>2 DEF Inv, Cursors, Visibility
  <1>8. late = NoLate BY <1>2 DEF Inv, LateInv
  <1>9. delivered \in Nat /\ scan \in Nat BY Positions DEF Inv
  <1>10. TypeInv'
    <2>1. StreamTypes' BY <1>1, <1>2, <1>9 DEF Inv, TypeInv, StreamTypes
    <2>2. HistoryTypes' /\ CheckpointTypes'
      BY <1>2 DEF Inv, TypeInv, HistoryTypes, CheckpointTypes
    <2>3. ActorTypes' BY <1>1, <1>2, <1>4, <1>6 DEF ActorTypes, Tasks
    <2> QED BY <2>1, <2>2, <2>3 DEF TypeInv
  <1>11. NothingLost' BY <1>2 DEF Inv, NothingLost
  <1>12. Cursors' BY <1>1, <1>2, <1>4, <1>6, <1>7, NothingYet DEF Cursors, Serving
  <1>13. LateInv' BY <1>2, <1>8 DEF LateInv, Beyond
  <1>14. Visibility' /\ BarrierInv' BY <1>2, <1>4, <1>6, <1>7 DEF Visibility, BarrierInv, Beyond
  <1> QED BY <1>10, <1>11, <1>12, <1>13, <1>14 DEF Inv

\* The state in which the next delivery is taken in.
Dispatching(id) ==
    /\ exec \in {"boot", "run"} /\ Serving /\ actor.up /\ actor.task = "idle"
    /\ id \in pel /\ id > scan /\ id \in Nat /\ id >= 1 /\ id <= delivered
    /\ id > actor.env.cursor /\ \A i \in pel : i > scan => id <= i

\* A delivery was taken in, and what became visible with it is in the envelope.
LEMMA IncorporatedInv ==
    ASSUME Inv, NEW id, Dispatching(id), NEW env, IsEnvelope(env),
           env.seq >= actor.env.seq, NEW task \in {"idle", "refresh"},
           task = "refresh" => actor.live /\ ~handoff, Incorporated(id, env, task),
           DOMAIN decisions' \subseteq DOMAIN decisions \cup {id},
           \A i \in DOMAIN decisions' : decisions'[i].seq \in Nat,
           \/ /\ UNCHANGED <<decisions, frontier>>
              /\ id \in DOMAIN decisions => decisions[id].seq <= env.seq
           \/ /\ actor.live /\ frontier' \in Nat /\ frontier' <= env.seq
              /\ id \in DOMAIN decisions' /\ frontier' <= decisions'[id].seq
    PROVE  Inv'
  <1>1. PICK e : e = [env EXCEPT !.cursor = id] OBVIOUS
  <1>2. IsEnvelope(e) /\ e.cursor = id /\ e.seq = env.seq
    BY <1>1 DEF IsEnvelope, Dispatching
  <1>3. actor' = [actor EXCEPT !.env = e, !.pending = actor.pending \cup {id}, !.task = task,
                               !.mail = FALSE]
    BY <1>1 DEF Incorporated, Inv, TypeInv, ActorTypes
  <1>4. /\ DOMAIN actor' = {"up", "live", "task", "env", "pending", "mark", "mail"}
        /\ actor'.up = actor.up /\ actor'.live = actor.live /\ actor'.task = task
        /\ actor'.env = e /\ actor'.pending = actor.pending \cup {id}
        /\ actor'.mark = actor.mark /\ actor'.mail = FALSE
    BY <1>3 DEF Inv, TypeInv, ActorTypes
  <1>5. /\ scan' = id /\ UNCHANGED <<stream, delivered, pel, trimmed, ckpt, marker>>
        /\ UNCHANGED <<exec, handoff, late, chain, behind>>
    BY DEF Incorporated
  <1>6. /\ actor.env.cursor \in Nat /\ actor.env.seq \in Nat /\ ckpt.cursor \in Int
        /\ delivered \in Nat /\ scan \in Nat /\ env.seq \in Nat
    BY CheckpointCursor, Positions DEF Inv, IsEnvelope
  <1>7. late # NoLate => actor.live BY DEF Dispatching, Inv, LateInv, Cursors, Serving
  <1>8. TypeInv'
    <2>1. StreamTypes' BY <1>5, <1>6 DEF Inv, TypeInv, StreamTypes, Dispatching
    <2>2. HistoryTypes' BY <1>5 DEF Inv, TypeInv, HistoryTypes
    <2>3. CheckpointTypes' BY <1>5 DEF Inv, TypeInv, CheckpointTypes
    <2>4. actor'.pending \subseteq 1 .. id
      BY <1>4, <1>6 DEF Inv, TypeInv, ActorTypes, Dispatching
    <2>5. ActorTypes'
      BY <1>2, <1>4, <1>5, <2>4 DEF Inv, TypeInv, ActorTypes, Tasks, Dispatching
    <2> QED BY <2>1, <2>2, <2>3, <2>5 DEF TypeInv
  <1>9. NothingLost' BY <1>5 DEF Inv, NothingLost
  <1>10. Cursors'
    <2>1. ckpt.cursor <= actor.env.cursor BY DEF Dispatching, Inv, Cursors
    <2>2. ckpt.cursor <= id BY <1>6, <2>1 DEF Dispatching
    <2>3. exec = "boot" => ~actor.live BY DEF Dispatching, Inv, Cursors
    <2> QED BY <1>2, <1>4, <1>5, <1>6, <2>2, <2>3 DEF Cursors, Dispatching
  <1>11. LateInv'
    <2> SUFFICES ASSUME late # NoLate PROVE LateInv' BY <1>5 DEF LateInv
    <2>1. /\ handoff /\ exec # "boot" /\ ckpt.cursor <= late.env.cursor
          /\ late.env.cursor <= actor.env.cursor /\ late.env.cursor \in Nat
          /\ frontier <= late.env.seq \/ Beyond(late.env.cursor)
      BY <1>7 DEF Inv, LateInv, TypeInv, CheckpointTypes, IsEnvelope, Dispatching
    <2>2. task = "idle" /\ id > late.env.cursor BY <1>6, <2>1 DEF Dispatching
    <2>3. frontier' <= late.env.seq \/ Beyond(late.env.cursor)' BY <2>1, <2>2, <1>5 DEF Beyond
    <2> QED BY <1>2, <1>4, <1>5, <1>6, <2>1, <2>2, <2>3 DEF LateInv, Dispatching
  <1>12. Visibility'
    <2>1. actor.live => frontier' <= e.seq
      BY <1>2, <1>6 DEF Inv, Visibility, TypeInv, HistoryTypes
    <2>2. ckpt = NoCkpt \/ chain = "crash" => frontier' = 0 BY DEF Inv, Visibility
    <2> QED BY <1>4, <1>5, <2>1, <2>2 DEF Inv, Visibility, Dispatching
  <1>13. BarrierInv'
    <2> SUFFICES ASSUME chain = "barrier"
                 PROVE  \/ frontier' <= e.seq \/ frontier' <= actor.mark
                        \/ task = "idle" /\ (exec = "boot" \/ handoff) /\ Beyond(id)'
      BY <1>2, <1>4, <1>5 DEF BarrierInv, Dispatching
    <2>1. /\ ~actor.live /\ UNCHANGED <<decisions, frontier>> /\ task = "idle"
          /\ id \in DOMAIN decisions => decisions[id].seq <= env.seq
      BY DEF Inv, Visibility
    <2>2. CASE frontier <= actor.env.seq \/ frontier <= actor.mark
      BY <1>2, <1>6, <2>1, <2>2 DEF Inv, TypeInv, HistoryTypes
    <2>3. CASE (exec = "boot" \/ handoff) /\ Beyond(actor.env.cursor)
      <3>1. PICK i \in DOMAIN decisions : i > actor.env.cursor /\ frontier <= decisions[i].seq
        BY <2>3 DEF Beyond
      <3>2. i \in pel /\ i \in Nat /\ decisions[i].seq \in Nat /\ frontier \in Nat
        BY Positions DEF Inv, TypeInv, StreamTypes, HistoryTypes
      <3>3. scan <= actor.env.cursor BY DEF Inv, Cursors, Dispatching
      <3>4. id <= i BY <1>6, <3>1, <3>2, <3>3 DEF Dispatching
      <3>5. CASE i = id BY <1>2, <1>6, <2>1, <3>1, <3>2, <3>5
      <3>6. CASE i # id
        <4>1. i > id BY <3>2, <3>4, <3>6 DEF Dispatching
        <4> QED BY <2>1, <2>3, <3>1, <4>1 DEF Beyond
      <3> QED BY <3>5, <3>6
    <2> QED BY <2>2, <2>3 DEF Inv, BarrierInv, Dispatching
  <1> QED BY <1>8, <1>9, <1>10, <1>11, <1>12, <1>13 DEF Inv

\* publish_command_decision_fenced: decision, event and sequence move together.
LEMMA PublishInv ==
    ASSUME Inv, NEW id, Dispatching(id), NEW env, IsEnvelope(env), env.seq = actor.env.seq,
           id \notin DOMAIN decisions,
           NEW n, NEW o, NEW fence, Publish(id, n, o, fence, env)
    PROVE  Inv'
  <1>1. PICK e : e = [env EXCEPT !.seq = @ + 1] OBVIOUS
  <1>2. IsEnvelope(e) /\ e.seq = env.seq + 1 /\ env.seq \in Nat BY <1>1 DEF IsEnvelope
  <1>3. CASE actor.live
    <2>1. PICK task \in {"idle", "refresh"} : task = "idle" OBVIOUS
    <2>2. Incorporated(id, e, task) BY <1>1, <1>3, <2>1 DEF Publish
    <2>3. PICK d : d = [n |-> n, o |-> o, fence |-> fence, seq |-> env.seq + 1,
                        counter |-> Len(env.ran)] OBVIOUS
    <2>4. d.seq = env.seq + 1 BY <2>3
    <2>5. decisions' = [i \in DOMAIN decisions \cup {id} |->
                           IF i # id THEN decisions[i] ELSE d]
      BY <1>3, <2>3 DEF Publish, Journalled
    <2>6. DOMAIN decisions' = DOMAIN decisions \cup {id} BY <2>5
    <2>7. \A i \in DOMAIN decisions' : decisions'[i].seq \in Nat
      <3>1. \A i \in DOMAIN decisions' :
                decisions'[i] = IF i # id THEN decisions[i] ELSE d
        BY <2>5
      <3>2. \A i \in DOMAIN decisions : decisions[i].seq \in Nat
        BY DEF Inv, TypeInv, StreamTypes
      <3>3. d.seq \in Nat BY <1>2, <2>4
      <3> QED BY <2>6, <3>1, <3>2, <3>3
    <2>8. /\ frontier' \in Nat /\ frontier' <= e.seq
          /\ id \in DOMAIN decisions' /\ frontier' <= decisions'[id].seq
      <3>0. id \in DOMAIN decisions' /\ decisions'[id] = d BY <2>5
      <3>1. frontier \in Nat /\ frontier <= env.seq
        BY <1>3 DEF Inv, Visibility, TypeInv, HistoryTypes
      <3>2. Max({frontier, env.seq + 1}) = env.seq + 1 BY <1>2, <3>1, LargerOf
      <3>3. frontier' = Max({frontier, env.seq + 1}) BY <1>3 DEF Publish, Visible
      <3> QED BY <1>2, <2>4, <3>0, <3>2, <3>3
    <2>9. e.seq >= actor.env.seq BY <1>2
    <2> QED BY <1>2, <1>3, <2>1, <2>2, <2>6, <2>7, <2>8, <2>9, IncorporatedInv
  <1>4. CASE ~actor.live
    <2>1. PICK task \in {"idle", "refresh"} : task = "idle" OBVIOUS
    <2>2. Incorporated(id, env, task) /\ UNCHANGED <<decisions, frontier>>
      BY <1>4, <2>1 DEF Publish
    <2>3. \A i \in DOMAIN decisions' : decisions'[i].seq \in Nat
      BY <2>2 DEF Inv, TypeInv, StreamTypes
    <2>4. env.seq >= actor.env.seq BY <1>2
    <2> QED BY <2>1, <2>2, <2>3, <2>4, IncorporatedInv
  <1> QED BY <1>3, <1>4

\* incorporate_v2_command decides, answers again, or asks for a fresh snapshot.
LEMMA UndecidedInv ==
    ASSUME Inv, NEW id, Dispatching(id), id \notin DOMAIN decisions, Undecided(id)
    PROVE  Inv'
  <1> DEFINE n == stream[id]
             env == actor.env
             s == env.session
  <1>1. IsEnvelope(env) /\ env.seq \in Nat BY DEF Inv, TypeInv, ActorTypes, IsEnvelope
  <1>2. \A x, y : LET e == [env EXCEPT !.session = x, !.ran = y]
                 IN  IsEnvelope(e) /\ e.seq = env.seq
    BY <1>1 DEF IsEnvelope
  <1>3. \A x : LET e == [env EXCEPT !.session = x] IN IsEnvelope(e) /\ e.seq = env.seq
    BY <1>1 DEF IsEnvelope
  <1>4. CASE \E o, fence : Publish(id, n, o, fence, env) BY <1>1, <1>4, PublishInv
  <1>5. CASE \E task \in {"idle", "refresh"} :
               /\ task = "refresh" => actor.live /\ ~handoff
               /\ Incorporated(id, env, task) /\ UNCHANGED <<decisions, told, frontier>>
    <2>1. \A i \in DOMAIN decisions' : decisions'[i].seq \in Nat
      BY <1>5 DEF Inv, TypeInv, StreamTypes
    <2>2. env.seq >= actor.env.seq BY <1>1
    <2> QED BY <1>1, <1>5, <2>1, <2>2, IncorporatedInv
  <1>6. CASE \E o, fence, x : Publish(id, n, o, fence, [env EXCEPT !.session = x])
    BY <1>3, <1>6, PublishInv
  <1>7. CASE \E o, x, y : Publish(id, n, o, 0, [env EXCEPT !.ran = y, !.session = x])
    <2>1. PICK o, x, y : Publish(id, n, o, 0, [env EXCEPT !.ran = y, !.session = x])
      BY <1>7
    <2>2. PICK e : e = [env EXCEPT !.ran = y, !.session = x] OBVIOUS
    <2>3. IsEnvelope(e) /\ e.seq = env.seq BY <1>1, <2>2 DEF IsEnvelope
    <2>4. Publish(id, n, o, 0, e) BY <2>1, <2>2
    <2> QED BY <2>3, <2>4, PublishInv
  <1> QED BY <1>4, <1>5, <1>6, <1>7 DEF Undecided

\* A recorded decision brings the event sequence it used.
LEMMA ReplayInv ==
    ASSUME Inv, NEW id, Dispatching(id), id \in DOMAIN decisions, Replay(id)
    PROVE  Inv'
  <1>1. PICK d : d = decisions[id] OBVIOUS
  <1>2. PICK e : e = Replayed(actor.env, d) OBVIOUS
  <1>3. d.seq \in Nat BY <1>1 DEF Inv, TypeInv, StreamTypes
  <1>4. IsEnvelope(actor.env) /\ actor.env.seq \in Nat
    BY DEF Inv, TypeInv, ActorTypes, IsEnvelope
  <1>5. ~(d.seq <= actor.env.seq) BY <1>1 DEF Replay, ReplayBails
  <1>6. \E x, y : e = [actor.env EXCEPT !.session = x, !.ran = y, !.seq = d.seq]
    BY <1>2 DEF Replayed
  <1>7. IsEnvelope(e) /\ e.seq = d.seq BY <1>3, <1>4, <1>6 DEF IsEnvelope
  <1>8. PICK task \in {"idle", "refresh"} : task = "idle" OBVIOUS
  <1>9. Incorporated(id, e, task) /\ UNCHANGED <<decisions, frontier>>
    BY <1>1, <1>2, <1>8 DEF Replay
  <1>10. \A i \in DOMAIN decisions' : decisions'[i].seq \in Nat
    BY <1>9 DEF Inv, TypeInv, StreamTypes
  <1>11. e.seq >= actor.env.seq /\ decisions[id].seq <= e.seq
    BY <1>1, <1>3, <1>4, <1>5, <1>7
  <1> QED BY <1>7, <1>8, <1>9, <1>10, <1>11, IncorporatedInv

\* dispatch_batch, one delivery at a time.
LEMMA DispatchInv == ASSUME Inv, Dispatch PROVE Inv'
  <1>1. exec \in {"boot", "run"} /\ Undispatched # {} /\ Idle BY DEF Dispatch
  <1>2. PICK id : id = NextId OBVIOUS
  <1>3. CASE ~handoff /\ AckDuplicate(id) BY <1>1, <1>2, <1>3, AckDuplicateInv
  <1>4. CASE ~handoff /\ Create(id) BY <1>1, <1>2, <1>4, CreateInv
  <1>5. CASE /\ Serving /\ actor.up /\ id > actor.env.cursor
             /\ IF HasDecision(id) THEN Replay(id)
                ELSE id \notin DOMAIN decisions /\ Undecided(id)
    <2>1. Dispatching(id)
      BY <1>1, <1>2, <1>5, NextDelivery DEF Dispatching, Idle
    <2>2. CASE HasDecision(id) BY <1>5, <2>1, <2>2, ReplayInv DEF HasDecision
    <2>3. CASE ~HasDecision(id) BY <1>5, <2>1, <2>3, UndecidedInv
    <2> QED BY <2>2, <2>3
  <1> QED BY <1>2, <1>3, <1>4, <1>5 DEF Dispatch

-----------------------------------------------------------------------------
(* The actor.                                                              *)

\* The actor moves on in memory: its envelope keeps its cursor, its sequence may
\* grow, and what becomes visible is within it.
LEMMA ActorMoves ==
    ASSUME Inv, actor.up,
           UNCHANGED <<durable, exec, scan, handoff, late>>, behind' \subseteq {"bootstrap"},
           DOMAIN actor' = {"up", "live", "task", "env", "pending", "mark", "mail"},
           actor'.up = TRUE, actor'.task \in Tasks, actor'.pending = actor.pending,
           actor'.mail = actor.mail, actor'.task # "refresh", exec # "boot",
           actor.task = "idle" => actor'.task = "idle" \/ ~handoff,
           IsEnvelope(actor'.env), actor'.env.cursor = actor.env.cursor,
           actor'.env.seq >= actor.env.seq,
           actor'.mark = actor.mark \/ (actor'.mark = 0 /\ actor.mark <= actor'.env.seq),
           late = NoLate, actor.live => actor'.live,
           actor'.task = "snapshot" => actor.task = "snapshot",
           actor'.task # "idle" => actor'.mark = 0,
           actor'.live => actor'.mark = 0 /\ ckpt # NoCkpt,
           \/ /\ UNCHANGED <<frontier, chain>>
              /\ actor'.live => actor.live
           \/ /\ ckpt # NoCkpt /\ chain' = "none"
              /\ frontier' \in Nat /\ frontier' <= actor'.env.seq
    PROVE  Inv'
  <1>1. /\ actor.env.cursor \in Nat /\ actor.env.seq \in Nat /\ ckpt.cursor \in Int
        /\ actor'.env.seq \in Nat /\ actor.mark \in Nat /\ frontier \in Nat
    BY CheckpointCursor DEF Inv, TypeInv, ActorTypes, HistoryTypes, IsEnvelope
  <1>2. TypeInv'
    <2>1. StreamTypes' BY DEF Inv, TypeInv, StreamTypes, durable
    <2>2. HistoryTypes' BY DEF Inv, TypeInv, HistoryTypes
    <2>3. CheckpointTypes' BY DEF Inv, TypeInv, CheckpointTypes, durable
    <2>4. ActorTypes' BY DEF Inv, TypeInv, ActorTypes, durable
    <2> QED BY <2>1, <2>2, <2>3, <2>4 DEF TypeInv
  <1>3. NothingLost' BY DEF Inv, NothingLost, durable
  <1>4. Cursors' BY <1>1 DEF Inv, Cursors, durable, Serving
  <1>5. LateInv' BY DEF LateInv
  <1>6. Visibility'
    <2>1. actor'.live => frontier' <= actor'.env.seq /\ chain' = "none"
      BY <1>1 DEF Inv, Visibility
    <2>2. ckpt = NoCkpt \/ chain' = "crash" => frontier' = 0 BY DEF Inv, Visibility
    <2> QED BY <2>1, <2>2 DEF Inv, Visibility, durable
  <1>7. BarrierInv'
    <2> SUFFICES ASSUME chain' = "barrier"
                 PROVE  \/ frontier' <= actor'.env.seq \/ frontier' <= actor'.mark
                        \/ actor'.task = "idle" /\ handoff /\ Beyond(actor.env.cursor)'
      BY DEF BarrierInv, Inv, Cursors
    <2>1. UNCHANGED <<frontier, chain>> OBVIOUS
    <2>2. \/ frontier <= actor.env.seq \/ frontier <= actor.mark
          \/ actor.task = "idle" /\ handoff /\ Beyond(actor.env.cursor)
      BY <2>1 DEF Inv, BarrierInv
    <2>3. Beyond(actor.env.cursor) => Beyond(actor.env.cursor)'
      BY <2>1 DEF Beyond, durable
    <2> QED BY <1>1, <2>1, <2>2, <2>3
  <1> QED BY <1>2, <1>3, <1>4, <1>5, <1>6, <1>7 DEF Inv

\* activate merges the watermark before anything becomes visible.
LEMMA StartActivationInv == ASSUME Inv, StartActivation PROVE Inv'
  <1>1. /\ actor.up /\ ~actor.live /\ actor.task = "idle" /\ ~handoff
        /\ UNCHANGED <<durable, exec, scan, handoff, late, frontier, chain, behind>>
    BY DEF StartActivation, history
  <1>2. IsEnvelope(actor.env) /\ actor.env.seq \in Nat /\ actor.mark \in Nat
    BY DEF Inv, TypeInv, ActorTypes, IsEnvelope
  <1>3. PICK m : m = Merged(actor.env.seq, actor.mark) OBVIOUS
  <1>4. m \in Nat /\ m >= actor.env.seq /\ actor.mark <= m
    <2> DEFINE S == {actor.env.seq, actor.mark}
    <2>1. PICK b \in S : \A x \in S : x <= b BY <1>2
    <2>2. S \in SUBSET Nat /\ S # {} /\ b \in Nat BY <1>2
    <2>3. Max(S) \in S /\ \A x \in S : x <= Max(S) BY <2>1, <2>2, Largest
    <2>4. m = Max(S) BY <1>3 DEF Merged
    <2> QED BY <1>2, <2>3, <2>4
  <1>5. PICK e : e = [actor.env EXCEPT !.seq = m] OBVIOUS
  <1>6. IsEnvelope(e) /\ e.seq = m /\ e.cursor = actor.env.cursor
    BY <1>2, <1>4, <1>5 DEF IsEnvelope
  <1>7. actor' = [actor EXCEPT !.env = e, !.mark = 0, !.task = "activate"]
    BY <1>3, <1>5 DEF StartActivation, Inv, TypeInv, ActorTypes
  <1>8. /\ DOMAIN actor' = {"up", "live", "task", "env", "pending", "mark", "mail"}
        /\ actor'.up = actor.up /\ actor'.live = actor.live /\ actor'.task = "activate"
        /\ actor'.env = e /\ actor'.pending = actor.pending /\ actor'.mark = 0
        /\ actor'.mail = actor.mail
    BY <1>7 DEF Inv, TypeInv, ActorTypes
  <1>9. late = NoLate /\ behind' \subseteq {"bootstrap"} /\ exec # "boot"
    BY <1>1 DEF Inv, LateInv, TypeInv, HistoryTypes, StartActivation
  <1>10. actor'.up = TRUE BY <1>1, <1>8
  <1>11. actor'.task \in Tasks BY <1>8 DEF Tasks
  <1> QED BY <1>1, <1>4, <1>6, <1>8, <1>9, <1>10, <1>11, ActorMoves

\* A live actor publishes an event of the game.
LEMMA TickEventInv == ASSUME Inv, TickEvent PROVE Inv'
  <1>1. /\ actor.up /\ actor.live /\ actor.task = "idle" /\ ~handoff
        /\ UNCHANGED <<durable, exec, scan, handoff, late, chain, behind>>
    BY DEF TickEvent
  <1>2. IsEnvelope(actor.env) /\ actor.env.seq \in Nat /\ frontier \in Nat
    BY DEF Inv, TypeInv, ActorTypes, HistoryTypes, IsEnvelope
  <1>3. PICK e : e = [actor.env EXCEPT !.seq = @ + 1] OBVIOUS
  <1>4. IsEnvelope(e) /\ e.seq = actor.env.seq + 1 /\ e.cursor = actor.env.cursor
    BY <1>2, <1>3 DEF IsEnvelope
  <1>5. actor' = [actor EXCEPT !.env = e]
    BY <1>3 DEF TickEvent, Inv, TypeInv, ActorTypes
  <1>6. /\ DOMAIN actor' = {"up", "live", "task", "env", "pending", "mark", "mail"}
        /\ actor'.up = actor.up /\ actor'.live = actor.live /\ actor'.task = actor.task
        /\ actor'.env = e /\ actor'.pending = actor.pending /\ actor'.mark = actor.mark
        /\ actor'.mail = actor.mail
    BY <1>5 DEF Inv, TypeInv, ActorTypes
  <1>7. late = NoLate /\ behind' \subseteq {"bootstrap"} /\ exec # "boot"
    BY <1>1 DEF Inv, LateInv, TypeInv, HistoryTypes, Cursors
  <1>8. /\ chain = "none" /\ frontier <= actor.env.seq /\ ckpt # NoCkpt /\ actor.mark = 0
    BY <1>1 DEF Inv, Visibility
  <1>9. frontier' = actor.env.seq + 1
    <2>1. Max({frontier, actor.env.seq + 1}) = actor.env.seq + 1 BY <1>2, <1>8, LargerOf
    <2> QED BY <2>1 DEF TickEvent, Visible
  <1>10. actor'.up = TRUE BY <1>1, <1>6
  <1>11. actor'.task \in Tasks BY <1>1, <1>6 DEF Tasks
  <1>12. frontier' \in Nat /\ frontier' <= e.seq /\ e.seq >= actor.env.seq
    BY <1>2, <1>4, <1>9
  <1>13. UNCHANGED <<durable, exec, scan, handoff, late>> /\ chain' = "none"
    BY <1>1, <1>8
  <1>14. /\ actor'.task = "idle" /\ actor'.mark = 0 /\ IsEnvelope(actor'.env)
         /\ actor'.env.cursor = actor.env.cursor /\ actor'.env.seq >= actor.env.seq
         /\ frontier' \in Nat /\ frontier' <= actor'.env.seq
    BY <1>1, <1>4, <1>6, <1>8, <1>12
  <1> QED BY <1>1, <1>6, <1>7, <1>8, <1>10, <1>11, <1>13, <1>14, ActorMoves

\* The interval begins a checkpoint.
LEMMA StartCheckpointInv == ASSUME Inv, StartCheckpoint PROVE Inv'
  <1>1. /\ actor.up /\ actor.live /\ ~handoff
        /\ UNCHANGED <<durable, exec, scan, handoff, late, frontier, chain, behind>>
        /\ actor' = [actor EXCEPT !.task = "periodic"]
    BY DEF StartCheckpoint, history
  <1>2. /\ DOMAIN actor' = {"up", "live", "task", "env", "pending", "mark", "mail"}
        /\ actor'.up = actor.up /\ actor'.live = actor.live /\ actor'.task = "periodic"
        /\ actor'.env = actor.env /\ actor'.pending = actor.pending
        /\ actor'.mark = actor.mark
        /\ actor'.mail = actor.mail
    BY <1>1 DEF Inv, TypeInv, ActorTypes
  <1>3. late = NoLate /\ behind' \subseteq {"bootstrap"} /\ exec # "boot"
    BY <1>1 DEF Inv, LateInv, TypeInv, HistoryTypes, Cursors
  <1>4. IsEnvelope(actor.env) /\ actor.env.seq \in Nat
    BY DEF Inv, TypeInv, ActorTypes, IsEnvelope
  <1>5. actor'.up = TRUE /\ actor.env.seq >= actor.env.seq BY <1>1, <1>2, <1>4
  <1>6. actor.mark = 0 /\ ckpt # NoCkpt BY <1>1 DEF Inv, Visibility
  <1>7. actor'.task \in Tasks BY <1>2 DEF Tasks
  <1> QED BY <1>1, <1>2, <1>3, <1>4, <1>5, <1>6, <1>7, ActorMoves

\* What a script that saves env and acknowledges covered leaves in Redis.
LEMMA Saved ==
    ASSUME Inv, NEW env, NEW covered, IsEnvelope(env), env.cursor <= delivered,
           ckpt.cursor <= env.cursor, covered \subseteq 1 .. env.cursor,
           SaveCheckpoint(env, covered), UNCHANGED <<exec, scan>>
    PROVE  /\ ckpt' = env /\ ckpt' # NoCkpt /\ marker' = 0 /\ NothingLost' /\ StreamTypes'
           /\ UNCHANGED <<stream, delivered, trimmed>>
  <1>1. /\ ckpt' = env /\ marker' = 0 /\ AckAndForget(covered)
        /\ UNCHANGED <<stream, delivered, trimmed>>
    BY DEF SaveCheckpoint
  <1>2. /\ pel' = pel \ covered /\ DOMAIN decisions' \subseteq pel'
        /\ \A i \in DOMAIN decisions' : decisions'[i].seq \in Nat
    BY <1>1, Acknowledged
  <1>3. NothingLost'
    <2> SUFFICES ASSUME NEW i \in 1 .. Len(stream), i > env.cursor
                 PROVE  i >= trimmed /\ (i \in pel' \/ i > delivered)
      BY <1>1 DEF NothingLost
    <2>1. i > ckpt.cursor /\ i \notin covered
      BY CheckpointCursor DEF IsEnvelope
    <2> QED BY <1>2, <2>1 DEF Inv, NothingLost
  <1>4. StreamTypes' BY <1>1, <1>2 DEF Inv, TypeInv, StreamTypes
  <1> QED BY <1>1, <1>3, <1>4, NothingYet

\* checkpoint_and_ack_fenced acknowledges what the envelope it saves has taken in.
LEMMA CheckpointInv == ASSUME Inv, Checkpoint PROVE Inv'
  <1>1. /\ actor.up /\ actor.task \in {"activate", "refresh", "periodic"}
        /\ SaveCheckpoint(actor.env, actor.pending)
        /\ UNCHANGED <<exec, scan, handoff, late, frontier, chain, behind>>
    BY DEF Checkpoint, history
  <1>2. PICK next \in {"idle", "snapshot"} :
            actor' = [actor EXCEPT !.pending = {}, !.task = next]
    BY DEF Checkpoint
  <1>3. /\ DOMAIN actor' = {"up", "live", "task", "env", "pending", "mark", "mail"}
        /\ actor'.up = actor.up /\ actor'.live = actor.live /\ actor'.task = next
        /\ actor'.env = actor.env /\ actor'.pending = {} /\ actor'.mark = actor.mark
        /\ actor'.mail = actor.mail
    BY <1>2 DEF Inv, TypeInv, ActorTypes
  <1>4. late = NoLate BY <1>1 DEF Inv, LateInv
  <1>5. /\ IsEnvelope(actor.env) /\ actor.env.cursor <= delivered
        /\ actor.pending \subseteq 1 .. actor.env.cursor /\ ckpt.cursor <= actor.env.cursor
    BY <1>1 DEF Inv, TypeInv, ActorTypes, Cursors
  <1>6. /\ ckpt' = actor.env /\ ckpt' # NoCkpt /\ marker' = 0 /\ NothingLost' /\ StreamTypes'
        /\ UNCHANGED <<stream, delivered, trimmed>>
    BY <1>1, <1>5, Saved
  <1>7. actor.mark = 0 BY <1>1 DEF Inv, Visibility
  <1>8. TypeInv'
    <2>1. HistoryTypes' BY <1>1 DEF Inv, TypeInv, HistoryTypes
    <2>2. ActorTypes' BY <1>3, <1>5, <1>6 DEF Inv, TypeInv, ActorTypes, Tasks
    <2>3. CheckpointTypes' BY <1>1, <1>4, <1>5, <1>6 DEF CheckpointTypes
    <2> QED BY <1>6, <2>1, <2>2, <2>3 DEF TypeInv
  <1>9. Cursors'
    <2>1. actor.env.cursor \in Nat BY CheckpointCursor
    <2>2. exec # "boot" /\ next # "refresh" BY <1>1 DEF Inv, Cursors
    <2> QED BY <1>1, <1>3, <1>6, <2>1, <2>2 DEF Inv, Cursors, Serving
  <1>10. LateInv' BY <1>1, <1>4 DEF LateInv, Beyond
  <1>11. Visibility' BY <1>1, <1>3, <1>6, <1>7 DEF Inv, Visibility
  <1>12. BarrierInv' BY <1>1, <1>3, <1>4 DEF Inv, BarrierInv, Cursors, Beyond
  <1> QED BY <1>6, <1>8, <1>9, <1>10, <1>11, <1>12 DEF Inv

\* A dropped script still saves what its actor was when it was stopped.
LEMMA LateCheckpointInv == ASSUME Inv, LateCheckpoint PROVE Inv'
  <1>1. /\ late # NoLate /\ SaveCheckpoint(late.env, late.covered) /\ late' = NoLate
        /\ UNCHANGED <<exec, scan, handoff, actor, frontier, chain, behind>>
    BY DEF LateCheckpoint, history
  <1>2. /\ IsEnvelope(late.env) /\ late.env.cursor <= delivered
        /\ late.covered \subseteq 1 .. late.env.cursor /\ ckpt.cursor <= late.env.cursor
    BY <1>1 DEF Inv, TypeInv, CheckpointTypes, LateInv
  <1>3. /\ ckpt' = late.env /\ ckpt' # NoCkpt /\ marker' = 0 /\ NothingLost' /\ StreamTypes'
        /\ UNCHANGED <<stream, delivered, trimmed>>
    BY <1>1, <1>2, Saved
  <1>4. /\ actor.up => late.env.cursor <= actor.env.cursor
        /\ ~actor.up => exec \in {"off", "barred"}
        /\ late.env.cursor \in Nat /\ actor.env.cursor \in Nat /\ ckpt.cursor \in Int
    BY <1>1, <1>2, CheckpointCursor DEF Inv, LateInv, IsEnvelope
  <1>5. TypeInv'
    <2>1. HistoryTypes' /\ ActorTypes'
      BY <1>1, <1>3 DEF Inv, TypeInv, HistoryTypes, ActorTypes
    <2>2. CheckpointTypes' BY <1>1, <1>2, <1>3 DEF CheckpointTypes
    <2> QED BY <1>3, <2>1, <2>2 DEF TypeInv
  <1>6. Cursors'
    <2>1. actor.env.cursor > scan => actor.env.cursor <= ckpt.cursor \/ ~actor.up
      BY DEF Inv, Cursors
    <2> QED BY <1>1, <1>2, <1>3, <1>4, <2>1 DEF Inv, Cursors, Serving
  <1>7. LateInv' BY <1>1 DEF LateInv
  <1>8. Visibility' BY <1>1, <1>3 DEF Inv, Visibility
  <1>9. BarrierInv'
    <2>1. actor.up => exec \notin {"off", "barred"} BY DEF Inv, Cursors
    <2>2. AckAndForget(late.covered) BY <1>1 DEF SaveCheckpoint
    <2>0. PICK c \in Nat : c = late.env.cursor BY <1>4
    <2>3. (Beyond(c) => Beyond(c)') /\ ckpt'.cursor = c
      BY <1>1, <1>2, <1>3, <2>0, <2>2, StaysBeyond
    <2>4. actor.up /\ Beyond(actor.env.cursor) => Beyond(actor.env.cursor)'
      <3>1. actor.up => late.covered \subseteq 1 .. actor.env.cursor BY <1>2, <1>4
      <3> QED BY <1>1, <1>4, <2>2, <3>1, StaysBeyond
    <2>5. CASE actor.up BY <1>1, <2>1, <2>4, <2>5 DEF Inv, BarrierInv
    <2>6. CASE ~actor.up BY <1>1, <1>3, <2>0, <2>3, <2>6 DEF Inv, BarrierInv, Beyond
    <2> QED BY <2>5, <2>6
  <1> QED BY <1>3, <1>5, <1>6, <1>7, <1>8, <1>9 DEF Inv

\* The first snapshot after a handoff through the barrier is beyond the frontier.
LEMMA SnapshotSeen ==
    ASSUME Inv, actor.up, actor.task = "snapshot", SnapshotVisible(actor.env.seq + 1)
    PROVE  /\ behind' \subseteq {"bootstrap"} /\ chain' = "none"
           /\ frontier' \in Nat /\ frontier' <= actor.env.seq + 1
  <1>1. /\ actor.env.seq \in Nat /\ frontier \in Nat /\ actor.mark = 0
        /\ behind \subseteq {"bootstrap"}
    BY DEF Inv, TypeInv, ActorTypes, HistoryTypes, IsEnvelope, Visibility
  <1>2. CASE actor.live
    <2>1. frontier <= actor.env.seq /\ chain = "none" BY <1>2 DEF Inv, Visibility
    <2>2. Max({frontier, actor.env.seq + 1}) = actor.env.seq + 1 BY <1>1, <2>1, LargerOf
    <2>3. frontier' = actor.env.seq + 1 /\ chain' = "none" /\ behind' = behind
      BY <1>2, <2>1, <2>2 DEF SnapshotVisible, Visible
    <2> QED BY <1>1, <2>3
  <1>3. CASE ~actor.live
    <2>1. /\ frontier' = actor.env.seq + 1 /\ chain' = "none"
          /\ behind' =
                behind \cup {c \in {chain} : c # "none" /\ actor.env.seq + 1 <= frontier}
      BY <1>3 DEF SnapshotVisible
    <2>2. chain = "barrier" => frontier <= actor.env.seq
      BY <1>1 DEF Inv, BarrierInv
    <2>3. chain = "crash" => frontier = 0 BY DEF Inv, Visibility
    <2>4. chain \in {"none", "barrier", "bootstrap", "crash"}
      BY DEF Inv, TypeInv, HistoryTypes
    <2>5. actor.env.seq + 1 <= frontier => chain \notin {"barrier", "crash"}
      BY <1>1, <2>2, <2>3
    <2>6. {c \in {chain} : c # "none" /\ actor.env.seq + 1 <= frontier} \subseteq {"bootstrap"}
      BY <2>4, <2>5
    <2>7. behind' \subseteq {"bootstrap"} BY <1>1, <2>1, <2>6
    <2> QED BY <1>1, <2>1, <2>7
  <1> QED BY <1>2, <1>3

\* The snapshot re-anchors the replicas and the actor is live.
LEMMA PublishSnapshotInv == ASSUME Inv, PublishSnapshot PROVE Inv'
  <1>1. /\ actor.up /\ actor.task = "snapshot" /\ SnapshotVisible(actor.env.seq + 1)
        /\ UNCHANGED <<durable, exec, scan, handoff, late>>
    BY DEF PublishSnapshot
  <1>2. /\ behind' \subseteq {"bootstrap"} /\ chain' = "none"
        /\ frontier' \in Nat /\ frontier' <= actor.env.seq + 1
    BY <1>1, SnapshotSeen
  <1>3. IsEnvelope(actor.env) /\ actor.env.seq \in Nat
    BY DEF Inv, TypeInv, ActorTypes, IsEnvelope
  <1>4. PICK e : e = [actor.env EXCEPT !.seq = @ + 1] OBVIOUS
  <1>5. IsEnvelope(e) /\ e.seq = actor.env.seq + 1 /\ e.cursor = actor.env.cursor
    BY <1>3, <1>4 DEF IsEnvelope
  <1>6. actor' = [actor EXCEPT !.env = e, !.task = "idle", !.live = TRUE]
    BY <1>4 DEF PublishSnapshot, Inv, TypeInv, ActorTypes
  <1>7. /\ DOMAIN actor' = {"up", "live", "task", "env", "pending", "mark", "mail"}
        /\ actor'.up = actor.up /\ actor'.live = TRUE /\ actor'.task = "idle"
        /\ actor'.env = e /\ actor'.pending = actor.pending /\ actor'.mark = actor.mark
        /\ actor'.mail = actor.mail
    BY <1>6 DEF Inv, TypeInv, ActorTypes
  <1>8. late = NoLate /\ exec # "boot" BY <1>1 DEF Inv, LateInv, Cursors
  <1>9. ckpt # NoCkpt /\ actor.mark = 0 BY <1>1 DEF Inv, Visibility
  <1>10. actor'.up = TRUE BY <1>1, <1>7
  <1>11. actor'.task \in Tasks BY <1>7 DEF Tasks
  <1>12. /\ actor'.task = "idle" /\ actor'.mark = 0 /\ IsEnvelope(actor'.env)
         /\ actor'.env.cursor = actor.env.cursor /\ actor'.env.seq >= actor.env.seq
         /\ frontier' <= actor'.env.seq
    BY <1>2, <1>3, <1>5, <1>7, <1>9
  <1> QED BY <1>1, <1>2, <1>7, <1>8, <1>9, <1>10, <1>11, <1>12, ActorMoves

\* A dropped snapshot has used its sequence, seen or not.
LEMMA DropSnapshotInv == ASSUME Inv, DropSnapshot PROVE Inv'
  <1>1. /\ actor.up /\ actor.task = "snapshot"
        /\ UNCHANGED <<durable, exec, scan, handoff, late>>
        /\ \/ SnapshotVisible(actor.env.seq + 1)
           \/ UNCHANGED <<frontier, chain, behind>>
    BY DEF DropSnapshot
  <1>2. \/ /\ behind' \subseteq {"bootstrap"} /\ chain' = "none"
           /\ frontier' \in Nat /\ frontier' <= actor.env.seq + 1
        \/ UNCHANGED <<frontier, chain, behind>>
    BY <1>1, SnapshotSeen
  <1>3. /\ IsEnvelope(actor.env) /\ actor.env.seq \in Nat /\ behind \subseteq {"bootstrap"}
    BY DEF Inv, TypeInv, ActorTypes, HistoryTypes, IsEnvelope
  <1>4. PICK e : e = [actor.env EXCEPT !.seq = @ + 1] OBVIOUS
  <1>5. IsEnvelope(e) /\ e.seq = actor.env.seq + 1 /\ e.cursor = actor.env.cursor
    BY <1>3, <1>4 DEF IsEnvelope
  <1>6. actor' = [actor EXCEPT !.env = e, !.task = "idle"]
    BY <1>4 DEF DropSnapshot, Inv, TypeInv, ActorTypes
  <1>7. /\ DOMAIN actor' = {"up", "live", "task", "env", "pending", "mark", "mail"}
        /\ actor'.up = actor.up /\ actor'.live = actor.live /\ actor'.task = "idle"
        /\ actor'.env = e /\ actor'.pending = actor.pending /\ actor'.mark = actor.mark
        /\ actor'.mail = actor.mail
    BY <1>6 DEF Inv, TypeInv, ActorTypes
  <1>8. late = NoLate /\ exec # "boot" BY <1>1 DEF Inv, LateInv, Cursors
  <1>9. ckpt # NoCkpt /\ actor.mark = 0 BY <1>1 DEF Inv, Visibility
  <1>10. actor'.up = TRUE BY <1>1, <1>7
  <1>11. actor'.task \in Tasks BY <1>7 DEF Tasks
  <1>12. /\ actor'.task = "idle" /\ actor'.mark = 0 /\ IsEnvelope(actor'.env)
         /\ actor'.env.cursor = actor.env.cursor /\ actor'.env.seq >= actor.env.seq
         /\ actor'.env.seq = actor.env.seq + 1
    BY <1>3, <1>5, <1>7, <1>9
  <1>13. behind' \subseteq {"bootstrap"} BY <1>2, <1>3
  <1> QED BY <1>1, <1>2, <1>7, <1>8, <1>9, <1>10, <1>11, <1>12, <1>13, ActorMoves

\* The handoff drops a checkpoint future, whose script may be on its way.
LEMMA DropCheckpointInv == ASSUME Inv, DropCheckpoint PROVE Inv'
  <1>1. /\ handoff /\ actor.up /\ actor.task \in {"activate", "refresh", "periodic"}
        /\ actor' = [actor EXCEPT !.task = "idle"]
        /\ UNCHANGED <<stream, delivered, pel, trimmed, decisions, ckpt, marker>>
        /\ UNCHANGED <<exec, scan, handoff, frontier, chain, behind>>
    BY DEF DropCheckpoint, durable, history
  <1>2. /\ DOMAIN actor' = {"up", "live", "task", "env", "pending", "mark", "mail"}
        /\ actor'.up = actor.up /\ actor'.live = actor.live /\ actor'.task = "idle"
        /\ actor'.env = actor.env /\ actor'.pending = actor.pending
        /\ actor'.mark = actor.mark
        /\ actor'.mail = actor.mail
    BY <1>1 DEF Inv, TypeInv, ActorTypes
  <1>3. late' # NoLate => /\ DOMAIN late' = {"env", "covered"} /\ late'.env = actor.env
                          /\ late'.covered = actor.pending
    BY DEF DropCheckpoint
  <1>4. TypeInv'
    <2>1. StreamTypes' /\ HistoryTypes' BY <1>1 DEF Inv, TypeInv, StreamTypes, HistoryTypes
    <2>2. ActorTypes' BY <1>1, <1>2 DEF Inv, TypeInv, ActorTypes, Tasks
    <2>3. CheckpointTypes'
      BY <1>1, <1>3 DEF Inv, TypeInv, ActorTypes, CheckpointTypes
    <2> QED BY <2>1, <2>2, <2>3 DEF TypeInv
  <1>5. NothingLost' BY <1>1 DEF Inv, NothingLost
  <1>6. Cursors' BY <1>1, <1>2 DEF Inv, Cursors, Serving
  <1>7. LateInv'
    <2>1. ckpt.cursor <= actor.env.cursor /\ exec # "boot" BY <1>1 DEF Inv, Cursors
    <2>2. actor.env.cursor \in Nat /\ (actor.live => frontier <= actor.env.seq)
      BY CheckpointCursor DEF Inv, Visibility
    <2> QED BY <1>1, <1>2, <1>3, <2>1, <2>2 DEF LateInv
  <1>8. Visibility' BY <1>1, <1>2 DEF Inv, Visibility
  <1>9. BarrierInv' BY <1>1, <1>2 DEF Inv, BarrierInv, Cursors, Beyond
  <1> QED BY <1>4, <1>5, <1>6, <1>7, <1>8, <1>9 DEF Inv

-----------------------------------------------------------------------------
(* What Inv proves.                                                        *)

\* Before the first term there is a stream with one entry and nothing else.
LEMMA InitInv == Init => Inv
  <1> SUFFICES ASSUME Init PROVE Inv OBVIOUS
  <1>1. stream \in Seq(ClientSequences \cup {Created}) /\ Len(stream) = 1 BY DEF Init
  <1>2. StreamTypes BY <1>1 DEF Init, StreamTypes
  <1>3. HistoryTypes BY DEF Init, HistoryTypes
  <1>4. ActorTypes BY DeadActor, EmptyEnvelope DEF Init, ActorTypes, Tasks
  <1>5. CheckpointTypes BY DEF Init, CheckpointTypes
  <1>6. NothingLost BY <1>1 DEF Init, NothingLost
  <1>7. Cursors /\ LateInv BY DeadActor DEF Init, Cursors, LateInv
  <1>8. Visibility /\ BarrierInv BY DeadActor DEF Init, Visibility, BarrierInv
  <1> QED BY <1>2, <1>3, <1>4, <1>5, <1>6, <1>7, <1>8 DEF Inv, TypeInv

\* Every step keeps the invariant.
LEMMA StepInv == Inv /\ [Next]_vars => Inv'
  <1> SUFFICES ASSUME Inv, [Next]_vars PROVE Inv' OBVIOUS
  <1>1. CASE UNCHANGED vars BY <1>1, ControlInv DEF vars, history
  <1>2. CASE \E n \in ClientSequences : Submit(n) BY <1>2, SubmitInv
  <1>3. CASE ReadNew BY <1>3, ReadNewInv
  <1>4. CASE Takeover BY <1>4, TakeoverInv
  <1>5. CASE Dispatch BY <1>5, DispatchInv
  <1>6. CASE ReplayDone BY <1>6, ReplayDoneInv
  <1>7. CASE StartActivation BY <1>7, StartActivationInv
  <1>8. CASE BootstrapDone BY <1>8, ControlInv DEF BootstrapDone, history
  <1>9. CASE StartCheckpoint BY <1>9, StartCheckpointInv
  <1>10. CASE Checkpoint BY <1>10, CheckpointInv
  <1>11. CASE PublishSnapshot BY <1>11, PublishSnapshotInv
  <1>12. CASE DropCheckpoint BY <1>12, DropCheckpointInv
  <1>13. CASE DropSnapshot BY <1>13, DropSnapshotInv
  <1>14. CASE Barrier BY <1>14, BarrierStepInv
  <1>15. CASE Release BY <1>15, ReleaseInv
  <1>16. CASE TickEvent BY <1>16, TickEventInv
  <1>17. CASE Trim BY <1>17, TrimInv
  <1>18. CASE LateCheckpoint BY <1>18, LateCheckpointInv
  <1>19. CASE StartHandoff BY <1>19, StartHandoffInv
  <1>20. CASE ReleaseBootstrap BY <1>20, StopsInv DEF ReleaseBootstrap
  <1>21. CASE Crash BY <1>21, StopsInv DEF Crash
  <1> QED
    BY <1>1, <1>2, <1>3, <1>4, <1>5, <1>6, <1>7, <1>8, <1>9, <1>10, <1>11, <1>12, <1>13,
       <1>14, <1>15, <1>16, <1>17, <1>18, <1>19, <1>20, <1>21 DEF Next, ExecutorStep

\* The invariant, along every behaviour.
THEOREM RecoveryInvariant == Spec => []Inv
  BY InitInv, StepInv, PTL DEF Spec

\* The types of the stream, its group, the journal and the actor.
THEOREM RecoveryTyped == Spec => []TypeOK
  <1>1. Inv => TypeOK
    <2> SUFFICES ASSUME Inv PROVE TypeOK OBVIOUS
    <2>1. actor.pending \subseteq 1 .. delivered
      BY Positions DEF Inv, TypeInv, ActorTypes, IsEnvelope
    <2> QED BY <2>1 DEF TypeOK, Inv, TypeInv, StreamTypes, ActorTypes, HistoryTypes, Tasks
  <1> QED BY <1>1, RecoveryInvariant, PTL

\* No command is lost: whatever crashes, handoffs, late checkpoints, duplicates
\* and trims happen, an entry that no checkpoint covers is still in the stream,
\* and pending or not yet delivered (checkpoint_and_ack_fenced, the duplicate
\* acknowledgement of dispatch_batch and trim_executor_commands_fenced).
THEOREM NoCommandLost == Spec => []NothingLost
  <1>1. Inv => NothingLost BY DEF Inv
  <1> QED BY <1>1, RecoveryInvariant, PTL

\* After a handoff through the barrier of an activated actor, the recovery
\* snapshot of its successor is beyond every event that was visible before: the
\* watermark, or the late checkpoint that clears it, is at least as high.
THEOREM BarrierIsBeyond == Spec => []BarrierHandoffBeyond
  <1>1. Inv => BarrierHandoffBeyond
    BY DEF Inv, TypeInv, HistoryTypes, BarrierHandoffBeyond
  <1> QED BY <1>1, RecoveryInvariant, PTL

-----------------------------------------------------------------------------
(* Sessions.                                                               *)

\* A sequence the session has not decided: the fence may still answer it.
Above(s, n) == n > s.through /\ ~Recorded(s, n)

\* The watermark stops at a gap, and the record is within its bound.
SoundSession(s) ==
    /\ s = [through |-> s.through, outs |-> s.outs, fence |-> s.fence]
    /\ s.through \in 0 .. MaxSequence /\ s.fence \in 0 .. MaxSequence
    /\ DOMAIN s.outs \subseteq ClientSequences /\ s.through + 1 \notin DOMAIN s.outs
    /\ Cardinality(DOMAIN s.outs) <= MaxResults

\* The watermark moves up through recorded sequences only, and as far as it can.
LEMMA AdvanceRuns ==
    ASSUME NEW b \in Nat, NEW through \in 0 .. b, NEW dom \in SUBSET (0 .. b),
           NEW a, a = Advance(through, dom)
    PROVE  a \in through .. b /\ ((through + 1) .. a) \subseteq dom /\ a + 1 \notin dom
  <1> DEFINE S == {through} \cup {n \in dom : ((through + 1) .. n) \subseteq dom}
  <1>0. through \in Nat /\ through <= b /\ \A x \in dom : x \in Nat /\ x <= b OBVIOUS
  <1>1. S \in SUBSET Nat /\ through \in S /\ \A x \in S : x <= b BY <1>0
  <1>2. a \in S /\ \A y \in S : y <= a BY <1>1, Largest DEF Advance
  <1>3. a \in through .. b /\ ((through + 1) .. a) \subseteq dom BY <1>1, <1>2
  <1>4. a + 1 \notin dom
    <2> SUFFICES ASSUME a + 1 \in dom PROVE FALSE OBVIOUS
    <2>1. ((through + 1) .. (a + 1)) \subseteq dom BY <1>3
    <2>2. a + 1 \in S BY <2>1
    <2> QED BY <1>2, <1>3, <2>2
  <1> QED BY <1>3, <1>4

\* The retention pass keeps at most MaxResults sequences.
LEMMA RetainedBounded ==
    ASSUME NEW dom \in SUBSET Nat, IsFiniteSet(dom)
    PROVE  Cardinality(Retained(dom)) <= MaxResults
  <1> DEFINE kept == Retained(dom)
  <1>1. kept \subseteq dom /\ IsFiniteSet(kept) BY FS_Subset DEF Retained
  <1>2. CASE kept = {} BY <1>2, FS_EmptySet, MaxResultsAssumption
  <1>3. CASE kept # {}
    <2>1. PICK x \in kept : \A y \in kept : x <= y BY <1>1, <1>3, Smallest
    <2> DEFINE over == {m \in dom : m > x}
    <2>2. Cardinality(over) < MaxResults BY <2>1 DEF Retained
    <2>3. x \in Nat /\ \A y \in dom : y \in Nat BY <1>1
    <2>4. over \in SUBSET dom OBVIOUS
    <2>5. IsFiniteSet(over) /\ x \notin over BY <2>3, <2>4, FS_Subset
    <2>6. kept \subseteq over \cup {x}
      <3> SUFFICES ASSUME NEW y \in kept, y # x PROVE y > x BY <1>1
      <3> QED BY <1>1, <2>1, <2>3
    <2>7. IsFiniteSet(over \cup {x}) /\ Cardinality(over \cup {x}) = Cardinality(over) + 1
      BY <2>5, FS_AddElement
    <2>8. Cardinality(kept) <= Cardinality(over) + 1 BY <2>6, <2>7, FS_Subset
    <2>9. Cardinality(kept) \in Nat /\ Cardinality(over) \in Nat
      BY <1>1, <2>5, FS_CardinalityType
    <2> QED BY <2>2, <2>8, <2>9, MaxResultsAssumption
  <1> QED BY <1>2, <1>3

\* What record forgets is below the new watermark.
LEMMA ForgetsBelow ==
    ASSUME NEW s, SoundSession(s), NEW n \in ClientSequences, Above(s, n),
           ~SparseWindowIsFull(s, n), ~Covers(s, n),
           NEW dom, dom = DOMAIN s.outs \cup {n}, NEW a, a = Advance(s.through, dom),
           NEW m \in dom \ Retained(dom)
    PROVE  m <= a
  <1> DEFINE sparse == Sparse(s)
             over == {j \in dom : j > m}
  <1> USE SequenceAssumption
  <1>1. /\ s.through \in 0 .. MaxSequence /\ DOMAIN s.outs \subseteq 1 .. MaxSequence
        /\ dom \subseteq 1 .. MaxSequence
    BY DEF SoundSession, ClientSequences
  <1>2. a \in s.through .. MaxSequence /\ ((s.through + 1) .. a) \subseteq dom
    BY <1>1, AdvanceRuns
  <1>3. IsFiniteSet(dom) /\ IsFiniteSet(sparse) /\ IsFiniteSet(over)
    <2>1. IsFiniteSet(1 .. MaxSequence) BY FS_Interval
    <2>2. sparse \subseteq 1 .. MaxSequence BY <1>1 DEF Sparse
    <2> QED BY <1>1, <2>1, <2>2, FS_Subset
  <1>4. Cardinality(over) >= MaxResults
    BY <1>3, FS_CardinalityType, MaxResultsAssumption DEF Retained
  <1>5. Cardinality(sparse) <= MaxResults
    <2>1. IsFiniteSet(DOMAIN s.outs) BY <1>3, FS_Subset
    <2>2. Cardinality(sparse) <= Cardinality(DOMAIN s.outs) BY <2>1, FS_Subset DEF Sparse
    <2> QED BY <1>3, <2>1, <2>2, FS_CardinalityType, MaxResultsAssumption DEF SoundSession
  <1>6. Cardinality(over \cup {m}) = Cardinality(over) + 1 /\ IsFiniteSet(over \cup {m})
    <2>1. m \notin over BY <1>1
    <2> QED BY <1>3, <2>1, FS_AddElement
  <1> SUFFICES ASSUME m > a PROVE FALSE BY <1>1, <1>2
  <1>7. CASE n = s.through + 1
    <2>1. n <= a
      <3>1. ((s.through + 1) .. n) \subseteq dom BY <1>1, <1>7
      <3>2. a + 1 \notin dom BY <1>1, AdvanceRuns
      <3> QED BY <1>1, <1>2, <1>7, <3>2
    <2>2. over \cup {m} \subseteq sparse BY <1>1, <1>2, <2>1 DEF Sparse
    <2>3. Cardinality(over \cup {m}) <= Cardinality(sparse) BY <1>3, <2>2, FS_Subset
    <2> QED BY <1>3, <1>4, <1>5, <1>6, <2>3, FS_CardinalityType, MaxResultsAssumption
  <1>8. CASE n # s.through + 1
    <2>1. Cardinality(sparse) < MaxResults
      BY <1>3, <1>8, FS_CardinalityType, MaxResultsAssumption
      DEF SparseWindowIsFull, Above, Recorded, RejectionFenceFor
    <2>2. over \cup {m} \subseteq sparse \cup {n} BY <1>1, <1>2 DEF Sparse
    <2>3. /\ IsFiniteSet(sparse \cup {n})
          /\ Cardinality(sparse \cup {n}) = Cardinality(sparse) + 1
      BY <1>3, FS_AddElement DEF Sparse, Above, Recorded
    <2>4. Cardinality(over \cup {m}) <= Cardinality(sparse) + 1 BY <2>2, <2>3, FS_Subset
    <2> QED BY <1>3, <1>4, <1>6, <2>1, <2>4, FS_CardinalityType, MaxResultsAssumption
  <1> QED BY <1>7, <1>8

\* A session after record: one more sequence is decided, the others as before.
LEMMA RecordSound ==
    ASSUME NEW s, SoundSession(s), NEW n \in ClientSequences, Above(s, n),
           ~SparseWindowIsFull(s, n), ~Covers(s, n), NEW o, NEW r, r = Record(s, n, o)
    PROVE  /\ SoundSession(r) /\ r.fence = s.fence
           /\ \A m \in DOMAIN r.outs : \/ m = n /\ r.outs[m] = o
                                       \/ m \in DOMAIN s.outs /\ r.outs[m] = s.outs[m] /\ m # n
           /\ \A m \in ClientSequences : Above(r, m) <=> Above(s, m) /\ m # n
  <1> DEFINE dom == DOMAIN s.outs \cup {n}
             a == Advance(s.through, dom)
  <1> USE SequenceAssumption
  <1>2. /\ s.through \in 0 .. MaxSequence /\ DOMAIN s.outs \subseteq 1 .. MaxSequence
        /\ dom \subseteq 1 .. MaxSequence /\ n \in 1 .. MaxSequence
    BY DEF SoundSession, ClientSequences
  <1>3. /\ a \in s.through .. MaxSequence /\ ((s.through + 1) .. a) \subseteq dom
        /\ a + 1 \notin dom
    BY <1>2, AdvanceRuns
  <1>4. \A m \in dom \ Retained(dom) : m <= a BY ForgetsBelow
  <1>5. Retained(dom) \subseteq dom /\ Cardinality(Retained(dom)) <= MaxResults
    <2>1. IsFiniteSet(1 .. MaxSequence) BY FS_Interval
    <2>2. IsFiniteSet(dom) BY <1>2, <2>1, FS_Subset
    <2> QED BY <1>2, <2>2, RetainedBounded DEF Retained
  <1> HIDE DEF dom, a
  <1>6. PICK f : f = [m \in Retained(dom) |-> IF m = n THEN o ELSE s.outs[m]] OBVIOUS
  <1>7. DOMAIN f = Retained(dom) /\ \A m \in Retained(dom) :
            f[m] = IF m = n THEN o ELSE s.outs[m]
    BY <1>6
  <1>8. r = [s EXCEPT !.through = a, !.outs = f]
    BY <1>6 DEF Record, Above, dom, a
  <1>9. /\ r = [through |-> a, outs |-> f, fence |-> s.fence]
        /\ r.through = a /\ r.outs = f /\ r.fence = s.fence
    BY <1>8 DEF SoundSession
  <1>10. SoundSession(r)
    <2>1. DOMAIN f \subseteq ClientSequences BY <1>2, <1>5, <1>7 DEF ClientSequences
    <2>2. a \in 0 .. MaxSequence /\ a + 1 \notin DOMAIN f BY <1>2, <1>3, <1>5, <1>7
    <2> QED BY <1>5, <1>7, <1>9, <2>1, <2>2 DEF SoundSession
  <1>11. \A m \in DOMAIN r.outs : \/ m = n /\ r.outs[m] = o
                                  \/ m \in DOMAIN s.outs /\ r.outs[m] = s.outs[m] /\ m # n
    BY <1>5, <1>7, <1>9 DEF dom
  <1>12. ASSUME NEW m \in ClientSequences PROVE Above(r, m) <=> Above(s, m) /\ m # n
    <2>1. Above(r, m) <=> m > a /\ m \notin Retained(dom)
      BY <1>7, <1>9 DEF Above, Recorded
    <2>2. m \in Nat /\ a \in Nat /\ s.through \in Nat /\ s.through <= a
      BY <1>2, <1>3, <1>12 DEF ClientSequences
    <2>3. Above(r, m) => Above(s, m) /\ m # n
      BY <1>4, <2>1, <2>2 DEF Above, Recorded, dom
    <2>4. ~Above(r, m) => ~Above(s, m) \/ m = n
      BY <1>3, <1>5, <2>1, <2>2 DEF Above, Recorded, dom
    <2> QED BY <2>3, <2>4
  <1> QED BY <1>9, <1>10, <1>11, <1>12

\* A session after install_rejection_fence below the fence it had.
LEMMA FenceSound ==
    ASSUME NEW s, SoundSession(s), NEW n \in ClientSequences, ~Covers(s, n),
           NEW r, r = InstallRejectionFence(s, n)
    PROVE  /\ SoundSession(r) /\ r.fence = n /\ r.outs = s.outs /\ r.through = s.through
           /\ \A m \in ClientSequences : Covers(s, m) => Covers(r, m)
  <1>1. n \in 1 .. MaxSequence /\ s.fence \in 0 .. MaxSequence /\ MaxSequence \in Nat
    BY SequenceAssumption DEF SoundSession, ClientSequences
  <1>2. PICK w : w = IF s.fence = 0 THEN n ELSE Min({s.fence, n}) OBVIOUS
  <1>3. w = n
    <2>1. s.fence # 0 => n < s.fence BY <1>1 DEF Covers
    <2>2. s.fence # 0 => Min({s.fence, n}) = n BY <1>1, <2>1 DEF Min
    <2> QED BY <1>2, <2>2
  <1>4. r = [s EXCEPT !.fence = n] BY <1>2, <1>3 DEF InstallRejectionFence
  <1>5. /\ r = [through |-> s.through, outs |-> s.outs, fence |-> n]
        /\ r.fence = n /\ r.through = s.through /\ r.outs = s.outs
    BY <1>4 DEF SoundSession
  <1>6. SoundSession(r) BY <1>1, <1>5 DEF SoundSession
  <1>7. \A m \in ClientSequences : Covers(s, m) => Covers(r, m)
    BY <1>1, <1>5 DEF Covers, ClientSequences
  <1> QED BY <1>5, <1>6, <1>7

\* Installing the fence a session has changes nothing.
LEMMA FenceAgain ==
    ASSUME NEW s, SoundSession(s), s.fence > 0
    PROVE  InstallRejectionFence(s, s.fence) = s
  <1>1. /\ s.fence \in Nat /\ s.fence # 0
        /\ s = [through |-> s.through, outs |-> s.outs, fence |-> s.fence]
    BY SequenceAssumption DEF SoundSession
  <1>2. Min({s.fence, s.fence}) = s.fence BY <1>1 DEF Min
  <1>3. InstallRejectionFence(s, s.fence) = [s EXCEPT !.fence = s.fence]
    BY <1>1, <1>2 DEF InstallRejectionFence
  <1> QED BY <1>1, <1>3

-----------------------------------------------------------------------------
(* Envelopes.                                                              *)

\* The game runs commands ran; n has outcome o in it.
Tells(ran, n, o) ==
    IF o = Rejected THEN \A k \in DOMAIN ran : ran[k] # n ELSE o \in DOMAIN ran /\ ran[o] = n

\* The session of an envelope tells what its game runs, and nothing runs twice.
Sound(e) ==
    /\ SoundSession(e.session)
    /\ e.ran \in Seq(ClientSequences) /\ IsInjective(e.ran)
    /\ \A n \in DOMAIN e.session.outs : Tells(e.ran, n, e.session.outs[n])
    /\ \A k \in DOMAIN e.ran : ~Above(e.session, e.ran[k])

\* An envelope from which every outcome of T follows, however it is asked for.
Keeps(e, T) ==
    \A n \in ClientSequences : \A o \in T[n] :
        /\ Tells(e.ran, n, o)
        /\ Recorded(e.session, n) => o = e.session.outs[n]
        /\ Above(e.session, n) => o = Rejected /\ Covers(e.session, n)

Alike(e, f) == e.session = f.session /\ e.ran = f.ran

\* incorporate_v2_command decides n as o in the envelope e, which becomes f.
Decides(e, n, o, fence, f) ==
    LET s == e.session
    IN  \/ Recorded(s, n) /\ o = s.outs[n] /\ fence = 0 /\ Alike(e, f)
        \/ RejectionFenceFor(s, n) /\ o = Rejected /\ fence = s.fence /\ Alike(e, f)
        \/ /\ ~IsTerminallyResolved(s, n) /\ SparseWindowIsFull(s, n)
           /\ o = Rejected /\ fence = f.session.fence
           /\ f.session = InstallRejectionFence(s, n) /\ f.ran = e.ran
        \/ /\ ~IsTerminallyResolved(s, n) /\ ~SparseWindowIsFull(s, n)
           /\ f.ran \in {e.ran, Append(e.ran, n)} /\ fence = 0
           /\ o = IF f.ran = e.ran THEN Rejected ELSE Len(f.ran)
           /\ f.session = Record(s, n, o)

\* What is not resolved was not decided, and the fence does not answer it.
LEMMA Unresolved ==
    ASSUME NEW s, NEW n \in ClientSequences, SoundSession(s), ~IsTerminallyResolved(s, n)
    PROVE  Above(s, n) /\ ~Covers(s, n) /\ ~Recorded(s, n)
  BY SequenceAssumption DEF IsTerminallyResolved, Above, SoundSession, ClientSequences

\* One outcome more than an envelope keeps.
LEMMA KeepsMore ==
    ASSUME NEW e, NEW T, DOMAIN T = ClientSequences, Keeps(e, T), NEW n \in ClientSequences,
           NEW o, Tells(e.ran, n, o), Recorded(e.session, n) => o = e.session.outs[n],
           Above(e.session, n) => o = Rejected /\ Covers(e.session, n)
    PROVE  Keeps(e, [T EXCEPT ![n] = @ \cup {o}])
  <1>1. PICK U : U = [T EXCEPT ![n] = @ \cup {o}] OBVIOUS
  <1>2. \A m \in ClientSequences : \A p \in U[m] : p \in T[m] \/ (m = n /\ p = o)
    BY <1>1
  <1>3. Keeps(e, U) BY <1>2 DEF Keeps
  <1> QED BY <1>1, <1>3

\* ... and less.
LEMMA KeepsLess ==
    ASSUME NEW e, NEW T, DOMAIN T = ClientSequences, NEW n \in ClientSequences, NEW o,
           Keeps(e, [T EXCEPT ![n] = @ \cup {o}])
    PROVE  Keeps(e, T)
  <1>1. PICK U : U = [T EXCEPT ![n] = @ \cup {o}] OBVIOUS
  <1>2. \A m \in ClientSequences : \A p \in T[m] : p \in U[m] BY <1>1
  <1>3. Keeps(e, U) BY <1>1
  <1> QED BY <1>2, <1>3 DEF Keeps

\* Both depend on the session and the game of an envelope only.
LEMMA AlikeSound ==
    ASSUME NEW e, NEW f, Alike(e, f)
    PROVE  (Sound(e) <=> Sound(f)) /\ \A T : Keeps(e, T) <=> Keeps(f, T)
  BY DEF Alike, Sound, Keeps

\* A command that runs for the first time.
LEMMA RunsNew ==
    ASSUME NEW ran \in Seq(ClientSequences), IsInjective(ran), NEW n \in ClientSequences,
           Tells(ran, n, Rejected), NEW run, run = Append(ran, n)
    PROVE  /\ run \in Seq(ClientSequences) /\ IsInjective(run) /\ run # ran
           /\ Len(run) = Len(ran) + 1 /\ Len(run) # Rejected
           /\ DOMAIN run = 1 .. Len(ran) + 1 /\ DOMAIN ran = 1 .. Len(ran) /\ Len(ran) \in Nat
           /\ run[Len(ran) + 1] = n /\ \A k \in DOMAIN ran : run[k] = ran[k]
           /\ Tells(run, n, Len(run))
           /\ \A m, o : m # n /\ Tells(ran, m, o) => Tells(run, m, o)
  <1>1. /\ run \in Seq(ClientSequences) /\ Len(run) = Len(ran) + 1 /\ Len(ran) \in Nat
        /\ DOMAIN run = 1 .. Len(ran) + 1 /\ DOMAIN ran = 1 .. Len(ran)
        /\ run[Len(ran) + 1] = n /\ \A k \in DOMAIN ran : run[k] = ran[k]
    OBVIOUS
  <1>2. run # ran /\ Len(run) # Rejected
    <2>1. PICK j \in Nat : j = Len(ran) BY <1>1
    <2>2. Len(run) = j + 1 BY <1>1, <2>1
    <2> HIDE DEF Rejected
    <2>3. Len(run) # j /\ Len(run) # 0 BY <2>2
    <2> QED BY <2>1, <2>3 DEF Rejected
  <1>3. \A k \in DOMAIN ran : ran[k] # n BY DEF Tells
  <1>4. IsInjective(run)
    <2> SUFFICES ASSUME NEW a \in DOMAIN run, NEW b \in DOMAIN run, run[a] = run[b]
                 PROVE  a = b
      BY DEF IsInjective
    <2>1. a \in DOMAIN ran \/ a = Len(ran) + 1 BY <1>1
    <2>2. b \in DOMAIN ran \/ b = Len(ran) + 1 BY <1>1
    <2> QED BY <1>1, <1>3, <2>1, <2>2 DEF IsInjective
  <1>5. Tells(run, n, Len(run))
    <2>1. Len(ran) + 1 \in 1 .. Len(ran) + 1 BY <1>1
    <2>2. Len(run) \in DOMAIN run /\ run[Len(run)] = n BY <1>1, <2>1
    <2> QED BY <1>2, <2>2 DEF Tells
  <1>6. ASSUME NEW m, NEW o, m # n, Tells(ran, m, o) PROVE Tells(run, m, o)
    <2>1. CASE o = Rejected BY <1>1, <1>6, <2>1 DEF Tells
    <2>2. CASE o # Rejected BY <1>1, <1>6, <2>2 DEF Tells
    <2> QED BY <2>1, <2>2
  <1> QED BY <1>1, <1>2, <1>4, <1>5, <1>6

\* An undecided sequence does not run.
LEMMA RunsNot ==
    ASSUME NEW e, Sound(e), NEW n, Above(e.session, n)
    PROVE  Tells(e.ran, n, Rejected)
  BY DEF Sound, Tells

\* A new outcome is recorded: the envelope tells it, and all it told before.
LEMMA RecordKeeps ==
    ASSUME NEW e, Sound(e), NEW T, DOMAIN T = ClientSequences, Keeps(e, T),
           NEW n \in ClientSequences, ~IsTerminallyResolved(e.session, n),
           ~SparseWindowIsFull(e.session, n), NEW f, f.ran = e.ran \/ f.ran = Append(e.ran, n),
           NEW o, f.ran = e.ran => o = Rejected, f.ran # e.ran => o = Len(f.ran),
           f.session = Record(e.session, n, o)
    PROVE  Sound(f) /\ Keeps(f, [T EXCEPT ![n] = @ \cup {o}])
  <1> DEFINE s == e.session
             r == f.session
  <1>1. SoundSession(s) /\ e.ran \in Seq(ClientSequences) /\ IsInjective(e.ran) BY DEF Sound
  <1>2. Above(s, n) /\ ~Covers(s, n) /\ ~Recorded(s, n) BY <1>1, Unresolved
  <1>3. /\ SoundSession(r) /\ r.fence = s.fence
        /\ \A m \in DOMAIN r.outs : \/ m = n /\ r.outs[m] = o
                                    \/ m \in DOMAIN s.outs /\ r.outs[m] = s.outs[m] /\ m # n
        /\ \A m \in ClientSequences : Above(r, m) <=> Above(s, m) /\ m # n
    BY <1>1, <1>2, RecordSound
  <1>4. Tells(e.ran, n, Rejected) BY <1>2, RunsNot
  <1>5. /\ f.ran \in Seq(ClientSequences) /\ IsInjective(f.ran) /\ Tells(f.ran, n, o)
        /\ \A m, p : m # n /\ Tells(e.ran, m, p) => Tells(f.ran, m, p)
        /\ \A k \in DOMAIN f.ran : f.ran[k] = n \/ \E j \in DOMAIN e.ran : f.ran[k] = e.ran[j]
    <2>1. CASE f.ran = e.ran BY <1>1, <1>4, <2>1
    <2>2. CASE f.ran # e.ran
      <3>1. f.ran = Append(e.ran, n) /\ o = Len(f.ran) BY <2>2
      <3>2. PICK ran, run : ran = e.ran /\ run = f.ran OBVIOUS
      <3>3. /\ ran \in Seq(ClientSequences) /\ IsInjective(ran) /\ run = Append(ran, n)
            /\ Tells(ran, n, Rejected)
        BY <1>1, <1>4, <3>1, <3>2
      <3>4. run \in Seq(ClientSequences) /\ IsInjective(run) BY <3>3, RunsNew
      <3>5. Tells(run, n, Len(run)) BY <3>3, RunsNew
      <3>6. ASSUME NEW m, NEW p, m # n, Tells(ran, m, p) PROVE Tells(run, m, p)
        BY <3>3, <3>6, RunsNew
      <3>7. \A k \in DOMAIN run : run[k] = n \/ \E j \in DOMAIN ran : run[k] = ran[j]
        BY <3>3
      <3> QED BY <3>1, <3>2, <3>4, <3>5, <3>6, <3>7
    <2> QED BY <2>1, <2>2
  <1> HIDE DEF s, r
  <1>6. Sound(f)
    <2>1. \A m \in DOMAIN r.outs : Tells(f.ran, m, r.outs[m])
      BY <1>3, <1>5 DEF Sound, s
    <2>2. ASSUME NEW k \in DOMAIN f.ran PROVE ~Above(r, f.ran[k])
      <3>1. f.ran[k] \in ClientSequences BY <1>5
      <3> QED BY <1>3, <1>5, <3>1 DEF Sound, s
    <2> QED BY <1>3, <1>5, <2>1, <2>2 DEF Sound, r
  <1>7. \A p \in T[n] : FALSE BY <1>2 DEF Keeps, s
  <1>8. Keeps(f, T)
    <2> SUFFICES ASSUME NEW m \in ClientSequences, NEW p \in T[m]
                 PROVE  /\ Tells(f.ran, m, p)
                        /\ Recorded(r, m) => p = r.outs[m]
                        /\ Above(r, m) => p = Rejected /\ Covers(r, m)
      BY DEF Keeps, r
    <2>1. m # n BY <1>7
    <2>2. /\ Tells(e.ran, m, p)
          /\ Recorded(s, m) => p = s.outs[m]
          /\ Above(s, m) => p = Rejected /\ Covers(s, m)
      BY DEF Keeps, s
    <2>3. Tells(f.ran, m, p) BY <1>5, <2>1, <2>2
    <2>4. Recorded(r, m) => p = r.outs[m] BY <1>3, <2>1, <2>2 DEF Recorded
    <2>5. Above(r, m) => p = Rejected /\ Covers(r, m) BY <1>3, <2>2 DEF Covers
    <2> QED BY <2>3, <2>4, <2>5
  <1>9. ~Above(r, n) BY <1>3
  <1>10. Recorded(r, n) => o = r.outs[n] BY <1>2, <1>3 DEF Recorded
  <1> QED BY <1>5, <1>6, <1>8, <1>9, <1>10, KeepsMore DEF r

\* A fence is installed for n: it answers n, and all it answered before.
LEMMA FenceKeeps ==
    ASSUME NEW e, Sound(e), NEW T, DOMAIN T = ClientSequences, Keeps(e, T),
           NEW n \in ClientSequences, ~IsTerminallyResolved(e.session, n),
           NEW f, f.ran = e.ran, f.session = InstallRejectionFence(e.session, n)
    PROVE  Sound(f) /\ Keeps(f, [T EXCEPT ![n] = @ \cup {Rejected}])
  <1> DEFINE s == e.session
             r == f.session
  <1>1. SoundSession(s) BY DEF Sound
  <1>2. Above(s, n) /\ ~Covers(s, n) /\ ~Recorded(s, n) BY <1>1, Unresolved
  <1>3. /\ SoundSession(r) /\ r.fence = n /\ r.outs = s.outs /\ r.through = s.through
        /\ \A m \in ClientSequences : Covers(s, m) => Covers(r, m)
    BY <1>1, <1>2, FenceSound
  <1>4. \A m : (Above(r, m) <=> Above(s, m)) /\ (Recorded(r, m) <=> Recorded(s, m))
    BY <1>3 DEF Above, Recorded
  <1>5. Covers(r, n) BY <1>3, SequenceAssumption DEF Covers, ClientSequences
  <1>6. Sound(f) BY <1>3, <1>4 DEF Sound
  <1>7. Keeps(f, T) BY <1>3, <1>4 DEF Keeps
  <1>8. Tells(f.ran, n, Rejected) BY <1>2, RunsNot
  <1> QED BY <1>2, <1>4, <1>5, <1>6, <1>7, <1>8, KeepsMore

\* Whichever way a sequence is decided, the envelope stays sound and keeps the
\* new outcome with those before it.
LEMMA DecidesKeeps ==
    ASSUME NEW e, Sound(e), NEW T, DOMAIN T = ClientSequences, Keeps(e, T),
           NEW n \in ClientSequences, NEW o, NEW fence, NEW f, Decides(e, n, o, fence, f)
    PROVE  Sound(f) /\ Keeps(f, [T EXCEPT ![n] = @ \cup {o}])
  <1>1. CASE Recorded(e.session, n) /\ o = e.session.outs[n] /\ Alike(e, f)
    <2>1. Tells(e.ran, n, o) /\ ~Above(e.session, n) BY <1>1 DEF Sound, Recorded, Above
    <2>2. Keeps(e, [T EXCEPT ![n] = @ \cup {o}]) BY <1>1, <2>1, KeepsMore
    <2> QED BY <1>1, <2>2, AlikeSound
  <1>2. CASE RejectionFenceFor(e.session, n) /\ o = Rejected /\ Alike(e, f)
    <2>1. Above(e.session, n) /\ Covers(e.session, n) /\ ~Recorded(e.session, n)
      BY <1>2 DEF RejectionFenceFor, Above
    <2>2. Tells(e.ran, n, Rejected) BY <2>1, RunsNot
    <2>3. Keeps(e, [T EXCEPT ![n] = @ \cup {o}]) BY <1>2, <2>1, <2>2, KeepsMore
    <2> QED BY <1>2, <2>3, AlikeSound
  <1>3. CASE /\ ~IsTerminallyResolved(e.session, n) /\ o = Rejected
             /\ f.session = InstallRejectionFence(e.session, n) /\ f.ran = e.ran
    BY <1>3, FenceKeeps
  <1>4. CASE /\ ~IsTerminallyResolved(e.session, n) /\ ~SparseWindowIsFull(e.session, n)
             /\ f.ran = e.ran \/ f.ran = Append(e.ran, n)
             /\ o = IF f.ran = e.ran THEN Rejected ELSE Len(f.ran)
             /\ f.session = Record(e.session, n, o)
    <2>1. (f.ran = e.ran => o = Rejected) /\ (f.ran # e.ran => o = Len(f.ran)) BY <1>4
    <2> QED BY <1>4, <2>1, RecordKeeps
  <1> QED BY <1>1, <1>2, <1>3, <1>4 DEF Decides

Fields == {"cursor", "session", "seq", "ran"}

\* What incorporate_recorded_decision leaves of an envelope.
LEMMA ReplayedFields ==
    ASSUME NEW g, DOMAIN g = Fields, NEW d, NEW s, s = FencedBy(g.session, d)
    PROVE  /\ DOMAIN Replayed(g, d) = Fields /\ Replayed(g, d).seq = d.seq
           /\ Replayed(g, d).cursor = g.cursor
           /\ Replayed(g, d).session = IF Fresh(s, d.n) THEN Record(s, d.n, d.o) ELSE s
           /\ Replayed(g, d).ran =
                 IF Fresh(s, d.n) /\ d.o # Rejected THEN Append(g.ran, d.n) ELSE g.ran
  BY DEF Replayed, Fields

\* A replay depends on the session, the game and the sequence of an envelope.
LEMMA AlikeReplays ==
    ASSUME NEW e, DOMAIN e = Fields, NEW g, DOMAIN g = Fields, Alike(e, g), e.seq = g.seq,
           NEW d
    PROVE  /\ Alike(Replayed(e, d), Replayed(g, d))
           /\ Replayed(e, d).seq = Replayed(g, d).seq
           /\ ReplayBails(e, d) <=> ReplayBails(g, d)
  <1>1. PICK s : s = FencedBy(e.session, d) /\ s = FencedBy(g.session, d) BY DEF Alike
  <1>2. /\ Replayed(e, d).session = Replayed(g, d).session
        /\ Replayed(e, d).ran = Replayed(g, d).ran
        /\ Replayed(e, d).seq = Replayed(g, d).seq
    <2>1. /\ Replayed(e, d).seq = d.seq
          /\ Replayed(e, d).session = IF Fresh(s, d.n) THEN Record(s, d.n, d.o) ELSE s
          /\ Replayed(e, d).ran =
                IF Fresh(s, d.n) /\ d.o # Rejected THEN Append(e.ran, d.n) ELSE e.ran
      BY <1>1, ReplayedFields
    <2>2. /\ Replayed(g, d).seq = d.seq
          /\ Replayed(g, d).session = IF Fresh(s, d.n) THEN Record(s, d.n, d.o) ELSE s
          /\ Replayed(g, d).ran =
                IF Fresh(s, d.n) /\ d.o # Rejected THEN Append(g.ran, d.n) ELSE g.ran
      BY <1>1, ReplayedFields
    <2>3. e.ran = g.ran BY DEF Alike
    <2> QED BY <2>1, <2>2, <2>3
  <1>3. ReplayBails(e, d) <=> ReplayBails(g, d) BY <1>1, <1>2 DEF ReplayBails, Alike
  <1> QED BY <1>2, <1>3 DEF Alike

\* The checks of incorporate_recorded_decision and replay_scheduled_command.
LEMMA ChecksPassed ==
    ASSUME NEW g, DOMAIN g = Fields, NEW d, NEW s, s = FencedBy(g.session, d), NEW f,
           ~(d.seq <= g.seq), d.counter = Len(f.ran),
           Recorded(s, d.n) => s.outs[d.n] = d.o,
           RejectionFenceFor(s, d.n) => d.o = Rejected,
           Fresh(s, d.n) => CanRecord(s, d.n),
           Fresh(s, d.n) /\ d.o # Rejected => d.o = Len(g.ran) + 1,
           f.session = (IF Fresh(s, d.n) THEN Record(s, d.n, d.o) ELSE s),
           f.ran = (IF Fresh(s, d.n) /\ d.o # Rejected THEN Append(g.ran, d.n) ELSE g.ran)
    PROVE  ~ReplayBails(g, d) /\ Alike(Replayed(g, d), f)
  <1>1. Replayed(g, d).session = f.session /\ Replayed(g, d).ran = f.ran
    BY DEF Replayed, Fields
  <1>2. ~ReplayBails(g, d) BY <1>1 DEF ReplayBails
  <1> QED BY <1>1, <1>2 DEF Alike

\* Replaying the decision journalled for n passes every check and gives the
\* envelope in which it was decided.
LEMMA DecidesReplays ==
    ASSUME NEW e, Sound(e), NEW g, DOMAIN g = Fields, Alike(e, g), g.seq \in Nat,
           NEW n \in ClientSequences, NEW o, NEW fence, NEW f, Decides(e, n, o, fence, f),
           NEW d, d.n = n, d.o = o, d.fence = fence, d.counter = Len(f.ran),
           d.seq \in Nat, d.seq > g.seq
    PROVE  ~ReplayBails(g, d) /\ Alike(Replayed(g, d), f)
  <1>1. PICK s : s = FencedBy(g.session, d) OBVIOUS
  <1>2. g.session = e.session /\ g.ran = e.ran /\ SoundSession(e.session)
        /\ e.ran \in Seq(ClientSequences) /\ n # 0
    BY DEF Alike, Sound, ClientSequences
  <1>3. SUFFICES /\ Recorded(s, n) => s.outs[n] = o
                 /\ RejectionFenceFor(s, n) => o = Rejected
                 /\ Fresh(s, n) => CanRecord(s, n)
                 /\ Fresh(s, n) /\ o # Rejected => o = Len(e.ran) + 1
                 /\ f.session = IF Fresh(s, n) THEN Record(s, n, o) ELSE s
                 /\ f.ran = IF Fresh(s, n) /\ o # Rejected THEN Append(e.ran, n) ELSE e.ran
    <2>1. d.n = n /\ d.o = o /\ g.ran = e.ran /\ ~(d.seq <= g.seq) BY <1>2
    <2> QED BY <1>1, <1>3, <2>1, ChecksPassed
  <1>4. CASE /\ Recorded(e.session, n) /\ o = e.session.outs[n] /\ fence = 0 /\ Alike(e, f)
    <2>1. s = e.session BY <1>1, <1>2, <1>4 DEF FencedBy
    <2>2. ~Fresh(s, n) /\ ~RejectionFenceFor(s, n)
      BY <1>4, <2>1, SequenceAssumption
      DEF Fresh, IsTerminallyResolved, RejectionFenceFor, ClientSequences
    <2> QED BY <1>4, <2>1, <2>2 DEF Alike
  <1>5. CASE /\ RejectionFenceFor(e.session, n) /\ o = Rejected /\ fence = e.session.fence
             /\ Alike(e, f)
    <2>1. e.session.fence > 0 /\ ~Recorded(e.session, n)
      BY <1>5 DEF RejectionFenceFor, Covers
    <2>2. s = e.session
      <3>1. s = InstallRejectionFence(e.session, e.session.fence)
        BY <1>1, <1>2, <1>5, <2>1, SequenceAssumption DEF FencedBy, SoundSession
      <3> QED BY <1>2, <2>1, <3>1, FenceAgain
    <2>3. ~Fresh(s, n)
      BY <1>5, <2>2, SequenceAssumption
      DEF Fresh, IsTerminallyResolved, RejectionFenceFor, ClientSequences
    <2> QED BY <1>5, <2>1, <2>2, <2>3 DEF Alike
  <1>6. CASE /\ ~IsTerminallyResolved(e.session, n) /\ o = Rejected
             /\ fence = f.session.fence
             /\ f.session = InstallRejectionFence(e.session, n) /\ f.ran = e.ran
    <2>1. Above(e.session, n) /\ ~Covers(e.session, n) /\ ~Recorded(e.session, n)
      BY <1>2, <1>6, Unresolved
    <2>2. f.session.fence = n /\ f.session.outs = e.session.outs
          /\ f.session.through = e.session.through
      BY <1>2, <1>6, <2>1, FenceSound
    <2>3. s = f.session
      BY <1>1, <1>2, <1>6, <2>2 DEF FencedBy
    <2>4. ~Recorded(s, n) /\ Covers(s, n) /\ ~Fresh(s, n)
      BY <2>1, <2>2, <2>3, SequenceAssumption
      DEF Recorded, Covers, Fresh, IsTerminallyResolved, ClientSequences
    <2> QED BY <1>6, <2>3, <2>4
  <1>7. CASE /\ ~IsTerminallyResolved(e.session, n) /\ ~SparseWindowIsFull(e.session, n)
             /\ f.ran = e.ran \/ f.ran = Append(e.ran, n)
             /\ fence = 0
             /\ f.ran = e.ran => o = Rejected
             /\ f.ran # e.ran => o = Len(f.ran)
             /\ f.session = Record(e.session, n, o)
    <2>1. Above(e.session, n) /\ ~Covers(e.session, n) /\ ~Recorded(e.session, n)
      BY <1>2, <1>7, Unresolved
    <2>2. s = e.session /\ Fresh(s, n) BY <1>1, <1>2, <1>7 DEF FencedBy, Fresh
    <2>3. ~RejectionFenceFor(s, n) /\ CanRecord(s, n)
      BY <1>7, <2>1, <2>2 DEF RejectionFenceFor, CanRecord
    <2>4. CASE f.ran = e.ran BY <1>7, <2>1, <2>2, <2>3, <2>4
    <2>5. CASE f.ran # e.ran
      <3>1. f.ran = Append(e.ran, n) /\ o = Len(f.ran) BY <1>7, <2>5
      <3>2. Len(Append(e.ran, n)) = Len(e.ran) + 1 /\ Len(e.ran) \in Nat BY <1>2
      <3>3. o = Len(e.ran) + 1 /\ o # Rejected BY <3>1, <3>2 DEF Rejected
      <3> QED BY <1>7, <2>1, <2>2, <2>3, <3>1, <3>3
    <2> QED BY <2>4, <2>5
  <1> QED BY <1>4, <1>5, <1>6, <1>7 DEF Decides

-----------------------------------------------------------------------------
(* The invariant of the journal.                                           *)

AllBelow(i) == \A j \in DOMAIN decisions : j <= i

\* Beyond the entry that created the game there are commands only.
CommandsOnly ==
    /\ DOMAIN told = ClientSequences
    /\ \A i \in 2 .. Len(stream) : stream[i] \in ClientSequences
    /\ actor.up => actor.env.cursor >= 1
    /\ ckpt # NoCkpt => ckpt.cursor >= 1
    /\ late # NoLate => late.env.cursor >= 1

\* The journal has no gap above the checkpoint, and whoever saves an envelope
\* acknowledges every decision in it.
Gapless ==
    /\ \A i \in DOMAIN decisions :
          /\ ckpt # NoCkpt /\ i > ckpt.cursor
          /\ \A j \in ckpt.cursor + 1 .. i : j \in DOMAIN decisions
    /\ actor.up => \A i \in DOMAIN decisions : i <= actor.env.cursor => i \in actor.pending
    /\ late # NoLate =>
          \A i \in DOMAIN decisions : i <= late.env.cursor => i \in late.covered

\* Only an actor that has replayed the journal writes, and a live one decides
\* every entry it takes in, unless it stops for a fresh checkpoint.
Writers ==
    actor.up =>
        /\ actor.live \/ actor.task # "idle" \/ (exec # "boot" /\ ~handoff) =>
              AllBelow(actor.env.cursor)
        /\ actor.task = "snapshot" => ckpt.cursor = actor.env.cursor
        /\ actor.live /\ Serving /\ actor.task # "refresh" =>
              \A j \in ckpt.cursor + 1 .. actor.env.cursor : j \in DOMAIN decisions

\* Every envelope is sound, and those that a checkpoint may save keep all that
\* was told.
Envelopes ==
    /\ Sound(actor.env)
    /\ actor.up /\ AllBelow(actor.env.cursor) => Keeps(actor.env, told)

\* A checkpoint on its way, of envelope e, saves all that was told, or all but what
\* the delivery in the mailbox, entry id, decided since.
LateWhole(e) ==
    /\ AllBelow(e.cursor) /\ Keeps(e, told)
    /\ actor.live => Alike(e, actor.env) /\ e.seq <= actor.env.seq
LateBehind(e, id) ==
    LET d == decisions[id]
        h == Replayed(e, decisions[id])
    IN  /\ id \in DOMAIN decisions /\ id = e.cursor + 1 /\ AllBelow(id)
        /\ ~ReplayBails(e, d) /\ Sound(h) /\ Keeps(h, told)
        /\ actor.live => Alike(h, actor.env) /\ d.seq <= actor.env.seq /\ ~actor.mail
LateEnvelope ==
    late # NoLate =>
        /\ Sound(late.env)
        /\ actor.up => AllBelow(actor.env.cursor)
        /\ actor.mail => late.env.cursor = actor.env.cursor
        /\ LateWhole(late.env) \/ \E id : LateBehind(late.env, id)

\* P[i]: the envelope that replaying the journal up to entry i rebuilds.
IsPath(P) ==
    \A i \in Nat :
        P[i] = IF i = 0 \/ i <= ckpt.cursor
               THEN IF ckpt = NoCkpt THEN NewEnvelope ELSE ckpt
               ELSE IF i \in DOMAIN decisions THEN Replayed(P[i - 1], decisions[i])
               ELSE P[i - 1]

\* No decision fails its replay, and the end of the path keeps what was told.
PathSound(P) ==
    /\ \A i \in Nat : IsEnvelope(P[i]) /\ Sound(P[i])
    /\ \A i \in DOMAIN decisions : ~ReplayBails(P[i - 1], decisions[i])
    /\ \A i \in Nat : AllBelow(i) => Keeps(P[i], told)

\* A live actor is at the end of the path, one that replays is on it.
PathActor(P) ==
    actor.up =>
        /\ actor.live \/ actor.task = "snapshot" =>
              \A i \in Nat : AllBelow(i) =>
                                Alike(P[i], actor.env) /\ P[i].seq <= actor.env.seq
        /\ exec = "boot" /\ ~AllBelow(actor.env.cursor) =>
              Alike(P[actor.env.cursor], actor.env) /\ P[actor.env.cursor].seq = actor.env.seq

OnPath == \E P : IsPath(P) /\ PathSound(P) /\ PathActor(P)

Exact == CommandsOnly /\ Gapless /\ Writers /\ Envelopes /\ LateEnvelope /\ OnPath

\* The journal is the same, entry by entry.
SameJournal ==
    /\ DOMAIN decisions' = DOMAIN decisions
    /\ \A i \in DOMAIN decisions : decisions'[i] = decisions[i]

-----------------------------------------------------------------------------
(* Steps that leave the journal alone.                                     *)

\* The path is where it was.
LEMMA SamePath ==
    ASSUME OnPath, SameJournal, UNCHANGED <<ckpt, told>>,
           \A P : IsPath(P) /\ PathSound(P) /\ PathActor(P) => PathActor(P)'
    PROVE  OnPath'
  <1>1. PICK P : IsPath(P) /\ PathSound(P) /\ PathActor(P) BY DEF OnPath
  <1>2. IsPath(P)' BY <1>1 DEF IsPath, SameJournal
  <1>3. PathSound(P)' BY <1>1 DEF PathSound, SameJournal, AllBelow
  <1>4. PathActor(P)' BY <1>1
  <1> QED BY <1>2, <1>3, <1>4 DEF OnPath

\* The envelope of a game not yet created is sound.
LEMMA NewSound == Sound(NewEnvelope) /\ NewEnvelope.ran = <<>>
  <1>1. /\ NewEnvelope.session = NewSession /\ NewEnvelope.ran = <<>>
        /\ NewSession = [through |-> 0, outs |-> NewSession.outs, fence |-> 0]
        /\ NewSession.through = 0 /\ NewSession.fence = 0 /\ DOMAIN NewSession.outs = {}
    BY DEF NewEnvelope, NewSession
  <1>2. SoundSession(NewSession)
    BY <1>1, FS_EmptySet, SequenceAssumption, MaxResultsAssumption DEF SoundSession
  <1>3. <<>> \in Seq(ClientSequences) /\ DOMAIN <<>> = {} OBVIOUS
  <1>4. IsInjective(<<>>) BY <1>3 DEF IsInjective
  <1> QED BY <1>1, <1>2, <1>3, <1>4 DEF Sound

\* A term ends: nothing is left of its actor.
LEMMA StopsExact ==
    ASSUME Exact, actor' = NoActor, UNCHANGED <<stream, decisions, ckpt, told>>,
           late' \in {late, NoLate}
    PROVE  Exact'
  <1>1. CommandsOnly' BY DeadActor DEF Exact, CommandsOnly
  <1>2. Gapless' BY DeadActor DEF Exact, Gapless
  <1>3. Writers' BY DeadActor DEF Writers
  <1>4. Envelopes' BY DeadActor, NewSound DEF Exact, Envelopes
  <1>5. OnPath'
    <2>1. \A P : PathActor(P)' BY DeadActor DEF PathActor
    <2>2. SameJournal BY DEF SameJournal
    <2> QED BY <2>1, <2>2, SamePath DEF Exact
  <1>6. LateEnvelope'
    BY DeadActor DEF Exact, LateEnvelope, LateWhole, LateBehind, AllBelow
  <1> QED BY <1>1, <1>2, <1>3, <1>4, <1>5, <1>6 DEF Exact

\* Nothing but the stream, the group or the control of the term moves.
LEMMA QuietExact ==
    ASSUME Exact, SameJournal, UNCHANGED <<ckpt, told, actor>>, late' \in {late, NoLate},
           exec' = "boot" => exec = "boot", Writers',
           \A i \in 2 .. Len(stream') : stream'[i] \in ClientSequences
    PROVE  Exact'
  <1>1. CommandsOnly' BY DEF Exact, CommandsOnly
  <1>2. Gapless' BY DEF Exact, Gapless, SameJournal
  <1>3. \A i : AllBelow(i)' <=> AllBelow(i) BY DEF AllBelow, SameJournal
  <1>4. Envelopes' BY <1>3 DEF Exact, Envelopes
  <1>5. OnPath'
    <2>1. \A P : PathActor(P) => PathActor(P)' BY <1>3 DEF PathActor
    <2> QED BY <2>1, SamePath DEF Exact
  <1>6. LateEnvelope'
    BY <1>3 DEF Exact, LateEnvelope, LateWhole, LateBehind, SameJournal
  <1> QED BY <1>1, <1>2, <1>4, <1>5, <1>6 DEF Exact

\* Submissions, reads, trims, releases and the control of a term.
LEMMA ControlExact ==
    ASSUME Inv, Exact, UNCHANGED <<decisions, ckpt, told, actor, late, scan>>,
           \/ stream' = stream
           \/ \E n \in ClientSequences : stream' = Append(stream, n),
           handoff' = handoff,
           exec' = exec \/ (exec = "activating" /\ exec' = "run")
    PROVE  Exact'
  <1>1. SameJournal BY DEF SameJournal
  <1>2. \A i : AllBelow(i)' <=> AllBelow(i) BY DEF AllBelow
  <1>3. Writers' BY <1>2 DEF Exact, Writers, Serving
  <1>4. \A i \in 2 .. Len(stream') : stream'[i] \in ClientSequences
    <2>1. CASE stream' = stream BY <2>1 DEF Exact, CommandsOnly
    <2>2. CASE \E n \in ClientSequences : stream' = Append(stream, n)
      <3>1. PICK n \in ClientSequences : stream' = Append(stream, n) BY <2>2
      <3>2. stream \in Seq(ClientSequences \cup {Created}) /\ Len(stream) \in Nat
        BY DEF Inv, TypeInv, StreamTypes
      <3>3. /\ Len(stream') = Len(stream) + 1 /\ stream'[Len(stream) + 1] = n
            /\ \A i \in 1 .. Len(stream) : stream'[i] = stream[i]
        BY <3>1, <3>2
      <3>4. \A i \in 2 .. Len(stream) : stream[i] \in ClientSequences
        BY DEF Exact, CommandsOnly
      <3>5. \A i \in 2 .. Len(stream') : i \in 2 .. Len(stream) \/ i = Len(stream) + 1
        BY <3>2, <3>3
      <3>6. \A i \in 2 .. Len(stream) : i \in 1 .. Len(stream) BY <3>2
      <3> QED BY <3>3, <3>4, <3>5, <3>6
    <2> QED BY <2>1, <2>2
  <1> QED BY <1>1, <1>3, <1>4, QuietExact

\* A handoff begins, perhaps with a delivery in the mailbox.
LEMMA StartHandoffExact == ASSUME Inv, Exact, StartHandoff PROVE Exact'
  <1>1. ~handoff /\ UNCHANGED <<stream, decisions, ckpt, told, exec, scan, late>>
    BY DEF StartHandoff, durable, history
  <1>2. PICK mail \in BOOLEAN : actor' = [actor EXCEPT !.mail = mail] BY DEF StartHandoff
  <1>3. /\ actor'.up = actor.up /\ actor'.live = actor.live /\ actor'.task = actor.task
        /\ actor'.env = actor.env /\ actor'.pending = actor.pending
    BY <1>2 DEF Inv, TypeInv, ActorTypes
  <1>4. late = NoLate /\ Serving BY <1>1 DEF Inv, LateInv, Serving
  <1>5. \A i : AllBelow(i)' <=> AllBelow(i) BY <1>1 DEF AllBelow
  <1>6. CommandsOnly' BY <1>1, <1>3 DEF Exact, CommandsOnly
  <1>7. Gapless' BY <1>1, <1>3, <1>4 DEF Exact, Gapless
  <1>8. handoff' BY DEF StartHandoff
  <1>9. Writers' BY <1>1, <1>3, <1>4, <1>5, <1>8 DEF Exact, Writers
  <1>10. Envelopes' BY <1>1, <1>3, <1>5 DEF Exact, Envelopes
  <1>11. LateEnvelope' BY <1>1, <1>4 DEF LateEnvelope
  <1>12. OnPath'
    <2>1. \A P : PathActor(P) => PathActor(P)' BY <1>1, <1>3, <1>5 DEF PathActor
    <2>2. SameJournal BY <1>1 DEF SameJournal
    <2> QED BY <1>1, <2>1, <2>2, SamePath DEF Exact
  <1> QED BY <1>6, <1>7, <1>9, <1>10, <1>11, <1>12 DEF Exact

\* The dispatcher has been through all that was delivered, or skips it.
LEMMA ReplayDoneExact == ASSUME Inv, Exact, ReplayDone PROVE Exact'
  <1>1. /\ exec = "boot" /\ exec' = "activating" /\ scan' = Max(pel \cup {scan})
        /\ handoff \/ Undispatched = {}
        /\ UNCHANGED <<stream, decisions, ckpt, told, handoff, actor, late>>
    BY DEF ReplayDone, durable, history
  <1>2. /\ delivered \in Nat /\ scan \in Nat /\ scan <= delivered
        /\ \A i \in pel : i \in Nat /\ i >= 1 /\ i <= delivered
    BY Positions DEF Inv
  <1>3. ~handoff => /\ scan' = scan /\ \A i \in pel : i <= scan
    <2> SUFFICES ASSUME ~handoff PROVE scan' = scan /\ \A i \in pel : i <= scan OBVIOUS
    <2>1. \A i \in pel : i <= scan BY <1>1, <1>2 DEF Undispatched
    <2>2. /\ pel \cup {scan} \in SUBSET Nat /\ pel \cup {scan} # {}
          /\ \A x \in pel \cup {scan} : x <= scan
      BY <1>2, <2>1
    <2>3. scan' \in pel \cup {scan} /\ scan <= scan' BY <1>1, <1>2, <2>2, Largest
    <2> QED BY <1>2, <2>1, <2>3
  <1>4. SameJournal BY <1>1 DEF SameJournal
  <1>5. Writers'
    <2> SUFFICES ASSUME actor.up
                 PROVE  ~handoff => AllBelow(actor.env.cursor)
      BY <1>1 DEF Exact, Writers, AllBelow, Serving
    <2>1. scan <= actor.env.cursor /\ actor.env.cursor \in Nat
      BY <1>1, CheckpointCursor DEF Inv, Cursors
    <2> QED BY <1>2, <1>3, <2>1 DEF AllBelow, Inv, TypeInv, StreamTypes
  <1> QED BY <1>1, <1>4, <1>5, QuietExact DEF Exact, CommandsOnly

\* The new actor starts where the path starts.
LEMMA TakeoverExact == ASSUME Inv, Exact, Takeover PROVE Exact'
  <1>1. /\ exec' = "boot" /\ scan' = 0 /\ late' = NoLate
        /\ UNCHANGED <<stream, decisions, ckpt, told>>
    BY DEF Takeover, durable, history
  <1>2. CASE ckpt = NoCkpt
    <2>1. actor' = NoActor BY <1>2 DEF Takeover
    <2> QED BY <1>1, <2>1, StopsExact
  <1>3. CASE ckpt # NoCkpt
    <2>1. actor' = Actor(ckpt, marker) BY <1>3 DEF Takeover
    <2>2. /\ actor'.up = TRUE /\ actor'.live = FALSE /\ actor'.task = "idle"
          /\ actor'.env = ckpt /\ actor'.pending = {}
      BY <2>1 DEF Actor
    <2>3. ckpt.cursor \in Nat BY <1>3, CheckpointCursor
    <2>4. \A i : AllBelow(i)' <=> AllBelow(i) BY <1>1 DEF AllBelow
    <2>5. \A i \in DOMAIN decisions : ~(i <= ckpt.cursor)
      <3>1. \A i \in DOMAIN decisions : i \in Nat
        BY Positions DEF Inv, TypeInv, StreamTypes
      <3> QED BY <2>3, <3>1 DEF Exact, Gapless
    <2>6. ASSUME NEW P, IsPath(P), PathSound(P)
          PROVE  P[ckpt.cursor] = ckpt /\ Sound(ckpt)
                 /\ (AllBelow(ckpt.cursor) => Keeps(ckpt, told))
      <3>1. P[ckpt.cursor] = ckpt BY <1>3, <2>3, <2>6 DEF IsPath
      <3> QED BY <2>3, <2>6, <3>1 DEF PathSound
    <2>7. CommandsOnly' BY <1>1, <1>3, <2>2 DEF Exact, CommandsOnly
    <2>8. Gapless' BY <1>1, <2>2, <2>5 DEF Exact, Gapless
    <2>9. Writers' BY <1>1, <2>2, <2>3 DEF Writers
    <2>10. Envelopes'
      <3>1. Sound(ckpt) /\ (AllBelow(ckpt.cursor) => Keeps(ckpt, told))
        BY <2>6 DEF Exact, OnPath
      <3> QED BY <1>1, <2>2, <2>4, <3>1 DEF Envelopes
    <2>11. OnPath'
      <3>1. ASSUME NEW P, IsPath(P), PathSound(P) PROVE PathActor(P)'
        <4>1. P[ckpt.cursor] = ckpt BY <2>6, <3>1
        <4> QED BY <2>2, <4>1 DEF PathActor, Alike
      <3>2. SameJournal BY <1>1 DEF SameJournal
      <3> QED BY <1>1, <3>1, <3>2, SamePath DEF Exact
    <2>12. LateEnvelope' BY <1>1 DEF LateEnvelope
    <2> QED BY <2>7, <2>8, <2>9, <2>10, <2>11, <2>12 DEF Exact
  <1> QED BY <1>2, <1>3

\* The actor moves on in memory, where it is on the path.
LEMMA MovesExact ==
    ASSUME Inv, Exact, actor.up, exec # "boot",
           UNCHANGED <<stream, decisions, ckpt, told, exec, scan, handoff>>,
           actor'.up, actor'.pending = actor.pending, Alike(actor.env, actor'.env),
           actor'.env.cursor = actor.env.cursor, actor'.env.seq \in Nat,
           actor'.env.seq >= actor.env.seq,
           actor'.live \/ actor'.task # "idle" => AllBelow(actor.env.cursor),
           actor'.task = "snapshot" => actor.task = "snapshot",
           actor'.live => actor.live \/ actor.task = "snapshot",
           actor'.live /\ Serving /\ actor'.task # "refresh" =>
               (actor.live /\ actor.task # "refresh") \/ actor.task = "snapshot",
           actor'.mail = actor.mail, late = NoLate,
           \/ late' = NoLate
           \/ late'.env = actor.env /\ late'.covered = actor.pending
              /\ AllBelow(actor.env.cursor)
    PROVE  Exact'
  <1>1. \A i : AllBelow(i)' <=> AllBelow(i) BY DEF AllBelow
  <1>2. Sound(actor'.env) /\ \A T : Keeps(actor.env, T) <=> Keeps(actor'.env, T)
    BY AlikeSound DEF Exact, Envelopes
  <1>3. CommandsOnly' BY DEF Exact, CommandsOnly
  <1>4. Gapless' BY DEF Exact, Gapless
  <1>5. Writers'
    <2>1. /\ ckpt.cursor \in Int /\ actor.env.cursor \in Nat BY CheckpointCursor
    <2>2. actor.task = "snapshot" =>
              \A j \in ckpt.cursor + 1 .. actor.env.cursor : j \in DOMAIN decisions
      BY <2>1 DEF Exact, Writers
    <2>3. exec # "boot" /\ ~handoff => AllBelow(actor.env.cursor) BY DEF Exact, Writers
    <2> QED BY <1>1, <2>2, <2>3 DEF Exact, Writers, Serving
  <1>6. Envelopes'
    <2>1. AllBelow(actor.env.cursor) => Keeps(actor.env, told) BY DEF Exact, Envelopes
    <2> QED BY <1>1, <1>2, <2>1 DEF Exact, Envelopes
  <1>7. LateEnvelope'
    <2> SUFFICES ASSUME late'.env = actor.env, AllBelow(actor.env.cursor) PROVE LateEnvelope'
      BY DEF LateEnvelope
    <2>1. Keeps(actor.env, told) /\ Sound(actor.env) BY DEF Exact, Envelopes
    <2>2. LateWhole(late.env)' BY <1>1, <2>1 DEF LateWhole
    <2> QED BY <1>1, <2>1, <2>2 DEF LateEnvelope
  <1>8. OnPath'
    <2>1. ASSUME NEW P, PathSound(P), PathActor(P) PROVE PathActor(P)'
      <3>1. \A i \in Nat : P[i].seq \in Nat BY <2>1 DEF PathSound, IsEnvelope
      <3>2. actor.env.seq \in Nat BY CheckpointCursor
      <3>3. actor'.live \/ actor'.task = "snapshot" => actor.live \/ actor.task = "snapshot"
        OBVIOUS
      <3>4. actor.live \/ actor.task = "snapshot" =>
               \A i \in Nat : AllBelow(i) =>
                                 Alike(P[i], actor'.env) /\ P[i].seq <= actor'.env.seq
        BY <2>1, <3>1, <3>2 DEF PathActor, Alike
      <3> QED BY <1>1, <3>3, <3>4 DEF PathActor
    <2>2. SameJournal BY DEF SameJournal
    <2> QED BY <2>1, <2>2, SamePath DEF Exact
  <1> QED BY <1>3, <1>4, <1>5, <1>6, <1>7, <1>8 DEF Exact

\* activate, ticks, checkpoints begun or dropped, and snapshots.
LEMMA StartActivationExact == ASSUME Inv, Exact, StartActivation PROVE Exact'
  <1>1. /\ actor.up /\ ~actor.live /\ actor.task = "idle" /\ ~handoff
        /\ exec \in {"activating", "run"}
        /\ UNCHANGED <<stream, decisions, ckpt, told, exec, scan, handoff, late>>
    BY DEF StartActivation, durable, history
  <1>2. IsEnvelope(actor.env) /\ actor.env.seq \in Nat /\ actor.mark \in Nat
    BY DEF Inv, TypeInv, ActorTypes, IsEnvelope
  <1>3. PICK m : m = Merged(actor.env.seq, actor.mark) OBVIOUS
  <1>4. m \in Nat /\ m >= actor.env.seq
    <2> DEFINE S == {actor.env.seq, actor.mark}
    <2>1. PICK b \in S : \A x \in S : x <= b BY <1>2
    <2>2. S \in SUBSET Nat /\ S # {} /\ b \in Nat BY <1>2
    <2>3. Max(S) \in S /\ \A x \in S : x <= Max(S) BY <2>1, <2>2, Largest
    <2>4. m = Max(S) BY <1>3 DEF Merged
    <2> QED BY <1>2, <2>3, <2>4
  <1>5. PICK e : e = [actor.env EXCEPT !.seq = m] OBVIOUS
  <1>6. e.seq = m /\ e.cursor = actor.env.cursor /\ Alike(actor.env, e)
    BY <1>2, <1>5 DEF IsEnvelope, Alike
  <1>7. actor' = [actor EXCEPT !.env = e, !.mark = 0, !.task = "activate"]
    BY <1>3, <1>5 DEF StartActivation, Inv, TypeInv, ActorTypes
  <1>8. /\ actor'.up = actor.up /\ actor'.live = actor.live /\ actor'.task = "activate"
        /\ actor'.env = e /\ actor'.pending = actor.pending /\ actor'.mail = actor.mail
        /\ late = NoLate
    BY <1>1, <1>7 DEF Inv, TypeInv, ActorTypes, LateInv
  <1>9. AllBelow(actor.env.cursor) /\ exec # "boot"
    BY <1>1 DEF Exact, Writers, Inv, Cursors
  <1> QED BY <1>1, <1>4, <1>6, <1>8, <1>9, MovesExact

\* A live actor publishes an event of the game.
LEMMA TickEventExact == ASSUME Inv, Exact, TickEvent PROVE Exact'
  <1>1. /\ actor.up /\ actor.live /\ ~handoff
        /\ UNCHANGED <<stream, decisions, ckpt, told, exec, scan, handoff, late>>
    BY DEF TickEvent, durable
  <1>2. IsEnvelope(actor.env) /\ actor.env.seq \in Nat
    BY DEF Inv, TypeInv, ActorTypes, IsEnvelope
  <1>3. PICK e : e = [actor.env EXCEPT !.seq = @ + 1] OBVIOUS
  <1>4. e.seq = actor.env.seq + 1 /\ e.cursor = actor.env.cursor /\ Alike(actor.env, e)
    BY <1>2, <1>3 DEF IsEnvelope, Alike
  <1>5. actor' = [actor EXCEPT !.env = e] BY <1>3 DEF TickEvent, Inv, TypeInv, ActorTypes
  <1>6. /\ actor'.up = actor.up /\ actor'.live = actor.live /\ actor'.task = actor.task
        /\ actor'.env = e /\ actor'.pending = actor.pending /\ actor'.mail = actor.mail
        /\ late = NoLate
    BY <1>1, <1>5 DEF Inv, TypeInv, ActorTypes, LateInv
  <1>7. AllBelow(actor.env.cursor) /\ exec # "boot"
    BY <1>1 DEF Exact, Writers, Inv, Cursors
  <1>8. actor'.env.seq \in Nat /\ actor'.env.seq >= actor.env.seq BY <1>2, <1>4, <1>6
  <1> QED BY <1>1, <1>4, <1>6, <1>7, <1>8, MovesExact

\* The interval begins a checkpoint.
LEMMA StartCheckpointExact == ASSUME Inv, Exact, StartCheckpoint PROVE Exact'
  <1>1. /\ actor.up /\ actor.live /\ actor.task = "idle" /\ ~handoff
        /\ UNCHANGED <<stream, decisions, ckpt, told, exec, scan, handoff, late>>
        /\ actor' = [actor EXCEPT !.task = "periodic"]
    BY DEF StartCheckpoint, durable, history
  <1>2. /\ actor'.up = actor.up /\ actor'.live = actor.live /\ actor'.task = "periodic"
        /\ actor'.env = actor.env /\ actor'.pending = actor.pending
        /\ actor'.mail = actor.mail /\ late = NoLate
    BY <1>1 DEF Inv, TypeInv, ActorTypes, LateInv
  <1>3. AllBelow(actor.env.cursor) /\ exec # "boot"
    BY <1>1 DEF Exact, Writers, Inv, Cursors
  <1>4. actor.env.seq \in Nat /\ actor.env.seq >= actor.env.seq BY CheckpointCursor
  <1>5. Alike(actor.env, actor'.env) BY <1>2 DEF Alike
  <1> QED BY <1>1, <1>2, <1>3, <1>4, <1>5, MovesExact

\* A snapshot is published, or dropped with its sequence.
LEMMA SnapshotExact == ASSUME Inv, Exact, PublishSnapshot \/ DropSnapshot PROVE Exact'
  <1>1. /\ actor.up /\ actor.task = "snapshot"
        /\ UNCHANGED <<stream, decisions, ckpt, told, exec, scan, handoff, late>>
    BY DEF PublishSnapshot, DropSnapshot, durable
  <1>2. IsEnvelope(actor.env) /\ actor.env.seq \in Nat
    BY DEF Inv, TypeInv, ActorTypes, IsEnvelope
  <1>3. PICK e : e = [actor.env EXCEPT !.seq = @ + 1] OBVIOUS
  <1>4. e.seq = actor.env.seq + 1 /\ e.cursor = actor.env.cursor /\ Alike(actor.env, e)
    BY <1>2, <1>3 DEF IsEnvelope, Alike
  <1>5. /\ actor'.up = actor.up /\ actor'.task = "idle" /\ actor'.env = e
        /\ actor'.pending = actor.pending /\ actor'.mail = actor.mail
    <2>1. CASE PublishSnapshot
      <3>1. actor' = [actor EXCEPT !.env = e, !.task = "idle", !.live = TRUE]
        BY <1>3, <2>1 DEF PublishSnapshot, Inv, TypeInv, ActorTypes
      <3> QED BY <3>1 DEF Inv, TypeInv, ActorTypes
    <2>2. CASE DropSnapshot
      <3>1. actor' = [actor EXCEPT !.env = e, !.task = "idle"]
        BY <1>3, <2>2 DEF DropSnapshot, Inv, TypeInv, ActorTypes
      <3> QED BY <3>1 DEF Inv, TypeInv, ActorTypes
    <2> QED BY <2>1, <2>2
  <1>6. AllBelow(actor.env.cursor) /\ exec # "boot"
    BY <1>1 DEF Exact, Writers, Inv, Cursors
  <1>7. actor'.env.seq \in Nat /\ actor'.env.seq >= actor.env.seq BY <1>2, <1>4, <1>5
  <1>8. late = NoLate BY <1>1 DEF Inv, LateInv
  <1> QED BY <1>1, <1>4, <1>5, <1>6, <1>7, <1>8, MovesExact

\* The handoff drops a checkpoint, whose script may be on its way.
LEMMA DropCheckpointExact == ASSUME Inv, Exact, DropCheckpoint PROVE Exact'
  <1>1. /\ handoff /\ actor.up /\ actor.task \in {"activate", "refresh", "periodic"}
        /\ actor' = [actor EXCEPT !.task = "idle"]
        /\ UNCHANGED <<stream, decisions, ckpt, told, exec, scan, handoff>>
        /\ late' \in {NoLate, [env |-> actor.env, covered |-> actor.pending]}
    BY DEF DropCheckpoint, durable, history
  <1>2. /\ actor'.up = actor.up /\ actor'.live = actor.live /\ actor'.task = "idle"
        /\ actor'.env = actor.env /\ actor'.pending = actor.pending
        /\ actor'.mail = actor.mail
    BY <1>1 DEF Inv, TypeInv, ActorTypes
  <1>3. AllBelow(actor.env.cursor) /\ exec # "boot"
    BY <1>1 DEF Exact, Writers, Inv, Cursors
  <1>4. \/ late' = NoLate
        \/ late'.env = actor.env /\ late'.covered = actor.pending
    BY <1>1
  <1>5. actor.env.seq \in Nat /\ actor.env.seq >= actor.env.seq BY CheckpointCursor
  <1>6. Alike(actor.env, actor'.env) BY <1>2 DEF Alike
  <1>7. late = NoLate /\ (Serving => actor.task # "refresh")
    BY <1>1 DEF Inv, LateInv, Cursors, Serving
  <1> QED BY <1>1, <1>2, <1>3, <1>4, <1>5, <1>6, <1>7, MovesExact

-----------------------------------------------------------------------------
(* Checkpoints.                                                            *)

\* A saved envelope is the whole path: it keeps all that was told, and every
\* decision it holds is acknowledged with it.
LEMMA SavedPath ==
    ASSUME NEW env, NEW covered, SaveCheckpoint(env, covered), told' = told,
           DOMAIN decisions \subseteq covered, IsEnvelope(env), Sound(env), Keeps(env, told)
    PROVE  /\ ckpt' = env /\ DOMAIN decisions' = {}
           /\ \E P : IsPath(P)' /\ PathSound(P)' /\ \A i \in Nat : P[i] = env
  <1>1. ckpt' = env /\ ckpt' # NoCkpt BY NothingYet DEF SaveCheckpoint
  <1>2. DOMAIN decisions' = {} BY DEF SaveCheckpoint, AckAndForget, Restrict
  <1>3. PICK P : P = [i \in Nat |-> env] OBVIOUS
  <1>4. \A i \in Nat : P[i] = env BY <1>3
  <1>5. \A i \in Nat : i # 0 => i - 1 \in Nat OBVIOUS
  <1>6. IsPath(P)' BY <1>1, <1>2, <1>4, <1>5 DEF IsPath
  <1>7. PathSound(P)' BY <1>2, <1>4 DEF PathSound
  <1> QED BY <1>1, <1>2, <1>4, <1>6, <1>7

\* checkpoint_and_ack_fenced, by an actor that has replayed the journal.
LEMMA CheckpointExact == ASSUME Inv, Inv', Exact, Checkpoint PROVE Exact'
  <1>1. /\ actor.up /\ actor.task \in {"activate", "refresh", "periodic"}
        /\ SaveCheckpoint(actor.env, actor.pending)
        /\ UNCHANGED <<stream, exec, scan, handoff, late, told>>
    BY DEF Checkpoint, history, SaveCheckpoint
  <1>2. PICK next \in {"idle", "snapshot"} :
            actor' = [actor EXCEPT !.pending = {}, !.task = next]
    BY DEF Checkpoint
  <1>3. /\ actor'.up = actor.up /\ actor'.live = actor.live /\ actor'.task = next
        /\ actor'.env = actor.env /\ actor'.pending = {}
    BY <1>2 DEF Inv, TypeInv, ActorTypes
  <1>4. late = NoLate BY <1>1 DEF Inv, LateInv
  <1>5. AllBelow(actor.env.cursor) /\ exec # "boot"
    BY <1>1 DEF Exact, Writers, Inv, Cursors
  <1>6. DOMAIN decisions \subseteq actor.pending BY <1>1, <1>5 DEF Exact, Gapless, AllBelow
  <1>7. IsEnvelope(actor.env) /\ Sound(actor.env) /\ Keeps(actor.env, told)
    BY <1>1, <1>5 DEF Exact, Envelopes, Inv, TypeInv, ActorTypes
  <1>8. ckpt' = actor.env /\ DOMAIN decisions' = {} BY <1>1, <1>6, <1>7, SavedPath
  <1>9. actor.env.cursor \in Nat /\ actor.env.seq \in Nat BY CheckpointCursor
  <1>10. CommandsOnly' BY <1>1, <1>3, <1>4, <1>8 DEF Exact, CommandsOnly
  <1>11. Gapless' BY <1>1, <1>4, <1>8 DEF Gapless
  <1>12. Writers' BY <1>1, <1>3, <1>5, <1>8, <1>9 DEF Exact, Writers, AllBelow
  <1>13. Envelopes' BY <1>1, <1>3, <1>4, <1>7 DEF Envelopes
  <1>14. OnPath'
    <2>1. PICK P : IsPath(P)' /\ PathSound(P)' /\ \A i \in Nat : P[i] = actor.env
      BY <1>1, <1>6, <1>7, SavedPath
    <2>2. PathActor(P)' BY <1>3, <1>8, <1>9, <2>1 DEF PathActor, Alike, AllBelow
    <2> QED BY <2>1, <2>2 DEF OnPath
  <1>15. LateEnvelope' BY <1>1, <1>4 DEF LateEnvelope
  <1> QED BY <1>10, <1>11, <1>12, <1>13, <1>14, <1>15 DEF Exact

\* A saved envelope that is one decision behind: the path is that decision.
LEMMA BehindPath ==
    ASSUME NEW env, NEW id, NEW d, NEW h, IsEnvelope(env), Sound(env), id = env.cursor + 1,
           ckpt' = env, DOMAIN decisions' = {id}, decisions'[id] = d,
           ~ReplayBails(env, d), h = Replayed(env, d), IsEnvelope(h), Sound(h),
           Keeps(h, told')
    PROVE  \E P : /\ IsPath(P)' /\ PathSound(P)'
                 /\ \A i \in Nat : id <= i => P[i] = h
  <1>1. id \in Nat /\ id # 0 /\ env.cursor = id - 1 /\ env # NoCkpt
    BY NothingYet DEF IsEnvelope
  <1>2. PICK P : P = [i \in Nat |-> IF i < id THEN env ELSE h] OBVIOUS
  <1>3. \A i \in Nat : P[i] = IF i < id THEN env ELSE h BY <1>2
  <1> HIDE <1>2
  <1>4. \A i \in Nat : id <= i => P[i] = h BY <1>1, <1>3
  <1>5. P[id - 1] = env BY <1>1, <1>3
  <1>6. IsPath(P)'
    <2> SUFFICES ASSUME NEW i \in Nat
                 PROVE  P[i] = IF i = 0 \/ i <= ckpt'.cursor
                               THEN IF ckpt' = NoCkpt THEN NewEnvelope ELSE ckpt'
                               ELSE IF i \in DOMAIN decisions'
                                    THEN Replayed(P[i - 1], decisions'[i])
                               ELSE P[i - 1]
      BY DEF IsPath
    <2>1. CASE i < id BY <1>1, <1>3, <2>1
    <2>2. CASE i = id
      <3>1. i # 0 /\ ~(i <= ckpt'.cursor) BY <1>1, <2>2
      <3> QED BY <1>1, <1>4, <1>5, <2>2, <3>1
    <2>3. CASE i > id
      <3>1. i # 0 /\ ~(i <= ckpt'.cursor) /\ i # id BY <1>1, <2>3
      <3>2. P[i] = h /\ P[i - 1] = h BY <1>1, <1>4, <2>3
      <3> QED BY <3>1, <3>2
    <2> QED BY <1>1, <2>1, <2>2, <2>3
  <1>7. PathSound(P)'
    <2>1. \A i \in Nat : IsEnvelope(P[i]) /\ Sound(P[i]) BY <1>3
    <2>2. \A i \in Nat : AllBelow(i)' => Keeps(P[i], told') BY <1>4 DEF AllBelow
    <2> QED BY <1>5, <2>1, <2>2 DEF PathSound
  <1> QED BY <1>4, <1>6, <1>7

\* A dropped script saves what its actor still is or what it left, or all but the
\* one decision taken since.
LEMMA LateCheckpointExact == ASSUME Inv, Inv', Exact, LateCheckpoint PROVE Exact'
  <1>1. /\ late # NoLate /\ SaveCheckpoint(late.env, late.covered) /\ late' = NoLate
        /\ UNCHANGED <<stream, exec, scan, handoff, actor, told>>
    BY DEF LateCheckpoint, history, SaveCheckpoint
  <1>2. PICK c \in Nat : c = late.env.cursor
    BY <1>1 DEF Inv, TypeInv, CheckpointTypes, IsEnvelope
  <1>3. /\ handoff /\ exec # "boot" /\ (actor.up => actor.task = "idle")
        /\ IsEnvelope(late.env) /\ Sound(late.env) /\ late.covered \subseteq 1 .. c
        /\ actor.mail => c = actor.env.cursor
        /\ actor.up => AllBelow(actor.env.cursor)
        /\ \A i \in DOMAIN decisions : i \in Nat /\ i >= 1
    BY <1>1, <1>2, Positions
    DEF Inv, LateInv, TypeInv, CheckpointTypes, StreamTypes, Exact, LateEnvelope
  <1>4. /\ ckpt' = late.env /\ DOMAIN decisions' = DOMAIN decisions \ late.covered
        /\ \A i \in DOMAIN decisions' : decisions'[i] = decisions[i]
    BY <1>1 DEF SaveCheckpoint, AckAndForget, Restrict
  <1>5. \A i \in DOMAIN decisions' : i \in DOMAIN decisions /\ i > c
    BY <1>1, <1>2, <1>3, <1>4 DEF Exact, Gapless
  <1>6. ckpt' # NoCkpt /\ ckpt'.cursor = c /\ actor.env.cursor \in Nat /\ actor.env.seq \in Nat
    BY <1>2, <1>3, <1>4, NothingYet, CheckpointCursor
  <1>7. CommandsOnly' BY <1>1, <1>4 DEF Exact, CommandsOnly
  <1>8. Envelopes' BY <1>1, <1>3 DEF Exact, Envelopes
  <1>9. LateEnvelope' BY <1>1 DEF LateEnvelope
  <1>10. /\ actor.up => AllBelow(actor.env.cursor)'
         /\ actor.up => \A i \in DOMAIN decisions' :
                            i <= actor.env.cursor => i \in actor.pending
    BY <1>1, <1>3, <1>5 DEF AllBelow, Exact, Gapless
  <1>11. Writers'
    <2>1. actor.mail => \A j \in c + 1 .. actor.env.cursor : FALSE BY <1>2, <1>3
    <2> QED BY <1>1, <1>3, <1>6, <1>10, <2>1 DEF Writers, Serving
  <1>12. CASE LateWhole(late.env)
    <2>1. DOMAIN decisions' = {} /\ Keeps(late.env, told)
      <3>1. Keeps(late.env, told) /\ \A i \in DOMAIN decisions : i <= c
        BY <1>2, <1>12 DEF LateWhole, AllBelow
      <3>2. \A i \in DOMAIN decisions' : FALSE BY <1>3, <1>5, <3>1
      <3> QED BY <3>1, <3>2
    <2>2. Gapless' BY <1>1, <2>1 DEF Gapless
    <2>3. DOMAIN decisions \subseteq late.covered BY <1>4, <2>1
    <2>4. PICK P : IsPath(P)' /\ PathSound(P)' /\ \A i \in Nat : P[i] = late.env
      BY <1>1, <1>3, <2>1, <2>3, SavedPath
    <2>5. PathActor(P)' BY <1>1, <1>3, <1>12, <2>4 DEF PathActor, LateWhole
    <2>6. OnPath' BY <2>4, <2>5 DEF OnPath
    <2> QED BY <1>7, <1>8, <1>9, <1>11, <2>2, <2>6 DEF Exact
  <1>13. CASE \E id : LateBehind(late.env, id)
    <2>1. PICK id : LateBehind(late.env, id) BY <1>13
    <2>2. PICK d, h : d = decisions[id] /\ h = Replayed(late.env, d) OBVIOUS
    <2>3. /\ id \in DOMAIN decisions /\ id = c + 1 /\ AllBelow(id)
          /\ ~ReplayBails(late.env, d) /\ Sound(h) /\ Keeps(h, told)
          /\ actor.live => Alike(h, actor.env) /\ d.seq <= actor.env.seq
      BY <1>2, <2>1, <2>2 DEF LateBehind
    <2>4. DOMAIN decisions' = {id} /\ decisions'[id] = d
      <3>1. id \notin late.covered BY <1>2, <1>3, <2>3
      <3>2. \A i \in DOMAIN decisions' : i = id BY <1>2, <1>3, <1>5, <2>3 DEF AllBelow
      <3> QED BY <1>4, <2>2, <2>3, <3>1, <3>2
    <2>5. IsEnvelope(h) /\ h.seq = d.seq
      <3>1. DOMAIN late.env = Fields BY <1>3 DEF IsEnvelope, Fields
      <3>2. DOMAIN h = Fields /\ h.seq = d.seq /\ h.cursor = late.env.cursor
        BY <2>2, <3>1 DEF Replayed, Fields
      <3>3. d.seq \in Nat BY <2>2, <2>3 DEF Inv, TypeInv, StreamTypes
      <3> QED BY <1>3, <3>2, <3>3 DEF IsEnvelope, Fields
    <2>6. Gapless'
      <3>1. id > c /\ \A j \in c + 1 .. id : j = id BY <1>2, <2>3
      <3> QED BY <1>1, <1>6, <1>10, <2>4, <3>1 DEF Gapless
    <2>7. PICK P : /\ IsPath(P)' /\ PathSound(P)'
                   /\ \A i \in Nat : id <= i => P[i] = h
      BY <1>1, <1>2, <1>3, <1>4, <2>2, <2>3, <2>4, <2>5, BehindPath
    <2>8. \A i : AllBelow(i)' => id <= i BY <2>4 DEF AllBelow
    <2>9. PathActor(P)' BY <1>1, <1>3, <2>3, <2>5, <2>7, <2>8 DEF PathActor
    <2>10. OnPath' BY <2>7, <2>9 DEF OnPath
    <2> QED BY <1>7, <1>8, <1>9, <1>11, <2>6, <2>10 DEF Exact
  <1> QED BY <1>1, <1>12, <1>13 DEF Exact, LateEnvelope

-----------------------------------------------------------------------------
(* Dispatch.                                                               *)

\* The next delivery is the entry after the actor's cursor: none was skipped.
LEMMA NextEntry ==
    ASSUME Inv, Exact, Undispatched # {}, actor.up, NextId > actor.env.cursor,
           exec = "boot" \/ Serving
    PROVE  NextId = actor.env.cursor + 1 /\ stream[NextId] \in ClientSequences
  <1>0. PICK id : id = NextId OBVIOUS
  <1>1. id \in pel /\ id > scan /\ id \in Nat /\ id >= 1 /\ id <= delivered
    BY <1>0, NextDelivery
  <1>2. \A j \in pel : j > scan => id <= j BY <1>0, NextDelivery
  <1>3. /\ Len(stream) \in Nat /\ delivered \in Nat /\ delivered <= Len(stream)
        /\ scan \in Nat /\ actor.env.cursor \in Nat /\ ckpt.cursor \in Int
    BY Positions, CheckpointCursor DEF Inv
  <1>4. scan <= actor.env.cursor /\ ckpt.cursor <= actor.env.cursor /\ actor.env.cursor >= 1
    BY DEF Exact, CommandsOnly, Inv, Cursors
  <1>5. id = actor.env.cursor + 1
    <2> SUFFICES ASSUME id # actor.env.cursor + 1 PROVE FALSE OBVIOUS
    <2>1. PICK j \in Nat : j = actor.env.cursor + 1 BY <1>3
    <2>2. j < id /\ j > ckpt.cursor /\ j \in 1 .. Len(stream) /\ ~(j > delivered) /\ j > scan
      BY <1>0, <1>1, <1>3, <1>4, <2>1
    <2>3. j \in pel BY <2>2 DEF Inv, NothingLost
    <2> QED BY <1>1, <1>2, <2>2, <2>3
  <1>6. id \in 2 .. Len(stream) BY <1>1, <1>3, <1>4, <1>5
  <1> QED BY <1>0, <1>5, <1>6 DEF Exact, CommandsOnly

\* The actor after a delivery.
LEMMA TakenIn ==
    ASSUME Inv, NEW id, NEW env, IsEnvelope(env), NEW task, Incorporated(id, env, task)
    PROVE  /\ actor'.up = actor.up /\ actor'.live = actor.live /\ actor'.task = task
           /\ actor'.pending = actor.pending \cup {id} /\ actor'.env.cursor = id
           /\ actor'.env.seq = env.seq /\ Alike(env, actor'.env)
           /\ DOMAIN actor'.env = Fields /\ actor'.mail = FALSE
           /\ scan' = id /\ UNCHANGED <<stream, ckpt, exec, handoff, late>>
  <1>1. PICK e : e = [env EXCEPT !.cursor = id] OBVIOUS
  <1>2. e.cursor = id /\ e.seq = env.seq /\ Alike(env, e) /\ DOMAIN e = Fields
    BY <1>1 DEF IsEnvelope, Alike, Fields
  <1>3. actor' = [actor EXCEPT !.env = e, !.pending = actor.pending \cup {id}, !.task = task,
                               !.mail = FALSE]
    BY <1>1 DEF Incorporated, Inv, TypeInv, ActorTypes
  <1>4. /\ actor'.up = actor.up /\ actor'.live = actor.live /\ actor'.task = task
        /\ actor'.env = e /\ actor'.pending = actor.pending \cup {id}
        /\ actor'.mail = FALSE
    BY <1>3 DEF Inv, TypeInv, ActorTypes
  <1> QED BY <1>2, <1>4 DEF Incorporated

\* A duplicate has no decision: those are beyond the checkpoint.
LEMMA AckDuplicateExact ==
    ASSUME Inv, Exact, Undispatched # {}, ~handoff, AckDuplicate(NextId)
    PROVE  Exact'
  <1>0. PICK id : id = NextId OBVIOUS
  <1>1. id \in pel /\ id > scan /\ id \in Nat BY <1>0, NextDelivery
  <1>2. /\ actor.up /\ id <= actor.env.cursor /\ scan' = id /\ AckAndForget({id})
        /\ UNCHANGED <<stream, ckpt, exec, handoff, actor, late, told>>
    BY <1>0 DEF AckDuplicate, history
  <1>3. scan \in Nat /\ actor.env.cursor \in Nat /\ ckpt.cursor \in Int
    BY Positions, CheckpointCursor DEF Inv
  <1>4. id <= ckpt.cursor
    <2>1. actor.env.cursor > scan BY <1>1, <1>2, <1>3
    <2>2. actor.env.cursor <= ckpt.cursor BY <1>2, <2>1 DEF Inv, Cursors
    <2> QED BY <1>1, <1>2, <1>3, <2>2
  <1>5. id \notin DOMAIN decisions BY <1>1, <1>3, <1>4 DEF Exact, Gapless
  <1>6. SameJournal BY <1>2, <1>5 DEF SameJournal, AckAndForget, Restrict
  <1>7. Writers'
    <2>1. \A i : AllBelow(i)' <=> AllBelow(i) BY <1>6 DEF AllBelow, SameJournal
    <2>2. DOMAIN decisions' = DOMAIN decisions BY <1>6 DEF SameJournal
    <2> QED BY <1>2, <2>1, <2>2 DEF Exact, Writers, Serving
  <1> QED BY <1>2, <1>6, <1>7, QuietExact DEF Exact, CommandsOnly

\* A game is created when nothing of it was saved or told.
LEMMA CreateExact ==
    ASSUME Inv, Exact, ~handoff, exec \in {"boot", "run"}, Undispatched # {}, Create(NextId)
    PROVE  Exact'
  <1>0. PICK id : id = NextId OBVIOUS
  <1>1. id \in Nat /\ id >= 1 BY <1>0, NextDelivery
  <1>2. /\ ~actor.up /\ scan' = id
        /\ UNCHANGED <<stream, decisions, ckpt, told, exec, handoff, late>>
    BY <1>0 DEF Create, durable, history
  <1>3. PICK env : env = [NewEnvelope EXCEPT !.cursor = id] OBVIOUS
  <1>4. env.cursor = id /\ Alike(NewEnvelope, env) BY <1>3 DEF NewEnvelope, Alike
  <1>5. actor' = [Actor(env, 0) EXCEPT !.pending = {id}] BY <1>0, <1>3 DEF Create
  <1>6. /\ actor'.up = TRUE /\ actor'.live = FALSE /\ actor'.task = "idle"
        /\ actor'.env = env
    BY <1>5 DEF Actor
  <1>7. ckpt = NoCkpt BY <1>2 DEF Inv, Cursors
  <1>8. late = NoLate BY <1>2 DEF Inv, LateInv
  <1>9. DOMAIN decisions = {} BY <1>7 DEF Exact, Gapless
  <1>10. Keeps(env, told) /\ Sound(env)
    <2>1. PICK P : IsPath(P) /\ PathSound(P) BY DEF Exact, OnPath
    <2>2. P[0] = NewEnvelope BY <1>7, <2>1 DEF IsPath
    <2>3. Keeps(NewEnvelope, told) BY <1>9, <2>1, <2>2 DEF PathSound, AllBelow
    <2> QED BY <1>4, <2>3, NewSound, AlikeSound
  <1>11. CommandsOnly' BY <1>1, <1>2, <1>4, <1>6, <1>8 DEF Exact, CommandsOnly
  <1>12. Gapless' BY <1>2, <1>8, <1>9 DEF Gapless
  <1>13. Writers' BY <1>1, <1>2, <1>4, <1>6, <1>9 DEF Writers, AllBelow
  <1>14. Envelopes' BY <1>2, <1>6, <1>8, <1>10 DEF Envelopes
  <1>15. OnPath'
    <2>1. \A P : PathActor(P)' BY <1>2, <1>6, <1>9 DEF PathActor, AllBelow
    <2>2. SameJournal BY <1>2 DEF SameJournal
    <2> QED BY <1>2, <2>1, <2>2, SamePath DEF Exact
  <1>16. LateEnvelope' BY <1>2, <1>8 DEF LateEnvelope
  <1> QED BY <1>11, <1>12, <1>13, <1>14, <1>15, <1>16 DEF Exact

\* The entry an actor takes in when it is the dispatcher's turn.
Taking(id) == Dispatching(id) /\ id = actor.env.cursor + 1 /\ stream[id] \in ClientSequences

\* A recorded decision takes the actor one entry along the path.
LEMMA ReplayExact ==
    ASSUME Inv, Exact, NEW id, Taking(id), exec = "boot", id \in DOMAIN decisions, Replay(id)
    PROVE  Exact'
  <1>1. PICK d, e : d = decisions[id] /\ e = Replayed(actor.env, d) OBVIOUS
  <1>2. /\ d.seq \in Nat /\ IsEnvelope(actor.env) /\ DOMAIN actor.env = Fields
        /\ actor.env.cursor \in Nat /\ ckpt.cursor \in Int
        /\ ckpt.cursor <= actor.env.cursor /\ id \in Nat /\ id # 0 /\ id - 1 = actor.env.cursor
        /\ actor.up /\ late = NoLate
    BY <1>1, CheckpointCursor
    DEF Inv, TypeInv, StreamTypes, ActorTypes, IsEnvelope, Fields, Taking, Dispatching, Cursors,
        LateInv
  <1>3. e.cursor = actor.env.cursor /\ e.seq = d.seq /\ DOMAIN e = Fields
    BY <1>1, <1>2 DEF Replayed, Fields
  <1>4. IsEnvelope(e) BY <1>2, <1>3 DEF IsEnvelope, Fields
  <1>5. Incorporated(id, e, "idle") /\ UNCHANGED <<decisions, told>> BY <1>1 DEF Replay
  <1>6. /\ actor'.up = actor.up /\ actor'.live = actor.live /\ actor'.task = "idle"
        /\ actor'.pending = actor.pending \cup {id} /\ actor'.env.cursor = id
        /\ actor'.env.seq = e.seq /\ Alike(e, actor'.env)
        /\ scan' = id /\ UNCHANGED <<stream, ckpt, exec, handoff, late>>
    BY <1>4, <1>5, TakenIn
  <1>7. ~actor.live /\ ~AllBelow(actor.env.cursor)
    BY <1>2 DEF Inv, Cursors, AllBelow
  <1>8. \A i : AllBelow(i)' <=> AllBelow(i) BY <1>5 DEF AllBelow
  <1>9. ASSUME NEW P, IsPath(P), PathSound(P), PathActor(P)
        PROVE  /\ Alike(P[id], actor'.env) /\ P[id].seq = actor'.env.seq
               /\ Sound(P[id]) /\ (AllBelow(id) => Keeps(P[id], told))
    <2>1. Alike(P[id - 1], actor.env) /\ P[id - 1].seq = actor.env.seq
      BY <1>2, <1>7, <1>9 DEF PathActor
    <2>2. P[id] = Replayed(P[id - 1], d) BY <1>1, <1>2, <1>9 DEF IsPath
    <2>3. DOMAIN P[id - 1] = Fields BY <1>2, <1>9 DEF PathSound, IsEnvelope, Fields
    <2>4. Alike(P[id], e) /\ P[id].seq = e.seq
      BY <1>1, <1>2, <2>1, <2>2, <2>3, AlikeReplays
    <2>5. Alike(P[id], actor'.env) BY <1>6, <2>4 DEF Alike
    <2> QED BY <1>2, <1>6, <1>9, <2>4, <2>5 DEF PathSound
  <1>10. CommandsOnly' BY <1>2, <1>5, <1>6 DEF Exact, CommandsOnly
  <1>11. Gapless'
    <2>1. \A i \in DOMAIN decisions : i \in Nat BY Positions DEF Inv, TypeInv, StreamTypes
    <2>2. \A i \in DOMAIN decisions : i <= id => i <= actor.env.cursor \/ i = id
      BY <1>2, <2>1
    <2> QED BY <1>2, <1>5, <1>6, <2>2 DEF Exact, Gapless
  <1>12. Writers' BY <1>2, <1>6, <1>7 DEF Writers
  <1>13. Envelopes'
    <2>1. PICK P : IsPath(P) /\ PathSound(P) /\ PathActor(P) BY DEF Exact, OnPath
    <2>2. Alike(P[id], actor'.env) /\ Sound(P[id]) /\ (AllBelow(id) => Keeps(P[id], told))
      BY <1>9, <2>1
    <2> QED BY <1>2, <1>5, <1>6, <1>8, <2>2, AlikeSound DEF Envelopes
  <1>14. OnPath'
    <2>1. ASSUME NEW P, IsPath(P), PathSound(P), PathActor(P) PROVE PathActor(P)'
      <3>1. Alike(P[id], actor'.env) /\ P[id].seq = actor'.env.seq BY <1>9, <2>1
      <3> QED BY <1>6, <1>7, <3>1 DEF PathActor
    <2>2. SameJournal BY <1>5 DEF SameJournal
    <2> QED BY <1>5, <1>6, <2>1, <2>2, SamePath DEF Exact
  <1>15. LateEnvelope' BY <1>2, <1>6 DEF LateEnvelope
  <1> QED BY <1>10, <1>11, <1>12, <1>13, <1>14, <1>15 DEF Exact

\* An entry is taken in that the journal does not decide: by an actor that
\* replays it again, by a live one that asks for a fresh checkpoint, or by one that
\* hands over and asks for none.
LEMMA UnjournalledExact ==
    ASSUME Inv, Exact, NEW id, Taking(id), NEW env, IsEnvelope(env), NEW task,
           Incorporated(id, env, task), UNCHANGED <<decisions, told>>,
           Sound(env), Keeps(env, told), AllBelow(actor.env.cursor),
           \/ exec = "boot" /\ task = "idle"
           \/ /\ actor.live /\ (task = "refresh" \/ (task = "idle" /\ handoff))
              /\ Alike(actor.env, env) /\ env.seq = actor.env.seq
    PROVE  Exact'
  <1>1. /\ actor'.up = actor.up /\ actor'.live = actor.live /\ actor'.task = task
        /\ actor'.pending = actor.pending \cup {id} /\ actor'.env.cursor = id
        /\ actor'.env.seq = env.seq /\ Alike(env, actor'.env) /\ actor'.mail = FALSE
        /\ scan' = id /\ UNCHANGED <<stream, ckpt, exec, handoff, late>>
    BY TakenIn
  <1>2. /\ actor.env.cursor \in Nat /\ id \in Nat /\ id >= 1 /\ id = actor.env.cursor + 1
        /\ actor.up /\ Serving /\ (exec = "boot" => late = NoLate)
    BY CheckpointCursor DEF Inv, Taking, Dispatching, LateInv
  <1>3. exec = "boot" => ~actor.live BY <1>2 DEF Inv, Cursors
  <1>4. \A i : AllBelow(i)' <=> AllBelow(i) BY DEF AllBelow
  <1>5. \A i \in DOMAIN decisions : i \in Nat BY Positions DEF Inv, TypeInv, StreamTypes
  <1>6. AllBelow(id) BY <1>2, <1>5 DEF AllBelow
  <1>7. CommandsOnly' BY <1>1, <1>2 DEF Exact, CommandsOnly
  <1>8. Gapless' BY <1>1, <1>2 DEF Exact, Gapless, AllBelow
  <1>9. Writers' BY <1>1, <1>2, <1>3, <1>4, <1>6 DEF Writers, Serving
  <1>10. Envelopes' BY <1>1, <1>2, AlikeSound DEF Envelopes
  <1>11. OnPath'
    <2>1. ASSUME NEW P, PathActor(P) PROVE PathActor(P)'
      <3>1. CASE exec = "boot" BY <1>1, <1>3, <1>4, <1>6, <3>1 DEF PathActor
      <3>2. CASE actor.live /\ Alike(actor.env, env) /\ env.seq = actor.env.seq
        <4>1. Alike(actor.env, actor'.env) /\ actor'.env.seq = actor.env.seq
          BY <1>1, <3>2 DEF Alike
        <4> QED BY <1>1, <1>2, <1>4, <1>6, <2>1, <3>2, <4>1 DEF PathActor, Alike
      <3> QED BY <3>1, <3>2
    <2>2. SameJournal BY DEF SameJournal
    <2> QED BY <1>1, <2>1, <2>2, SamePath DEF Exact
  <1>12. LateEnvelope'
    <2> SUFFICES ASSUME late # NoLate PROVE LateEnvelope' BY <1>1 DEF LateEnvelope
    <2>1. actor.live /\ Alike(actor.env, env) /\ env.seq = actor.env.seq BY <1>2
    <2>2. Alike(actor.env, actor'.env) /\ actor'.env.seq = actor.env.seq
      BY <1>1, <2>1 DEF Alike
    <2>3. LateWhole(late.env) \/ \E i : LateBehind(late.env, i) BY DEF Exact, LateEnvelope
    <2>4. LateWhole(late.env) => LateWhole(late.env)'
      BY <1>1, <1>4, <2>2 DEF LateWhole, Alike
    <2>5. \A i : LateBehind(late.env, i) => LateBehind(late.env, i)'
      BY <1>1, <1>4, <2>2 DEF LateBehind, Alike
    <2> QED BY <1>1, <1>4, <1>6, <2>3, <2>4, <2>5 DEF Exact, LateEnvelope
  <1> QED BY <1>7, <1>8, <1>9, <1>10, <1>11, <1>12 DEF Exact

\* publish_command_decision_fenced: the path grows by the decision, to where the
\* live actor is.
LEMMA PublishExact ==
    ASSUME Inv, Exact, NEW id, Taking(id), actor.live, NEW env, IsEnvelope(env),
           env.seq = actor.env.seq, NEW o, NEW fence,
           Decides(actor.env, stream[id], o, fence, env),
           Publish(id, stream[id], o, fence, env)
    PROVE  Exact'
  <1>0. PICK n \in ClientSequences : n = stream[id] BY DEF Taking
  <1>1. /\ actor.env.cursor \in Nat /\ actor.env.seq \in Nat /\ ckpt.cursor \in Int
        /\ ckpt.cursor <= actor.env.cursor /\ id \in Nat /\ id >= 1 /\ id - 1 \in Nat
        /\ id = actor.env.cursor + 1
        /\ actor.up /\ Serving /\ ckpt # NoCkpt /\ actor.task = "idle"
    BY CheckpointCursor DEF Inv, Taking, Dispatching, Cursors, Visibility
  <1>2. /\ AllBelow(actor.env.cursor) /\ exec # "boot"
        /\ \A j \in ckpt.cursor + 1 .. actor.env.cursor : j \in DOMAIN decisions
    BY <1>1 DEF Exact, Writers, Inv, Cursors
  <1>3. PICK e : e = [env EXCEPT !.seq = @ + 1] OBVIOUS
  <1>4. IsEnvelope(e) /\ e.seq = env.seq + 1 /\ env.seq \in Nat /\ Alike(env, e)
    BY <1>3 DEF IsEnvelope, Alike
  <1>5. Incorporated(id, e, "idle") /\ told' = [told EXCEPT ![n] = @ \cup {o}]
    BY <1>0, <1>3 DEF Publish
  <1>6. /\ actor'.up = actor.up /\ actor'.live = actor.live /\ actor'.task = "idle"
        /\ actor'.pending = actor.pending \cup {id} /\ actor'.env.cursor = id
        /\ actor'.env.seq = e.seq /\ Alike(e, actor'.env) /\ actor'.mail = FALSE
        /\ scan' = id /\ UNCHANGED <<stream, ckpt, exec, handoff, late>>
    BY <1>4, <1>5, TakenIn
  <1>7. Alike(env, actor'.env) BY <1>4, <1>6 DEF Alike
  <1>8. PICK d : d = [n |-> n, o |-> o, fence |-> fence, seq |-> env.seq + 1,
                      counter |-> Len(env.ran)] OBVIOUS
  <1>9. /\ d.n = n /\ d.o = o /\ d.fence = fence /\ d.seq = env.seq + 1
        /\ d.counter = Len(env.ran)
    BY <1>8
  <1>10. decisions' = [i \in DOMAIN decisions \cup {id} |-> IF i # id THEN decisions[i] ELSE d]
    BY <1>0, <1>8 DEF Publish, Journalled
  <1> HIDE <1>8
  <1>11. \A i \in DOMAIN decisions : i \in Nat /\ i >= 1 /\ i < id
    <2>1. \A i \in DOMAIN decisions : i \in Nat /\ i >= 1
      BY Positions DEF Inv, TypeInv, StreamTypes
    <2> QED BY <1>1, <1>2, <2>1 DEF AllBelow
  <1>12. /\ DOMAIN decisions' = DOMAIN decisions \cup {id} /\ decisions'[id] = d
         /\ \A i \in DOMAIN decisions : decisions'[i] = decisions[i]
    <2>1. \A i \in DOMAIN decisions : i # id BY <1>1, <1>11
    <2> QED BY <1>10, <2>1
  <1>13. \A i \in Nat : AllBelow(i)' <=> id <= i
    BY <1>1, <1>11, <1>12 DEF AllBelow
  <1>14. Sound(env) /\ Keeps(env, told')
    <2>1. Sound(actor.env) /\ Keeps(actor.env, told) /\ DOMAIN told = ClientSequences
      BY <1>1, <1>2 DEF Exact, Envelopes, CommandsOnly
    <2> QED BY <1>0, <1>5, <2>1, DecidesKeeps
  <1>15. CommandsOnly' BY <1>1, <1>5, <1>6 DEF Exact, CommandsOnly
  <1>16. \A j \in ckpt.cursor + 1 .. id : j \in DOMAIN decisions'
    <2>1. \A j \in ckpt.cursor + 1 .. id : j \in ckpt.cursor + 1 .. actor.env.cursor \/ j = id
      BY <1>1
    <2> QED BY <1>2, <1>12, <2>1
  <1>17. Gapless'
    <2>1. id > ckpt.cursor BY <1>1
    <2>2. \A i \in DOMAIN decisions :
             /\ i > ckpt.cursor /\ i \in actor.pending
             /\ \A j \in ckpt.cursor + 1 .. i : j \in DOMAIN decisions
      BY <1>1, <1>2 DEF Exact, Gapless, AllBelow
    <2>3. late # NoLate => \A i \in DOMAIN decisions' :
                              i <= late.env.cursor => i \in late.covered
      <3> SUFFICES ASSUME late # NoLate PROVE ~(id <= late.env.cursor)
        BY <1>12 DEF Exact, Gapless
      <3>1. late.env.cursor \in Nat /\ late.env.cursor <= actor.env.cursor
        BY <1>1 DEF Inv, LateInv, TypeInv, CheckpointTypes, IsEnvelope
      <3> QED BY <1>1, <3>1
    <2> QED BY <1>1, <1>6, <1>12, <1>16, <2>1, <2>2, <2>3 DEF Gapless
  <1>18. Writers' BY <1>1, <1>2, <1>6, <1>13, <1>16 DEF Writers
  <1>19. Envelopes' BY <1>1, <1>6, <1>7, <1>14, AlikeSound DEF Envelopes
  <1>20. OnPath'
    <2>1. PICK P : IsPath(P) /\ PathSound(P) /\ PathActor(P) BY DEF Exact, OnPath
    <2>2. PICK g, h : g = P[id - 1] /\ h = Replayed(g, d) OBVIOUS
    <2>3. /\ IsEnvelope(g) /\ DOMAIN g = Fields /\ g.seq \in Nat
          /\ Alike(g, actor.env) /\ g.seq <= actor.env.seq
      BY <1>1, <1>2, <2>1, <2>2 DEF PathSound, PathActor, IsEnvelope, Fields
    <2>4. ~ReplayBails(g, d) /\ Alike(h, env)
      <3>1. Alike(actor.env, g) /\ Sound(actor.env) BY <2>3 DEF Alike, Exact, Envelopes
      <3>2. d.seq \in Nat /\ d.seq > g.seq BY <1>1, <1>4, <1>9, <2>3
      <3>3. Decides(actor.env, n, o, fence, env) BY <1>0
      <3> QED BY <1>9, <2>2, <2>3, <3>1, <3>2, <3>3, DecidesReplays
    <2>5. IsEnvelope(h) /\ h.seq = d.seq
      <3>1. DOMAIN h = Fields /\ h.seq = d.seq /\ h.cursor = g.cursor
        BY <2>2, <2>3 DEF Replayed, Fields
      <3> QED BY <1>4, <1>9, <2>3, <3>1 DEF IsEnvelope, Fields
    <2>6. Sound(h) /\ Keeps(h, told') BY <1>14, <2>4, AlikeSound
    <2>7. PICK Q : Q = [i \in Nat |-> IF i < id THEN P[i] ELSE h] OBVIOUS
    <2>8. \A i \in Nat : Q[i] = IF i < id THEN P[i] ELSE h BY <2>7
    <2> HIDE <2>7
    <2>9. IsPath(Q)'
      <3> SUFFICES ASSUME NEW i \in Nat
                   PROVE  Q[i] = IF i = 0 \/ i <= ckpt.cursor
                                 THEN IF ckpt = NoCkpt THEN NewEnvelope ELSE ckpt
                                 ELSE IF i \in DOMAIN decisions'
                                      THEN Replayed(Q[i - 1], decisions'[i])
                                 ELSE Q[i - 1]
        BY <1>6 DEF IsPath
      <3>1. CASE i < id
        <4>1. i # 0 => i - 1 \in Nat /\ i - 1 < id BY <1>1, <3>1
        <4>2. Q[i] = P[i] /\ (i # 0 => Q[i - 1] = P[i - 1]) BY <2>8, <3>1, <4>1
        <4>3. i # id BY <1>1, <3>1
        <4> QED BY <1>12, <2>1, <4>2, <4>3 DEF IsPath
      <3>2. CASE i = id
        <4>1. Q[i] = h /\ Q[i - 1] = g BY <1>1, <2>2, <2>8, <3>2
        <4>2. i # 0 /\ ~(i <= ckpt.cursor) BY <1>1, <3>2
        <4> QED BY <1>12, <2>2, <3>2, <4>1, <4>2
      <3>3. CASE i > id
        <4>1. Q[i] = h /\ Q[i - 1] = h BY <1>1, <2>8, <3>3
        <4>2. i # 0 /\ ~(i <= ckpt.cursor) BY <1>1, <3>3
        <4>3. i \notin DOMAIN decisions' BY <1>1, <1>11, <1>12, <3>3
        <4> QED BY <4>1, <4>2, <4>3
      <3> QED BY <1>1, <3>1, <3>2, <3>3
    <2>10. PathSound(Q)'
      <3>1. \A i \in Nat : IsEnvelope(Q[i]) /\ Sound(Q[i])
        BY <2>1, <2>5, <2>6, <2>8 DEF PathSound
      <3>2. ASSUME NEW i \in DOMAIN decisions' PROVE ~ReplayBails(Q[i - 1], decisions'[i])
        <4>1. CASE i = id
          <5>1. Q[i - 1] = g BY <1>1, <2>2, <2>8, <4>1
          <5> QED BY <1>12, <2>4, <4>1, <5>1
        <4>2. CASE i \in DOMAIN decisions
          <5>1. i - 1 \in Nat /\ i - 1 < id BY <1>1, <1>11, <4>2
          <5>2. Q[i - 1] = P[i - 1] BY <2>8, <5>1
          <5> QED BY <1>12, <2>1, <4>2, <5>2 DEF PathSound
        <4> QED BY <1>12, <4>1, <4>2
      <3>3. \A i \in Nat : AllBelow(i)' => Keeps(Q[i], told')
        <4>1. \A i \in Nat : id <= i => Q[i] = h BY <1>1, <2>8
        <4> QED BY <1>13, <2>6, <4>1
      <3> QED BY <3>1, <3>2, <3>3 DEF PathSound
    <2>11. PathActor(Q)'
      <3>1. \A i \in Nat : id <= i => Q[i] = h BY <1>1, <2>8
      <3>2. Alike(h, actor'.env) /\ h.seq = actor'.env.seq /\ h.seq \in Nat
        BY <1>4, <1>6, <1>7, <1>9, <2>4, <2>5 DEF Alike
      <3> QED BY <1>2, <1>6, <1>13, <3>1, <3>2 DEF PathActor
    <2> QED BY <2>9, <2>10, <2>11 DEF OnPath
  <1>21. LateEnvelope'
    <2> SUFFICES ASSUME late # NoLate PROVE LateEnvelope' BY <1>6 DEF LateEnvelope
    <2>1. PICK g, h : g = late.env /\ h = Replayed(late.env, d) OBVIOUS
    <2>2. actor.mail /\ IsEnvelope(g) /\ DOMAIN g = Fields /\ g.seq \in Nat
      BY <1>1, <2>1
      DEF Inv, LateInv, Serving, TypeInv, CheckpointTypes, IsEnvelope, Fields
    <2>3. Sound(g) /\ g.cursor = actor.env.cursor BY <2>1, <2>2 DEF Exact, LateEnvelope
    <2>4. LateWhole(g) BY <2>1, <2>2 DEF Exact, LateEnvelope, LateBehind
    <2>5. Alike(actor.env, g) /\ Sound(actor.env) /\ g.seq <= actor.env.seq
      BY <2>4 DEF LateWhole, Alike, Exact, Envelopes
    <2>6. d.seq \in Nat /\ d.seq > g.seq BY <1>1, <1>4, <1>9, <2>2, <2>5
    <2>7. Decides(actor.env, n, o, fence, env) BY <1>0
    <2>8. ~ReplayBails(g, d) /\ Alike(h, env)
      BY <1>9, <2>1, <2>2, <2>5, <2>6, <2>7, DecidesReplays
    <2>9. Sound(h) /\ Keeps(h, told') /\ Alike(h, actor'.env)
      BY <1>7, <1>14, <2>8, AlikeSound DEF Alike
    <2>10. d.seq <= actor'.env.seq BY <1>4, <1>6, <1>9
    <2>11. LateBehind(g, id)'
      BY <1>1, <1>6, <1>12, <1>13, <2>1, <2>3, <2>8, <2>9, <2>10 DEF LateBehind
    <2>12. AllBelow(actor.env.cursor)' BY <1>1, <1>6, <1>13
    <2> QED BY <1>6, <2>1, <2>3, <2>11, <2>12 DEF LateEnvelope
  <1> QED BY <1>15, <1>17, <1>18, <1>19, <1>20, <1>21 DEF Exact

\* incorporate_v2_command decides the entry, or leaves it to a fresh checkpoint.
LEMMA UndecidedForms ==
    ASSUME Inv, NEW id, Undecided(id)
    PROVE  \/ \E o, fence, env :
                 /\ IsEnvelope(env) /\ env.seq = actor.env.seq
                 /\ Decides(actor.env, stream[id], o, fence, env)
                 /\ Publish(id, stream[id], o, fence, env)
           \/ /\ Incorporated(id, actor.env,
                               IF actor.live /\ ~handoff THEN "refresh" ELSE "idle")
              /\ UNCHANGED <<decisions, told>>
  <1>1. PICK n, e, s : n = stream[id] /\ e = actor.env /\ s = e.session OBVIOUS
  <1>2. IsEnvelope(e) /\ Alike(e, e) BY <1>1 DEF Inv, TypeInv, ActorTypes, Alike
  <1>3. CASE Recorded(s, n) /\ Publish(id, n, s.outs[n], 0, e)
    <2>1. Decides(e, n, s.outs[n], 0, e) BY <1>1, <1>2, <1>3 DEF Decides
    <2> QED BY <1>1, <1>2, <1>3, <2>1
  <1>4. CASE RejectionFenceFor(s, n) /\ Publish(id, n, Rejected, s.fence, e)
    <2>1. Decides(e, n, Rejected, s.fence, e) BY <1>1, <1>2, <1>4 DEF Decides
    <2> QED BY <1>1, <1>2, <1>4, <2>1
  <1>5. CASE /\ Incorporated(id, e, IF actor.live /\ ~handoff THEN "refresh" ELSE "idle")
             /\ UNCHANGED <<decisions, told, frontier>>
    BY <1>1, <1>5
  <1>6. CASE /\ ~IsTerminallyResolved(s, n) /\ SparseWindowIsFull(s, n)
             /\ LET fenced == InstallRejectionFence(s, n)
                IN  Publish(id, n, Rejected, fenced.fence, [e EXCEPT !.session = fenced])
    <2>1. PICK fenced : fenced = InstallRejectionFence(s, n) OBVIOUS
    <2>2. PICK f : f = [e EXCEPT !.session = fenced] OBVIOUS
    <2>3. IsEnvelope(f) /\ f.seq = e.seq /\ f.session = fenced /\ f.ran = e.ran
      BY <1>2, <2>2 DEF IsEnvelope
    <2>4. Publish(id, n, Rejected, fenced.fence, f) BY <1>6, <2>1, <2>2
    <2>5. Decides(e, n, Rejected, fenced.fence, f) BY <1>1, <1>6, <2>1, <2>3 DEF Decides
    <2> QED BY <1>1, <2>3, <2>4, <2>5
  <1>7. CASE /\ ~IsTerminallyResolved(s, n) /\ ~SparseWindowIsFull(s, n)
             /\ \E run \in {e.ran, Append(e.ran, n)} :
                   LET o == IF run = e.ran THEN Rejected ELSE Len(run)
                   IN  Publish(id, n, o, 0, [e EXCEPT !.ran = run, !.session = Record(s, n, o)])
    <2>1. PICK run \in {e.ran, Append(e.ran, n)} :
             LET o == IF run = e.ran THEN Rejected ELSE Len(run)
             IN  Publish(id, n, o, 0, [e EXCEPT !.ran = run, !.session = Record(s, n, o)])
      BY <1>7
    <2>2. PICK o : o = IF run = e.ran THEN Rejected ELSE Len(run) OBVIOUS
    <2>3. PICK r : r = Record(s, n, o) OBVIOUS
    <2>4. PICK f : f = [e EXCEPT !.ran = run, !.session = r] OBVIOUS
    <2>5. IsEnvelope(f) /\ f.seq = e.seq /\ f.session = r /\ f.ran = run
      BY <1>2, <2>4 DEF IsEnvelope
    <2>6. Publish(id, n, o, 0, f) BY <2>1, <2>2, <2>3, <2>4
    <2>7. Decides(e, n, o, 0, f) BY <1>1, <1>7, <2>1, <2>2, <2>3, <2>5 DEF Decides
    <2> QED BY <1>1, <2>5, <2>6, <2>7
  <1> QED BY <1>1, <1>3, <1>4, <1>5, <1>6, <1>7 DEF Undecided

\* ... and an entry without a decision is beyond every decision.
LEMMA UndecidedExact ==
    ASSUME Inv, Exact, NEW id, Taking(id), id \notin DOMAIN decisions,
           exec = "run" => actor.live, Undecided(id)
    PROVE  Exact'
  <1>1. /\ actor.env.cursor \in Nat /\ ckpt.cursor \in Int /\ id \in Nat
        /\ ckpt.cursor <= actor.env.cursor /\ id = actor.env.cursor + 1
        /\ actor.up /\ exec \in {"boot", "run"} /\ stream[id] \in ClientSequences
        /\ IsEnvelope(actor.env)
    BY CheckpointCursor DEF Inv, Taking, Dispatching, Cursors, TypeInv, ActorTypes
  <1>2. AllBelow(actor.env.cursor)
    <2> SUFFICES ASSUME NEW i \in DOMAIN decisions, ~(i <= actor.env.cursor) PROVE FALSE
      BY DEF AllBelow
    <2>1. i \in Nat BY Positions DEF Inv, TypeInv, StreamTypes
    <2>2. id \in ckpt.cursor + 1 .. i BY <1>1, <2>1
    <2> QED BY <2>2 DEF Exact, Gapless
  <1>3. /\ Sound(actor.env) /\ Keeps(actor.env, told) /\ DOMAIN told = ClientSequences
        /\ Alike(actor.env, actor.env) /\ (~actor.live => exec = "boot")
    BY <1>1, <1>2 DEF Exact, Envelopes, CommandsOnly, Alike
  <1>4. ASSUME NEW o, NEW fence, NEW env, IsEnvelope(env), env.seq = actor.env.seq,
               Decides(actor.env, stream[id], o, fence, env),
               Publish(id, stream[id], o, fence, env)
        PROVE  Exact'
    <2>1. CASE actor.live BY <1>4, <2>1, PublishExact
    <2>2. CASE ~actor.live
      <3>1. Incorporated(id, env, "idle") /\ UNCHANGED <<decisions, told>>
        BY <1>4, <2>2 DEF Publish
      <3>2. PICK n \in ClientSequences : n = stream[id] BY <1>1
      <3>3. Sound(env) /\ Keeps(env, [told EXCEPT ![n] = @ \cup {o}])
        BY <1>3, <1>4, <3>2, DecidesKeeps
      <3>4. Keeps(env, told) BY <1>3, <3>3, KeepsLess
      <3> QED BY <1>2, <1>3, <1>4, <2>2, <3>1, <3>3, <3>4, UnjournalledExact
    <2> QED BY <2>1, <2>2
  <1>5. CASE /\ Incorporated(id, actor.env,
                              IF actor.live /\ ~handoff THEN "refresh" ELSE "idle")
             /\ UNCHANGED <<decisions, told>>
    <2>1. CASE actor.live /\ ~handoff
      <3>1. Incorporated(id, actor.env, "refresh") BY <1>5, <2>1
      <3> QED BY <1>1, <1>2, <1>3, <1>5, <2>1, <3>1, UnjournalledExact
    <2>2. CASE ~actor.live \/ handoff
      <3>1. Incorporated(id, actor.env, "idle") BY <1>5, <2>2
      <3> QED BY <1>1, <1>2, <1>3, <1>5, <2>2, <3>1, UnjournalledExact
    <2> QED BY <2>1, <2>2
  <1> QED BY <1>4, <1>5, UndecidedForms

\* dispatch_batch, one delivery at a time.
LEMMA DispatchExact == ASSUME Inv, Exact, Dispatch PROVE Exact'
  <1>1. /\ exec \in {"boot", "run"} /\ Undispatched # {} /\ Idle
        /\ (exec = "run" /\ actor.up => actor.live)
    BY DEF Dispatch
  <1>2. PICK id : id = NextId OBVIOUS
  <1>3. CASE ~handoff /\ AckDuplicate(id) BY <1>1, <1>2, <1>3, AckDuplicateExact
  <1>4. CASE ~handoff /\ Create(id) BY <1>1, <1>2, <1>4, CreateExact
  <1>5. CASE /\ Serving /\ actor.up /\ id > actor.env.cursor
             /\ IF HasDecision(id) THEN Replay(id)
                ELSE id \notin DOMAIN decisions /\ Undecided(id)
    <2>1. Dispatching(id) BY <1>1, <1>2, <1>5, NextDelivery DEF Dispatching, Idle
    <2>2. Taking(id) BY <1>1, <1>2, <1>5, <2>1, NextEntry DEF Taking
    <2>3. CASE HasDecision(id) BY <1>5, <2>2, <2>3, ReplayExact DEF HasDecision
    <2>4. CASE ~HasDecision(id) BY <1>1, <1>5, <2>2, <2>4, UndecidedExact
    <2> QED BY <2>3, <2>4
  <1> QED BY <1>2, <1>3, <1>4, <1>5 DEF Dispatch

-----------------------------------------------------------------------------
(* What Exact proves.                                                      *)

\* Before the first term nothing is told, and the path stays where it starts.
LEMMA InitExact == Init => Exact
  <1> SUFFICES ASSUME Init PROVE Exact OBVIOUS
  <1>1. /\ actor.up = FALSE /\ actor.env = NewEnvelope /\ ckpt = NoCkpt /\ late = NoLate
        /\ Len(stream) = 1 /\ DOMAIN decisions = {} /\ NoCkpt.cursor = -1
        /\ DOMAIN told = ClientSequences /\ \A n \in ClientSequences : told[n] = {}
    BY DeadActor, NothingYet DEF Init
  <1>2. CommandsOnly BY <1>1 DEF CommandsOnly
  <1>3. Gapless BY <1>1 DEF Gapless
  <1>4. Writers BY <1>1 DEF Writers
  <1>5. Envelopes BY <1>1, NewSound DEF Envelopes
  <1>6. OnPath
    <2>1. PICK P : P = [i \in Nat |-> NewEnvelope] OBVIOUS
    <2>2. \A i \in Nat : P[i] = NewEnvelope BY <2>1
    <2>3. IsPath(P)
      <3> SUFFICES ASSUME NEW i \in Nat, i # 0 PROVE P[i] = P[i - 1] BY <1>1, <2>2 DEF IsPath
      <3> QED BY <2>2
    <2>4. PathSound(P)
      <3>1. \A e : Keeps(e, told) BY <1>1 DEF Keeps
      <3> QED BY <1>1, <2>2, <3>1, NewSound, EmptyEnvelope DEF PathSound
    <2>5. PathActor(P) BY <1>1 DEF PathActor
    <2> QED BY <2>3, <2>4, <2>5 DEF OnPath
  <1>7. LateEnvelope BY <1>1 DEF LateEnvelope
  <1> QED BY <1>2, <1>3, <1>4, <1>5, <1>6, <1>7 DEF Exact

\* Every step keeps the journal exact.
LEMMA StepExact == Inv /\ Inv' /\ Exact /\ [Next]_vars => Exact'
  <1> SUFFICES ASSUME Inv, Inv', Exact, [Next]_vars PROVE Exact' OBVIOUS
  <1>1. CASE UNCHANGED vars BY <1>1, ControlExact DEF vars, durable, history
  <1>2. CASE \E n \in ClientSequences : Submit(n) BY <1>2, ControlExact DEF Submit, history
  <1>3. CASE ReadNew BY <1>3, ControlExact DEF ReadNew, history
  <1>4. CASE Takeover BY <1>4, TakeoverExact
  <1>5. CASE Dispatch BY <1>5, DispatchExact
  <1>6. CASE ReplayDone BY <1>6, ReplayDoneExact
  <1>7. CASE StartActivation BY <1>7, StartActivationExact
  <1>8. CASE BootstrapDone BY <1>8, ControlExact DEF BootstrapDone, durable, history
  <1>9. CASE StartCheckpoint BY <1>9, StartCheckpointExact
  <1>10. CASE Checkpoint BY <1>10, CheckpointExact
  <1>11. CASE PublishSnapshot \/ DropSnapshot BY <1>11, SnapshotExact
  <1>12. CASE DropCheckpoint BY <1>12, DropCheckpointExact
  <1>13. CASE Barrier BY <1>13, StopsExact DEF Barrier
  <1>14. CASE Release
    <2>1. /\ exec = "barred" /\ exec' = "off" /\ late' = NoLate
          /\ UNCHANGED <<stream, decisions, ckpt, told, actor>>
      BY <1>14 DEF Release, durable, history
    <2>2. ~actor.up BY <2>1 DEF Inv, Cursors
    <2>3. Writers' BY <2>1, <2>2 DEF Writers
    <2>4. SameJournal BY <2>1 DEF SameJournal
    <2> QED BY <2>1, <2>3, <2>4, QuietExact DEF Exact, CommandsOnly
  <1>15. CASE TickEvent BY <1>15, TickEventExact
  <1>16. CASE Trim BY <1>16, ControlExact DEF Trim, history
  <1>17. CASE LateCheckpoint BY <1>17, LateCheckpointExact
  <1>18. CASE StartHandoff BY <1>18, StartHandoffExact
  <1>19. CASE ReleaseBootstrap BY <1>19, StopsExact DEF ReleaseBootstrap, durable
  <1>20. CASE Crash BY <1>20, StopsExact DEF Crash, durable
  <1> QED
    BY <1>1, <1>2, <1>3, <1>4, <1>5, <1>6, <1>7, <1>8, <1>9, <1>10, <1>11, <1>12, <1>13,
       <1>14, <1>15, <1>16, <1>17, <1>18, <1>19, <1>20 DEF Next, ExecutorStep

\* The journal is exact, along every behaviour.
THEOREM JournalInvariant == Spec => []Exact
  BY InitExact, StepExact, RecoveryInvariant, PTL DEF Spec

\* What a successor would rebuild is the end of the path.
LEMMA RebuiltIs ==
    ASSUME Inv, NEW P, IsPath(P)
    PROVE  Rebuilt = P[delivered]
  <1> DEFINE D == 0 .. delivered
             F(f) == [i \in D |->
                        IF i = 0 \/ i <= ckpt.cursor
                        THEN IF ckpt = NoCkpt THEN NewEnvelope ELSE ckpt
                        ELSE IF i \in DOMAIN decisions THEN Replayed(f[i - 1], decisions[i])
                        ELSE f[i - 1]]
  <1>1. delivered \in Nat BY Positions DEF Inv
  <1>2. PICK g : g = [i \in D |-> P[i]] OBVIOUS
  <1>3. \A i \in D : i # 0 => i - 1 \in D BY <1>1
  <1>4. g = F(g)
    <2>1. DOMAIN g = D /\ \A i \in D : g[i] = P[i] BY <1>2
    <2>2. \A i \in D : P[i] = F(g)[i]
      <3> SUFFICES ASSUME NEW i \in D PROVE P[i] = F(g)[i] OBVIOUS
      <3>1. i # 0 => g[i - 1] = P[i - 1] BY <1>3, <2>1
      <3> QED BY <1>1, <3>1 DEF IsPath
    <2> QED BY <1>2, <2>2
  <1>5. PICK h : h = F(h) /\ h = ReplayedTo BY <1>4 DEF ReplayedTo
  <1>6. \A i \in D : h[i] = P[i]
    <2> DEFINE W == {i \in D : h[i] # P[i]}
    <2> SUFFICES ASSUME W # {} PROVE FALSE OBVIOUS
    <2>1. W \in SUBSET Nat BY <1>1
    <2>2. PICK i \in W : \A j \in W : i <= j BY <2>1, Smallest
    <2>3. i # 0 => i - 1 \in D /\ h[i - 1] = P[i - 1]
      <3> SUFFICES ASSUME i # 0 PROVE i - 1 \notin W BY <1>3
      <3> QED BY <1>1, <2>2
    <2>4. h[i] = F(h)[i] BY <1>5
    <2> QED BY <1>1, <2>3, <2>4 DEF IsPath
  <1> QED BY <1>1, <1>5, <1>6 DEF Rebuilt

\* ... which every decision leads up to.
LEMMA RebuiltKeeps ==
    ASSUME Inv, Exact
    PROVE  /\ Sound(Rebuilt) /\ Keeps(Rebuilt, told)
           /\ actor.up /\ actor.live =>
                 Alike(Rebuilt, actor.env) /\ Rebuilt.seq <= actor.env.seq
  <1>1. PICK P : IsPath(P) /\ PathSound(P) /\ PathActor(P) BY DEF Exact, OnPath
  <1>2. Rebuilt = P[delivered] BY <1>1, RebuiltIs
  <1>3. delivered \in Nat /\ AllBelow(delivered)
    BY Positions DEF Inv, TypeInv, StreamTypes, AllBelow
  <1> QED BY <1>1, <1>2, <1>3 DEF PathSound, PathActor

\* A live actor never holds state that its death would lose: at every instant
\* between publish_command_decision_fenced and checkpoint_and_ack_fenced, a
\* successor that replays the journal over the checkpoint has its game, its
\* session, and no event sequence it has not used.
THEOREM RecoveryIsExact == Spec => []RecoveryExact
  <1>1. Inv /\ Exact => RecoveryExact BY RebuiltKeeps DEF RecoveryExact, Alike
  <1> QED BY <1>1, RecoveryInvariant, JournalInvariant, PTL

\* What the game runs decides what was told.
LEMMA OneOutcome ==
    ASSUME NEW ran, IsInjective(ran), NEW n, NEW o, Tells(ran, n, o), NEW p, Tells(ran, n, p)
    PROVE  o = p
  BY DEF Tells, IsInjective

\* What was told stands.
LEMMA KeepsStands == ASSUME Inv, Exact PROVE OutcomesStand
  <1>1. Sound(Rebuilt) /\ Keeps(Rebuilt, told) BY RebuiltKeeps
  <1>2. PICK s, ran : s = Rebuilt.session /\ ran = Rebuilt.ran OBVIOUS
  <1>3. SoundSession(s) /\ ran \in Seq(ClientSequences) /\ IsInjective(ran)
    BY <1>1, <1>2 DEF Sound
  <1>4. ToldIsKept
    <2> SUFFICES ASSUME NEW n \in ClientSequences, NEW o \in told[n]
                 PROVE  /\ IsTerminallyResolved(s, n)
                        /\ o # Rejected => o <= Len(ran) /\ ran[o] = n
      BY <1>2 DEF ToldIsKept
    <2>1. Tells(ran, n, o) /\ (Above(s, n) => Covers(s, n)) BY <1>1, <1>2 DEF Keeps
    <2>2. n \in Nat /\ n > 0 /\ s.through \in Nat
      BY <1>3, SequenceAssumption DEF ClientSequences, SoundSession
    <2>3. IsTerminallyResolved(s, n) BY <2>1, <2>2 DEF IsTerminallyResolved, Above
    <2>4. DOMAIN ran = 1 .. Len(ran) /\ Len(ran) \in Nat BY <1>3
    <2>5. o # Rejected => o \in 1 .. Len(ran) /\ ran[o] = n BY <2>1, <2>4 DEF Tells
    <2> QED BY <2>3, <2>4, <2>5
  <1>5. ASSUME NEW n \in ClientSequences PROVE Cardinality(told[n]) <= 1
    <2>1. \A o \in told[n] : Tells(ran, n, o) BY <1>1, <1>2 DEF Keeps
    <2>2. \A o, p \in told[n] : o = p BY <1>3, <2>1, OneOutcome
    <2>3. CASE told[n] = {} BY <2>3, FS_EmptySet
    <2>4. CASE told[n] # {}
      <3>1. PICK o : o \in told[n] BY <2>4
      <3>2. told[n] = {o} BY <2>2, <3>1
      <3>3. Cardinality({o}) = 1 BY FS_Singleton
      <3> QED BY <3>2, <3>3
    <2> QED BY <2>3, <2>4
  <1>6. IsInjective(actor.env.ran) BY DEF Exact, Envelopes, Sound
  <1> QED BY <1>2, <1>3, <1>4, <1>5, <1>6 DEF OutcomesStand, ExactlyOneOutcome

\* An outcome a client was told stands: it is the only one ever told for its
\* sequence, and every later executor rebuilds it, though record prunes its
\* outcomes and the rejection fence answers for what it never recorded.
THEOREM ToldOutcomesStand == Spec => []OutcomesStand
  BY KeepsStands, RecoveryInvariant, JournalInvariant, PTL

\* No bootstrap fails on its own journal: every decision belongs to a pending
\* entry and passes the checks of incorporate_recorded_decision and
\* replay_scheduled_command when its turn comes, and none is decided twice.
THEOREM JournalReplays == Spec => []ReplayNeverBails
  <1>1. ASSUME Inv, Exact PROVE ReplayNeverBails
    <2>1. DOMAIN decisions \subseteq pel BY <1>1 DEF Inv, TypeInv, StreamTypes
    <2>2. ASSUME exec \in {"boot", "run"}, Undispatched # {}, actor.up,
                 NextId > actor.env.cursor
          PROVE  IF HasDecision(NextId) THEN ~ReplayBails(actor.env, decisions[NextId])
                 ELSE ~Serving \/ NextId \notin DOMAIN decisions
      <3>1. PICK id : id = NextId OBVIOUS
      <3>2. actor.env.cursor \in Nat /\ id \in Nat
        BY <1>1, <2>2, <3>1, NextDelivery, CheckpointCursor
      <3>3. CASE HasDecision(id)
        <4>1. id \in DOMAIN decisions /\ exec = "boot" BY <3>3 DEF HasDecision
        <4>2. id - 1 = actor.env.cursor BY <1>1, <2>2, <3>1, <3>2, <4>1, NextEntry
        <4>3. ~AllBelow(actor.env.cursor) BY <2>2, <3>1, <3>2, <4>1 DEF AllBelow
        <4>4. PICK P : IsPath(P) /\ PathSound(P) /\ PathActor(P) BY <1>1 DEF Exact, OnPath
        <4>5. PICK g, e, d : g = P[id - 1] /\ e = actor.env /\ d = decisions[id] OBVIOUS
        <4>6. Alike(g, e) /\ g.seq = e.seq BY <2>2, <4>1, <4>2, <4>3, <4>4, <4>5 DEF PathActor
        <4>7. DOMAIN g = Fields /\ DOMAIN e = Fields
          BY <1>1, <3>2, <4>2, <4>4, <4>5
          DEF PathSound, IsEnvelope, Fields, Inv, TypeInv, ActorTypes
        <4>8. ~ReplayBails(g, d) BY <4>1, <4>4, <4>5 DEF PathSound
        <4>9. ~ReplayBails(e, d) BY <4>6, <4>7, <4>8, AlikeReplays
        <4> QED BY <3>1, <3>3, <4>5, <4>9
      <3>4. CASE ~HasDecision(id)
        <4>1. CASE exec = "boot" BY <3>1, <3>4, <4>1 DEF HasDecision
        <4>2. CASE exec = "run" /\ Serving
          <5>1. AllBelow(actor.env.cursor)
            BY <1>1, <2>2, <4>2 DEF Exact, Writers, Inv, Cursors, Serving
          <5> QED BY <2>2, <3>1, <3>2, <3>4, <5>1 DEF AllBelow
        <4>3. CASE ~Serving BY <3>1, <3>4, <4>3
        <4> QED BY <2>2, <4>1, <4>2, <4>3
      <3> QED BY <3>3, <3>4
    <2> QED BY <2>1, <2>2 DEF ReplayNeverBails
  <1> QED BY <1>1, RecoveryInvariant, JournalInvariant, PTL

-----------------------------------------------------------------------------
(* One session of a live actor (CommandSession): at most one execution and *)
(* one answer per client sequence, although only MaxResults outcomes are   *)
(* remembered, for every arrival order.                                    *)

USE SequenceAssumption

SessionTypes ==
    /\ session = [through |-> session.through, outs |-> session.outs, fence |-> session.fence]
    /\ session.through \in 0 .. MaxSequence /\ session.fence \in 0 .. MaxSequence
    /\ DOMAIN session.outs \subseteq Sequences
    /\ \A n \in DOMAIN session.outs : session.outs[n] \in Outcomes
AnswerTypes ==
    /\ executed \in [Sequences -> Nat]
    /\ answer \in [Sequences -> Outcomes \cup {"none"}]
    /\ changed = FALSE /\ bailed = FALSE

\* The watermark stops at a gap, and the record is within its bound.
RecordInv ==
    /\ session.through + 1 \notin DOMAIN session.outs
    /\ Cardinality(DOMAIN session.outs) <= MaxResults

\* What the record says of a sequence is what happened to it: every outcome above
\* the watermark is still known exactly, and what is neither was never executed
\* and can only have been answered by the fence.
Decided ==
    \A n \in Sequences :
        /\ ~Above(session, n) => executed[n] = 1
        /\ n \in DOMAIN session.outs => answer[n] = session.outs[n]
        /\ Above(session, n) =>
              /\ executed[n] = 0 /\ answer[n] \in {"none", "rejected"}
              /\ answer[n] # "none" => Covers(session, n)

SessionInv == SessionTypes /\ AnswerTypes /\ RecordInv /\ Decided

\* A new outcome is recorded: the record keeps telling what happened.
LEMMA DecideInv ==
    ASSUME SessionInv, NEW n \in Sequences, NEW o \in Outcomes, Decide(n, o)
    PROVE  SessionInv'
  <1> DEFINE dom == DOMAIN session.outs \cup {n}
             a == Advance(session.through, dom)
  <1>1. Above(session, n) /\ ~Covers(session, n) /\ ~SparseWindowIsFull(session, n)
    BY DEF Decide, IsTerminallyResolved, Recorded, Above, SessionInv, SessionTypes, Sequences
  <1>2. /\ session.through \in 0 .. MaxSequence
        /\ DOMAIN session.outs \subseteq 1 .. MaxSequence
        /\ dom \subseteq 1 .. MaxSequence /\ n \in 1 .. MaxSequence
    BY DEF SessionInv, SessionTypes, Sequences
  <1>3. /\ a \in session.through .. MaxSequence /\ ((session.through + 1) .. a) \subseteq dom
        /\ a + 1 \notin dom
    BY <1>2, AdvanceRuns
  <1>4. \A m \in dom \ Retained(dom) : m <= a
    <2>1. SoundSession(session)
      BY DEF SoundSession, SessionInv, SessionTypes, RecordInv, Sequences, ClientSequences
    <2> QED BY <1>1, <2>1, ForgetsBelow DEF Sequences, ClientSequences
  <1>5. Retained(dom) \subseteq dom /\ Cardinality(Retained(dom)) <= MaxResults
    <2>1. IsFiniteSet(1 .. MaxSequence) BY FS_Interval
    <2>2. IsFiniteSet(dom) BY <1>2, <2>1, FS_Subset
    <2> QED BY <1>2, <2>2, RetainedBounded DEF Retained
  <1> HIDE DEF dom, a
  <1>6. PICK f : f = [m \in Retained(dom) |-> IF m = n THEN o ELSE session.outs[m]] OBVIOUS
  <1>7. DOMAIN f = Retained(dom) /\ \A m \in Retained(dom) :
            f[m] = IF m = n THEN o ELSE session.outs[m]
    BY <1>6
  <1>8. session' = [session EXCEPT !.through = a, !.outs = f]
    BY <1>1, <1>6 DEF Decide, Record, Recorded, Above, dom, a
  <1>9. /\ session' = [through |-> a, outs |-> f, fence |-> session.fence]
        /\ session'.through = a /\ session'.outs = f /\ session'.fence = session.fence
    BY <1>8 DEF SessionInv, SessionTypes
  <1>10. /\ answer[n] = "none" /\ answer' = [answer EXCEPT ![n] = o] /\ changed' = FALSE
    BY <1>1 DEF Decide, Tell, SessionInv, Decided, AnswerTypes
  <1>11. bailed' = FALSE
    <2>1. \A m \in dom \ Retained(dom) : ~(m > a)
      <3>1. a \in Nat /\ \A m \in dom : m \in Nat BY <1>2, <1>3
      <3> QED BY <1>4, <3>1
    <2>2. ~RecordBails(session, n) BY <2>1 DEF RecordBails, dom, a
    <2> QED BY <2>2 DEF Decide, SessionInv, AnswerTypes
  <1>12. executed' = [executed EXCEPT ![n] = @ + 1] /\ executed[n] = 0
    BY <1>1 DEF Decide, SessionInv, Decided
  <1>13. SessionTypes'
    <2>1. DOMAIN f \subseteq Sequences /\ \A m \in DOMAIN f : f[m] \in Outcomes
      BY <1>2, <1>5, <1>7 DEF SessionInv, SessionTypes, dom
    <2> QED BY <1>2, <1>3, <1>9, <2>1 DEF SessionInv, SessionTypes
  <1>14. AnswerTypes' BY <1>10, <1>11, <1>12 DEF SessionInv, AnswerTypes
  <1>15. RecordInv' BY <1>3, <1>5, <1>7, <1>9 DEF RecordInv
  <1>16. Decided'
    <2> SUFFICES ASSUME NEW m \in Sequences
                 PROVE  /\ ~Above(session, m)' => executed'[m] = 1
                        /\ m \in DOMAIN f => answer'[m] = f[m]
                        /\ Above(session, m)' =>
                              /\ executed'[m] = 0
                              /\ answer'[m] \in {"none", "rejected"}
                              /\ answer'[m] # "none" => Covers(session', m)
      BY <1>9 DEF Decided
    <2>1. Above(session, m)' <=> m > a /\ m \notin Retained(dom)
      BY <1>7, <1>9 DEF Above, Recorded
    <2>2. m \in Nat /\ a \in Nat /\ session.through \in Nat /\ session.through <= a
      BY <1>2, <1>3 DEF Sequences
    <2>3. Above(session, m)' => Above(session, m) /\ m # n
      BY <1>4, <2>1, <2>2 DEF Above, Recorded, dom
    <2>4. ~Above(session, m)' => ~Above(session, m) \/ m = n
      BY <1>3, <1>5, <2>1, <2>2 DEF Above, Recorded, dom
    <2>5. m # n => executed'[m] = executed[m] /\ answer'[m] = answer[m]
      BY <1>10, <1>12 DEF SessionInv, AnswerTypes
    <2>6. executed'[n] = 1 /\ answer'[n] = o
      BY <1>10, <1>12 DEF SessionInv, AnswerTypes
    <2>7. m \in DOMAIN f => answer'[m] = f[m]
      BY <1>5, <1>7, <2>5, <2>6 DEF SessionInv, Decided, dom
    <2>8. Covers(session, m) => Covers(session', m) BY <1>9 DEF Covers
    <2> QED BY <2>3, <2>4, <2>5, <2>6, <2>7, <2>8 DEF SessionInv, Decided
  <1> QED BY <1>13, <1>14, <1>15, <1>16 DEF SessionInv

\* An exhausted window fences the sequence off: it was never executed, and the
\* fence that answers it answers every later resend of it.
LEMMA FenceOffInv ==
    ASSUME SessionInv, NEW n \in Sequences, FenceOff(n)
    PROVE  SessionInv'
  <1>1. Above(session, n) /\ ~Covers(session, n)
    BY DEF FenceOff, IsTerminallyResolved, Recorded, Above, SessionInv, SessionTypes, Sequences
  <1>2. answer[n] = "none" BY <1>1 DEF SessionInv, Decided
  <1>3. n \in 1 .. MaxSequence /\ session.fence \in 0 .. MaxSequence
    BY DEF SessionInv, SessionTypes, Sequences
  <1>4. PICK w : w = IF session.fence = 0 THEN n ELSE Min({session.fence, n}) OBVIOUS
  <1>5. w = n
    <2>1. session.fence # 0 => n < session.fence BY <1>1, <1>3 DEF Covers
    <2>2. session.fence # 0 => Min({session.fence, n}) = n
      BY <1>3, <2>1 DEF Min
    <2> QED BY <1>4, <2>2
  <1>6. session' = [session EXCEPT !.fence = n]
    BY <1>4, <1>5 DEF FenceOff, InstallRejectionFence
  <1>7. /\ session' = [through |-> session.through, outs |-> session.outs, fence |-> n]
        /\ session'.fence = n
        /\ session'.through = session.through /\ session'.outs = session.outs
    BY <1>6 DEF SessionInv, SessionTypes
  <1>8. /\ answer' = [answer EXCEPT ![n] = "rejected"] /\ changed' = FALSE
        /\ executed' = executed /\ bailed' = bailed
    BY <1>2 DEF FenceOff, Tell, SessionInv, AnswerTypes
  <1>9. SessionTypes' /\ RecordInv'
    BY <1>3, <1>7 DEF SessionInv, SessionTypes, RecordInv
  <1>10. AnswerTypes' BY <1>8 DEF SessionInv, AnswerTypes, Outcomes
  <1>11. Decided'
    <2> SUFFICES ASSUME NEW m \in Sequences
                 PROVE  /\ ~Above(session, m)' => executed'[m] = 1
                        /\ m \in DOMAIN session.outs => answer'[m] = session.outs[m]
                        /\ Above(session, m)' =>
                              /\ executed'[m] = 0
                              /\ answer'[m] \in {"none", "rejected"}
                              /\ answer'[m] # "none" => Covers(session', m)
      BY <1>7 DEF Decided
    <2>1. Above(session, m)' <=> Above(session, m) BY <1>7 DEF Above, Recorded
    <2>2. m # n => answer'[m] = answer[m] BY <1>8 DEF SessionInv, AnswerTypes
    <2>3. answer'[n] = "rejected" /\ Covers(session', n)
      BY <1>3, <1>7, <1>8 DEF SessionInv, AnswerTypes, Covers
    <2>4. Covers(session, m) => Covers(session', m)
      BY <1>1, <1>3, <1>7 DEF Covers, Sequences
    <2> QED BY <1>1, <1>8, <2>1, <2>2, <2>3, <2>4 DEF SessionInv, Decided, Above, Recorded
  <1> QED BY <1>9, <1>10, <1>11 DEF SessionInv

\* A resend is answered as before, by the record or by the fence.
LEMMA AnswerInv ==
    ASSUME SessionInv, NEW n \in Sequences, Resend(n) \/ Fenced(n)
    PROVE  SessionInv'
  <1>1. CASE Resend(n)
    <2>1. answer[n] = session.outs[n] /\ session.outs[n] \in Outcomes
      BY <1>1 DEF Resend, Recorded, SessionInv, Decided, SessionTypes
    <2>2. answer' = answer /\ changed' = FALSE
      BY <1>1, <2>1 DEF Resend, Tell, SessionInv, AnswerTypes, Outcomes
    <2> QED BY <1>1, <2>2
        DEF Resend, SessionInv, SessionTypes, AnswerTypes, RecordInv, Decided, Above, Recorded
  <1>2. CASE Fenced(n)
    <2>1. Above(session, n) /\ Covers(session, n)
      BY <1>2 DEF Fenced, RejectionFenceFor, Recorded, Above
    <2>2. answer[n] \in {"none", "rejected"} BY <2>1 DEF SessionInv, Decided
    <2>3. answer' = [answer EXCEPT ![n] = "rejected"] /\ changed' = FALSE
      BY <1>2, <2>2 DEF Fenced, Tell, SessionInv, AnswerTypes
    <2>4. UNCHANGED <<session, executed, bailed>> BY <1>2 DEF Fenced
    <2>5. AnswerTypes' BY <2>3, <2>4 DEF SessionInv, AnswerTypes, Outcomes
    <2>6. SessionTypes' /\ RecordInv' BY <2>4 DEF SessionInv, SessionTypes, RecordInv
    <2>7. answer'[n] = "rejected" /\ \A m \in Sequences \ {n} : answer'[m] = answer[m]
      BY <2>3 DEF SessionInv, AnswerTypes
    <2>8. Decided' BY <2>1, <2>4, <2>7 DEF SessionInv, Decided, Above, Recorded
    <2> QED BY <2>5, <2>6, <2>8 DEF SessionInv
  <1> QED BY <1>1, <1>2

\* A new session has decided nothing.
LEMMA SessionInitInv == ASSUME SessionInit PROVE SessionInv
  <1>1. /\ session = [through |-> session.through, outs |-> session.outs, fence |-> session.fence]
        /\ session.through = 0
        /\ session.fence = 0 /\ DOMAIN session.outs = {}
    BY DEF SessionInit, NewSession
  <1>2. SessionTypes BY <1>1 DEF SessionTypes
  <1>3. AnswerTypes BY DEF SessionInit, AnswerTypes
  <1>4. RecordInv BY <1>1, FS_EmptySet, MaxResultsAssumption DEF RecordInv
  <1>5. Decided BY <1>1 DEF SessionInit, Decided, Above, Recorded, Sequences
  <1> QED BY <1>2, <1>3, <1>4, <1>5 DEF SessionInv

\* Every arrival keeps the invariant.
LEMMA SessionStepInv == ASSUME SessionInv, [SessionNext]_sessionVars PROVE SessionInv'
  <1>1. CASE UNCHANGED sessionVars
    BY <1>1 DEF sessionVars, SessionInv, SessionTypes, AnswerTypes, RecordInv, Decided, Above,
                Recorded
  <1>2. ASSUME NEW n \in Sequences, Resend(n) \/ Fenced(n) PROVE SessionInv' BY <1>2, AnswerInv
  <1>3. ASSUME NEW n \in Sequences, PrunedDuplicate(n) PROVE SessionInv'
    BY <1>1, <1>3 DEF PrunedDuplicate
  <1>4. ASSUME NEW n \in Sequences, FenceOff(n) PROVE SessionInv' BY <1>4, FenceOffInv
  <1>5. ASSUME NEW n \in Sequences, NEW o \in Outcomes, Decide(n, o) PROVE SessionInv'
    BY <1>5, DecideInv
  <1> QED BY <1>1, <1>2, <1>3, <1>4, <1>5 DEF SessionNext

\* In whatever order commands and resends of a session arrive, and however few
\* outcomes the record holds: no command runs twice, no client is told two
\* outcomes of one sequence, the watermark covers exactly what was decided, and
\* record never has to forget an outcome above it (incorporate_v2_command and
\* SessionCommandOutcomes::record, whose bail is unreachable).
THEOREM SessionStaysExact == SessionSpec => []SessionExact
  <1>1. SessionInv => SessionExact
    <2> SUFFICES ASSUME SessionInv PROVE SessionExact OBVIOUS
    <2>1. SessionTypeOK BY DEF SessionInv, SessionTypes, AnswerTypes, SessionTypeOK
    <2>2. AtMostOnce
      BY DEF AtMostOnce, SessionInv, Decided
    <2>3. WatermarkExact
      BY DEF WatermarkExact, SessionInv, Decided, Above, IsTerminallyResolved, Recorded,
             Sequences, SessionTypes
    <2>4. IsFiniteSet(DOMAIN session.outs)
      <3>1. IsFiniteSet(1 .. MaxSequence) BY FS_Interval
      <3> QED BY <3>1, FS_Subset DEF SessionInv, SessionTypes, Sequences
    <2>5. IsFiniteSet(Sparse(session))
          /\ Cardinality(Sparse(session)) <= Cardinality(DOMAIN session.outs)
      BY <2>4, FS_Subset DEF Sparse
    <2>6. RetentionBounded
      BY <2>4, <2>5, FS_CardinalityType, MaxResultsAssumption
      DEF RetentionBounded, SessionInv, RecordInv, AnswerTypes
    <2> QED BY <2>1, <2>2, <2>3, <2>6 DEF SessionExact, AnswersStable, SessionInv, AnswerTypes
  <1>2. SessionInit => SessionInv BY SessionInitInv
  <1>3. SessionInv /\ [SessionNext]_sessionVars => SessionInv' BY SessionStepInv
  <1> QED BY <1>1, <1>2, <1>3, PTL DEF SessionSpec

====
