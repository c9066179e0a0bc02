---- MODULE GatewayContinuityProofs ----
(***************************************************************************)
(* What a gateway forwards to a socket continues the state its client      *)
(* holds, a barrier vouches only for outcomes the socket was sent, and no  *)
(* channel is dropped under a subscriber: proved for any number of sockets *)
(* and for every bound on log, terms, crashes, outcomes, rejections, joins *)
(* and channel capacity.                                                   *)
(***************************************************************************)
EXTENDS GatewayContinuity, FiniteSetTheorems, TLAPS

-----------------------------------------------------------------------------
(* The inductive invariant.                                                *)

Kinds == {"snapshot", "delta", "outcome", "rejected", "end"}
Lives == {"gone", "starting", "live", "answering", "over"}
Entries == [kind : Kinds, term : Nat, seq : Nat, dec : Nat]

\* The term and the outcomes as of an entry of the log.
TermAt(i) == IF i = 0 THEN 0 ELSE log[i].term
DecAt(i) == IF i = 0 THEN 0 ELSE log[i].dec
NoEndAt(i) == i = 0 \/ log[i].kind # "end"

OwnerTypes ==
  /\ setting \in Settings /\ log \in Seq(Entries)
  /\ DOMAIN owner = {"life", "term", "seq", "dec", "asked", "crashes", "rejected"}
  /\ owner.life \in Lives /\ owner.term \in 0 .. setting.terms /\ owner.seq \in Nat
  /\ owner.dec \in 0 .. setting.decided /\ owner.crashes \in Nat /\ owner.rejected \in Nat

\* One entry of the log after the other: only a snapshot starts a term, outcomes
\* are counted one by one, and nothing follows the terminal entry.
LogInv ==
  \A i \in 1 .. Len(log) :
    /\ log[i].term <= owner.term
    /\ log[i].kind = "rejected" => owner.rejected > 0
    /\ log[i].kind = "end" => i = Len(log) /\ owner.life = "over"
    /\ log[i].kind # "snapshot" => log[i].term = TermAt(i - 1)
    /\ log[i].kind = "outcome" => log[i].dec = DecAt(i - 1) + 1
    /\ log[i].kind # "outcome" => log[i].dec = DecAt(i - 1)

\* Within a term the numbers grow; the actor is where the log ends.
OwnerInv ==
  /\ \A i, j \in 1 .. Len(log) :
       i < j /\ log[i].term = log[j].term /\ log[j].kind # "rejected" => log[i].seq < log[j].seq
  /\ \A i \in 1 .. Len(log) :
       /\ log[i].dec <= owner.dec
       /\ log[i].term = owner.term \/ owner.crashes = 0 => log[i].seq <= owner.seq
  /\ owner.life = "starting" => \A i \in 1 .. Len(log) : log[i].term < owner.term
  /\ owner.dec = DecAt(Len(log))
  /\ owner.life \in {"live", "answering"} => TermAt(Len(log)) = owner.term

\* f is a state of an executor that the log cannot contradict: what older terms
\* published it contains and, without a crash, numbered below it.
Beyond(f) ==
  \A i \in 1 .. Len(log) : log[i].term < f.term /\ owner.crashes = 0 => log[i].seq <= f.seq
Includes(f) ==
  /\ f.term = owner.term => f.seq <= owner.seq
  /\ \A i \in 1 .. Len(log) :
       \/ log[i].term < f.term
       \/ log[i].term = f.term /\ log[i].kind # "rejected" /\ log[i].seq <= f.seq
       => log[i].dec <= f.dec

\* ... and what continues it, in the log or to come, adds at most one outcome.
Meets(f) ==
  /\ f.term = owner.term /\ f.seq = owner.seq => owner.dec <= f.dec
  /\ \A i \in 1 .. Len(log) :
       log[i].term = f.term /\ log[i].kind # "rejected" /\ log[i].seq = f.seq + 1
         => DecAt(i - 1) <= f.dec
Contains(f) == Includes(f) /\ Meets(f)

IsState(f) ==
  /\ f.term \in 0 .. owner.term /\ f.seq \in Nat /\ f.dec \in 0 .. owner.dec

\* The envelope is the present term's, and holds every outcome a published
\* snapshot holds; a planned handoff leaves its watermark.
StoreInv ==
  /\ DOMAIN store = {"env", "journal", "mark", "over", "durable"}
  /\ DOMAIN store.env = {"term", "seq", "dec", "over"}
  /\ IsState(store.env) /\ store.journal \in Nat /\ store.mark \in Nat
  /\ store.env.term # 0 =>
       store.env.term = owner.term /\ Beyond(store.env) /\ Contains(store.env)
  /\ owner.life = "gone" /\ owner.crashes = 0 => store.mark = owner.seq
  /\ \A i \in 1 .. Len(log) :
       log[i].kind = "snapshot" /\ store.env.term # 0 => log[i].dec <= store.env.dec
  /\ owner.life \in {"starting", "answering"} => store.env.dec = owner.dec
  /\ store.over \/ store.durable => owner.life = "over"
  /\ owner.life = "over" => store.env = NoEnvelope \/ (store.env.over /\ store.env.dec = owner.dec)

\* The channels: at most one is open, and one that ends under a subscriber has
\* been sent the terminal entry.
RouterInv ==
  /\ DOMAIN router = {"read", "ch", "joins", "ends", "after"}
  /\ router.read \in 0 .. Len(log) /\ router.ends \in Seq(Nat)
  /\ \A c \in 1 .. Len(router.ends) : router.ends[c] <= Len(log)
  /\ router.ch = 0 \/ router.ch = Len(router.ends) + 1
  /\ router.after \in {"read", "recheck", "teardown"}
  /\ router.after = "teardown" => ~NoEndAt(router.read)

Attached(u) == u.at \notin {"off", "ended"}
SentTo(u) == IF u.ch = router.ch THEN router.read ELSE router.ends[u.ch]

SubTypes(u) ==
  /\ DOMAIN u = {"at", "ch", "pos", "cont", "proven", "replay", "loaded", "seen",
                 "frame", "from", "right", "known", "barrier"}
  /\ u.at \in {"off", "stored", "recovery", "bridge", "warm", "forward", "ended"}
  /\ u.pos \in Nat /\ u.cont \in Nat \cup {Cold} /\ u.loaded \in 0 .. owner.dec
  /\ u.replay \in {"none", "loading", "loaded"} /\ u.known \subseteq 1 .. owner.dec
  /\ u.barrier \in {"none", "live", "final", "open"}
  /\ IsState(u.seen) /\ IsState(u.frame)

\* Where a subscription reads.
Placed(u) ==
  Attached(u) =>
    /\ u.ch \in 1 .. Len(router.ends) \/ (u.ch = router.ch /\ u.ch # 0)
    /\ u.pos <= SentTo(u)
    /\ u.ch # router.ch => ~NoEndAt(router.ends[u.ch])

\* Before its first frame a client has nothing.
Waiting(u) ==
  /\ Attached(u) /\ u.at # "forward" =>
       u.cont = Cold /\ u.replay = "none" /\ u.barrier = "none" /\ u.right /\ u.from = "none"
  /\ u.at = "bridge" =>
       /\ NoEndAt(u.pos) /\ TermAt(u.pos) <= u.seen.term /\ Beyond(u.seen) /\ Contains(u.seen)
       /\ store.env.term # 0 => u.seen.dec <= store.env.dec

\* The frame of a forwarding subscription, in the log or from an envelope.
Framed(u) ==
  u.at = "forward" /\ u.cont # Cold =>
    /\ u.cont = u.frame.seq
    /\ u.from = "live" => TermAt(u.pos) = u.frame.term
    /\ u.from = "bridge" => TermAt(u.pos) <= u.frame.term /\ Beyond(u.frame)
    /\ \/ u.from = "bridge" /\ Contains(u.frame)
       \/ /\ \E k \in 1 .. u.pos : log[k].seq = u.cont /\ log[k].term = TermAt(u.pos)
          /\ DecAt(u.pos) <= u.frame.dec

\* What the client was told about outcomes, when it holds a barrier or a replay
\* is about to give it one; what it was not told, the envelope knows.
Acted(u) == u.barrier = "live" \/ u.barrier = "final"
Told(u) ==
  /\ Acted(u) => 1 .. u.frame.dec \subseteq u.known
  /\ u.replay = "loaded" => 1 .. u.frame.dec \subseteq u.known \cup 1 .. u.loaded
  /\ u.at = "forward" /\ store.env.term # 0 =>
       1 .. u.frame.dec \subseteq u.known \cup 1 .. store.env.dec

Forwarding(u) ==
  u.at = "forward" =>
    /\ u.from \in {"bridge", "live"} /\ NoEndAt(u.pos)
    /\ u.replay # "none" => u.proven /\ (u.cont # Cold \/ owner.rejected > 0)

Right(u) == u.right \/ (owner.crashes > 0 /\ u.from # "live")

SubInv(u) ==
  SubTypes(u) /\ Placed(u) /\ Waiting(u) /\ Framed(u) /\ Told(u) /\ Forwarding(u)
  /\ Right(u) /\ u.from # "closed"

Inv ==
  /\ OwnerTypes /\ LogInv /\ OwnerInv /\ StoreInv /\ RouterInv
  /\ DOMAIN sub = Sockets /\ \A s \in Sockets : SubInv(sub[s])

-----------------------------------------------------------------------------
(* Facts.                                                                  *)

\* The numbers in the log.
LEMMA Numbers ==
  ASSUME OwnerTypes
  PROVE  /\ Len(log) \in Nat /\ owner.term \in Nat /\ owner.seq \in Nat /\ owner.dec \in Nat
         /\ owner.crashes \in Nat /\ owner.rejected \in Nat
         /\ \A i \in 1 .. Len(log) : log[i].kind \in Kinds /\ log[i].term \in Nat
                                     /\ log[i].seq \in Nat /\ log[i].dec \in Nat
         /\ \A i \in 0 .. Len(log) : TermAt(i) \in Nat /\ DecAt(i) \in Nat
         /\ setting.capacity \in Nat /\ setting.capacity >= 1
  <1>1. log \in Seq(Entries) /\ Len(log) \in Nat BY DEF OwnerTypes
  <1>2. \A i \in 1 .. Len(log) : log[i] \in Entries BY <1>1
  <1>3. \A i \in 1 .. Len(log) : log[i].kind \in Kinds /\ log[i].term \in Nat
                                 /\ log[i].seq \in Nat /\ log[i].dec \in Nat
    BY <1>2 DEF Entries
  <1>4. \A i \in 0 .. Len(log) : i = 0 \/ i \in 1 .. Len(log) BY <1>1
  <1>5. \A i \in 0 .. Len(log) : TermAt(i) \in Nat /\ DecAt(i) \in Nat
    BY <1>3, <1>4 DEF TermAt, DecAt
  <1>6. setting \in Settings BY DEF OwnerTypes
  <1>7. setting.terms \in Nat /\ setting.decided \in Nat /\ setting.capacity \in Nat \ {0}
    BY <1>6, GatewayAssumption
  <1>8. owner.term \in Nat /\ owner.dec \in Nat BY <1>7 DEF OwnerTypes
  <1> QED BY <1>1, <1>3, <1>5, <1>7, <1>8 DEF OwnerTypes

\* A subscription reads within the log.
LEMMA Reads ==
  ASSUME Inv, NEW u, SubTypes(u), Placed(u), Attached(u)
  PROVE  /\ u.pos \in 0 .. Len(log) /\ SentTo(u) \in Nat
         /\ u.pos <= SentTo(u) /\ SentTo(u) <= Len(log)
  <1>1. Len(log) \in Nat /\ router.read \in Nat /\ router.read <= Len(log)
    BY Numbers DEF Inv, RouterInv
  <1>2. \A c \in 1 .. Len(router.ends) : router.ends[c] \in Nat /\ router.ends[c] <= Len(log)
    BY DEF Inv, RouterInv
  <1>3. SentTo(u) \in Nat /\ SentTo(u) <= Len(log) BY <1>1, <1>2 DEF Placed, SentTo
  <1> QED BY <1>1, <1>3 DEF Placed, SubTypes

\* A socket that watches nothing.
LEMMA IdleInv == ASSUME OwnerTypes PROVE SubInv(Idle)
  <1>1. /\ NoEnvelope.term = 0 /\ NoEnvelope.seq = 0 /\ NoEnvelope.dec = 0
        /\ NoFrame.term = 0 /\ NoFrame.seq = 0 /\ NoFrame.dec = 0
    BY DEF NoEnvelope, NoFrame
  <1>2. IsState(NoEnvelope) /\ IsState(NoFrame) BY <1>1, Numbers DEF IsState
  <1>3. SubTypes(Idle) BY <1>2, Numbers DEF SubTypes, Idle
  <1>4. Placed(Idle) /\ Waiting(Idle) /\ Framed(Idle) /\ Forwarding(Idle)
    BY DEF Idle, Placed, Attached, Waiting, Framed, Forwarding
  <1>5. Told(Idle) /\ Right(Idle) /\ Idle.from # "closed" BY DEF Idle, Told, Acted, Right
  <1> QED BY <1>3, <1>4, <1>5 DEF SubInv

-----------------------------------------------------------------------------
(* The log grows.                                                          *)

\* The actor moves on, with at most one entry published.
Grows(e) ==
  /\ owner'.term \in Nat /\ owner'.term >= owner.term
  /\ owner'.dec \in Nat /\ owner'.dec >= owner.dec
  /\ owner'.dec = owner.dec \/ owner'.seq > owner.seq
  /\ owner'.crashes \in Nat /\ owner'.crashes >= owner.crashes
  /\ owner'.rejected \in Nat /\ owner'.rejected >= owner.rejected
  /\ owner'.seq \in Nat /\ (owner'.term = owner.term => owner'.seq >= owner.seq)
  /\ \/ log' = log
     \/ /\ log' = Append(log, e) /\ e \in Entries /\ e.term = owner.term
        /\ e.kind # "rejected" => e.seq > owner.seq

\* What was published stays.
LEMMA LogKept ==
  ASSUME OwnerTypes, NEW e, Grows(e)
  PROVE  /\ Len(log') \in Nat /\ Len(log') >= Len(log)
         /\ \A i \in 1 .. Len(log) : i \in 1 .. Len(log') /\ log'[i] = log[i]
         /\ \A i \in 1 .. Len(log') : i \notin 1 .. Len(log) =>
               /\ i = Len(log) + 1 /\ log'[i] = e /\ log' = Append(log, e)
               /\ e \in Entries /\ e.term = owner.term /\ e.seq \in Nat
               /\ (e.kind # "rejected" => e.seq > owner.seq)
         /\ \A i \in 0 .. Len(log) :
               TermAt(i)' = TermAt(i) /\ DecAt(i)' = DecAt(i) /\ NoEndAt(i)' = NoEndAt(i)
  <1>1. log \in Seq(Entries) /\ Len(log) \in Nat BY DEF OwnerTypes
  <1>2. /\ Len(log') \in Nat /\ Len(log') >= Len(log)
        /\ \A i \in 1 .. Len(log) : i \in 1 .. Len(log') /\ log'[i] = log[i]
    BY <1>1 DEF Grows
  <1>3. ASSUME NEW i \in 1 .. Len(log'), i \notin 1 .. Len(log)
        PROVE  /\ i = Len(log) + 1 /\ log'[i] = e /\ log' = Append(log, e)
               /\ e \in Entries /\ e.term = owner.term
               /\ (e.kind # "rejected" => e.seq > owner.seq)
    BY <1>1, <1>3 DEF Grows
  <1>4. \A i \in 0 .. Len(log) : i = 0 \/ i \in 1 .. Len(log) BY <1>1
  <1>5. \A i \in 0 .. Len(log) :
           TermAt(i)' = TermAt(i) /\ DecAt(i)' = DecAt(i) /\ NoEndAt(i)' = NoEndAt(i)
    BY <1>2, <1>4 DEF TermAt, DecAt, NoEndAt
  <1>6. e \in Entries => e.seq \in Nat BY DEF Entries
  <1> QED BY <1>2, <1>3, <1>5, <1>6

\* ... and contradicts no state that it did not contradict.
LEMMA StateKept ==
  ASSUME OwnerTypes, OwnerInv, NEW e, Grows(e), NEW f, IsState(f)
  PROVE  /\ IsState(f)' /\ (Beyond(f) => Beyond(f)') /\ (Contains(f) => Contains(f)')
  <1>1. /\ owner.term \in Nat /\ owner.seq \in Nat /\ owner.dec \in Nat /\ owner.crashes \in Nat
        /\ f.term \in Nat /\ f.term <= owner.term /\ f.seq \in Nat /\ f.dec \in Nat
        /\ f.dec <= owner.dec
    BY Numbers DEF IsState
  <1>2. IsState(f)' BY <1>1 DEF IsState, Grows
  <1>3. ASSUME Beyond(f) PROVE Beyond(f)'
    <2> SUFFICES ASSUME NEW i \in 1 .. Len(log'), log'[i].term < f.term, owner'.crashes = 0
                 PROVE  log'[i].seq <= f.seq
      BY DEF Beyond
    <2>1. owner.crashes = 0 BY <1>1 DEF Grows
    <2>2. CASE i \in 1 .. Len(log) BY <1>3, <2>1, <2>2, LogKept DEF Beyond
    <2>3. CASE i \notin 1 .. Len(log)
      <3>1. log'[i].term = owner.term BY <2>3, LogKept
      <3> QED BY <1>1, <3>1
    <2> QED BY <2>2, <2>3
  <1>4. ASSUME Includes(f) PROVE Includes(f)'
    <2>1. f.term = owner'.term => f.seq <= owner'.seq
      BY <1>1, <1>4 DEF Includes, Grows
    <2>2. ASSUME NEW i \in 1 .. Len(log'),
                 \/ log'[i].term < f.term
                 \/ log'[i].term = f.term /\ log'[i].kind # "rejected" /\ log'[i].seq <= f.seq
          PROVE  log'[i].dec <= f.dec
      <3>1. CASE i \in 1 .. Len(log) BY <1>4, <2>2, <3>1, LogKept DEF Includes
      <3>2. CASE i \notin 1 .. Len(log)
        <4>1. /\ log'[i].term = owner.term /\ log'[i].seq \in Nat
              /\ log'[i].kind # "rejected" => log'[i].seq > owner.seq
          BY <3>2, LogKept
        <4> QED BY <1>1, <1>4, <2>2, <4>1 DEF Includes
      <3> QED BY <3>1, <3>2
    <2> QED BY <2>1, <2>2 DEF Includes
  <1>5. ASSUME Contains(f) PROVE Meets(f)'
    <2>1. Includes(f) /\ Meets(f) BY <1>5 DEF Contains
    <2>2. ASSUME f.term = owner'.term, f.seq = owner'.seq PROVE owner'.dec <= f.dec
      <3>1. owner'.term \in Nat /\ owner'.term >= owner.term BY DEF Grows
      <3>2. owner'.term = owner.term BY <1>1, <2>2, <3>1
      <3>3. f.seq <= owner.seq BY <2>1, <2>2, <3>2 DEF Includes
      <3>4. owner'.seq \in Nat /\ owner'.seq >= owner.seq BY <3>2 DEF Grows
      <3>5. f.seq = owner.seq /\ ~(owner'.seq > owner.seq) BY <1>1, <2>2, <3>3, <3>4
      <3>6. owner'.dec = owner.dec BY <3>5 DEF Grows
      <3> QED BY <2>1, <2>2, <3>2, <3>5, <3>6 DEF Meets
    <2>3. ASSUME NEW i \in 1 .. Len(log'), log'[i].term = f.term,
                 log'[i].kind # "rejected", log'[i].seq = f.seq + 1
          PROVE  DecAt(i - 1)' <= f.dec
      <3>1. Len(log) \in Nat BY Numbers
      <3>2. CASE i \in 1 .. Len(log)
        <4>1. i - 1 \in 0 .. Len(log) BY <3>1, <3>2
        <4>2. log'[i] = log[i] /\ DecAt(i - 1)' = DecAt(i - 1) BY <3>2, <4>1, LogKept
        <4> QED BY <2>1, <2>3, <3>2, <4>2 DEF Meets
      <3>3. CASE i \notin 1 .. Len(log)
        <4>1. /\ i = Len(log) + 1 /\ log'[i].term = owner.term /\ log'[i].seq \in Nat
              /\ log'[i].seq > owner.seq
          BY <2>3, <3>3, LogKept
        <4>2. f.seq <= owner.seq BY <2>1, <2>3, <4>1 DEF Includes
        <4>3. f.seq = owner.seq BY <1>1, <2>3, <4>1, <4>2
        <4>4. owner.dec <= f.dec BY <2>1, <2>3, <4>1, <4>3 DEF Meets
        <4>5. i - 1 = Len(log) /\ i - 1 \in 0 .. Len(log) BY <3>1, <4>1
        <4>6. DecAt(i - 1)' = DecAt(Len(log)) BY <4>5, LogKept
        <4> QED BY <4>4, <4>6 DEF OwnerInv
      <3> QED BY <3>2, <3>3
    <2> QED BY <2>2, <2>3 DEF Meets, DecAt
  <1> QED BY <1>2, <1>3, <1>4, <1>5 DEF Contains

\* What a socket was sent is not touched.
LEMMA SubKept ==
  ASSUME Inv, NEW e, Grows(e), router' = router, NEW u, SubInv(u),
         store'.env = store.env \/ store'.env = NoEnvelope \/ store'.env.dec = owner.dec
  PROVE  SubInv(u)'
  <1>1. OwnerTypes /\ OwnerInv BY DEF Inv
  <1>2. SubTypes(u)'
    <2>1. IsState(u.seen)' /\ IsState(u.frame)' BY <1>1, StateKept DEF SubInv, SubTypes
    <2>2. owner.dec \in Nat /\ owner'.dec \in Nat /\ owner'.dec >= owner.dec
      BY <1>1, Numbers DEF Grows
    <2>3. u.loaded \in 0 .. owner'.dec /\ u.known \subseteq 1 .. owner'.dec
      BY <2>2 DEF SubInv, SubTypes
    <2> QED BY <2>1, <2>3 DEF SubInv, SubTypes
  <1>3. Attached(u) => u.pos \in 0 .. Len(log) BY Reads DEF SubInv
  <1>4. Attached(u) => TermAt(u.pos)' = TermAt(u.pos) /\ DecAt(u.pos)' = DecAt(u.pos)
                       /\ NoEndAt(u.pos)' = NoEndAt(u.pos)
    BY <1>1, <1>3, LogKept
  <1>5. Placed(u)'
    <2> SUFFICES ASSUME Attached(u) PROVE Placed(u)' BY DEF Placed, Attached
    <2>1. SentTo(u)' = SentTo(u) BY DEF SentTo
    <2>2. ASSUME u.ch # router.ch PROVE NoEndAt(router.ends[u.ch])' = NoEndAt(router.ends[u.ch])
      <3>1. u.ch \in 1 .. Len(router.ends) BY <2>2 DEF SubInv, Placed
      <3>2. router.ends[u.ch] \in 0 .. Len(log)
        <4>1. router.ends[u.ch] \in Nat /\ router.ends[u.ch] <= Len(log)
          BY <3>1 DEF Inv, RouterInv
        <4> QED BY <1>1, <4>1, Numbers
      <3>3. PICK c : c = router.ends[u.ch] OBVIOUS
      <3>4. NoEndAt(c)' = NoEndAt(c) BY <1>1, <3>2, <3>3, LogKept
      <3>5. router'.ends[u.ch] = c BY <3>3
      <3> QED BY <3>3, <3>4, <3>5 DEF NoEndAt
    <2> QED BY <2>1, <2>2 DEF SubInv, Placed
  <1>6. Waiting(u)'
    <2>1. Beyond(u.seen) => Beyond(u.seen)' BY <1>1, StateKept DEF SubInv, SubTypes
    <2>2. Contains(u.seen) => Contains(u.seen)' BY <1>1, StateKept DEF SubInv, SubTypes
    <2>3. u.at = "bridge" => Attached(u) BY DEF Attached
    <2>4. ASSUME u.at = "bridge", store'.env.term # 0 PROVE u.seen.dec <= store'.env.dec
      <3>1. u.seen.dec <= owner.dec BY <1>1, Numbers DEF SubInv, SubTypes, IsState
      <3>2. NoEnvelope.term = 0 BY DEF NoEnvelope
      <3> QED BY <2>4, <3>1, <3>2 DEF SubInv, Waiting
    <2> QED BY <1>4, <2>1, <2>2, <2>3, <2>4 DEF SubInv, Waiting, Attached
  <1>7. u.at = "forward" => Attached(u) BY DEF Attached
  <1>8. Framed(u)'
    <2> SUFFICES ASSUME u.at = "forward", u.cont # Cold PROVE Framed(u)' BY DEF Framed
    <2>1. Beyond(u.frame) => Beyond(u.frame)' BY <1>1, StateKept DEF SubInv, SubTypes
    <2>2. Contains(u.frame) => Contains(u.frame)' BY <1>1, StateKept DEF SubInv, SubTypes
    <2>3. \A k \in 1 .. u.pos : log'[k] = log[k]
      <3>1. \A k \in 1 .. u.pos : k \in 1 .. Len(log) BY <1>1, <1>3, <1>7, Numbers
      <3> QED BY <1>1, <3>1, LogKept
    <2> QED BY <1>4, <1>7, <2>1, <2>2, <2>3 DEF SubInv, Framed
  <1>9. Told(u)'
    <2>1. ASSUME u.at = "forward", store'.env.term # 0
          PROVE  1 .. u.frame.dec \subseteq u.known \cup 1 .. store'.env.dec
      <3>1. /\ u.frame.dec \in Nat /\ owner.dec \in Nat /\ u.frame.dec <= owner.dec
        BY <1>1, Numbers DEF SubInv, SubTypes, IsState
      <3>2. NoEnvelope.term = 0 BY DEF NoEnvelope
      <3>3. CASE store'.env = store.env BY <2>1, <3>3 DEF SubInv, Told
      <3>4. CASE store'.env.dec = owner.dec BY <3>1, <3>4
      <3> QED BY <2>1, <3>2, <3>3, <3>4
    <2> QED BY <2>1 DEF SubInv, Told, Acted
  <1>10. Forwarding(u)'
    <2>1. owner.rejected \in Nat BY <1>1, Numbers
    <2> QED BY <1>4, <1>7, <2>1 DEF SubInv, Forwarding, Grows
  <1>11. Right(u)'
    <2>1. owner.crashes \in Nat BY <1>1, Numbers
    <2> QED BY <2>1 DEF SubInv, Right, Grows
  <1> QED BY <1>2, <1>5, <1>6, <1>8, <1>9, <1>10, <1>11 DEF SubInv


\* A step of the actor is judged by what it makes of the log and the store.
LEMMA ActorStep ==
  ASSUME Inv, NEW e, Grows(e), router' = router, sub' = sub,
         OwnerTypes', LogInv', OwnerInv', StoreInv',
         store'.env = store.env \/ store'.env = NoEnvelope \/ store'.env.dec = owner.dec
  PROVE  Inv'
  <1>1. OwnerTypes BY DEF Inv
  <1>2. RouterInv'
    <2>1. /\ Len(log) \in Nat /\ Len(log') \in Nat /\ Len(log') >= Len(log)
          /\ router.read \in 0 .. Len(log)
      BY <1>1, Numbers, LogKept DEF Inv, RouterInv
    <2>2. NoEndAt(router.read)' = NoEndAt(router.read)
      <3>1. PICK c : c = router.read OBVIOUS
      <3>2. NoEndAt(c)' = NoEndAt(c) BY <1>1, <2>1, <3>1, LogKept
      <3> QED BY <3>1, <3>2 DEF NoEndAt
    <2>3. \A c \in 1 .. Len(router.ends) : router.ends[c] \in Nat /\ router.ends[c] <= Len(log)
      BY DEF Inv, RouterInv
    <2>4. \A c \in 1 .. Len(router.ends) : router.ends[c] <= Len(log') BY <2>1, <2>3
    <2>5. router.read \in 0 .. Len(log') BY <2>1
    <2> QED BY <2>2, <2>4, <2>5 DEF Inv, RouterInv
  <1>3. \A s \in Sockets : SubInv(sub[s])'
    <2> SUFFICES ASSUME NEW s \in Sockets PROVE SubInv(sub[s])' OBVIOUS
    <2>1. PICK u : u = sub[s] OBVIOUS
    <2>2. SubInv(u)' BY <2>1, SubKept DEF Inv
    <2> QED BY <2>1, <2>2
  <1> QED BY <1>2, <1>3 DEF Inv

\* What the actor holds is a state the log cannot contradict.
LEMMA Current ==
  ASSUME Inv, NEW f, f.term = owner.term, f.seq = owner.seq, f.dec = owner.dec
  PROVE  IsState(f) /\ Beyond(f) /\ Contains(f)
  <1>1. IsState(f) BY Numbers DEF Inv, IsState
  <1>2. OwnerTypes /\ OwnerInv BY DEF Inv
  <1>3. \A i \in 1 .. Len(log) :
           /\ log[i].dec <= owner.dec /\ (owner.crashes = 0 => log[i].seq <= owner.seq)
           /\ log[i].term = owner.term => log[i].seq <= owner.seq
           /\ log[i].seq \in Nat
    BY <1>2, Numbers DEF OwnerInv
  <1>4. Beyond(f) /\ Includes(f) BY <1>2, <1>3, Numbers DEF Beyond, Includes
  <1>5. Meets(f) BY <1>2, <1>3, Numbers DEF Meets
  <1> QED BY <1>1, <1>4, <1>5 DEF Contains

\* Steps of the actor that publish.
LEMMA Published ==
  ASSUME Inv, NEW e, e \in Entries, log' = Append(log, e), Grows(e),
         owner.life \in {"starting", "live", "answering"},
         owner'.life \in {"live", "over"},
         owner.life = "starting" => e.kind = "snapshot",
         owner'.term = owner.term, owner'.crashes = owner.crashes, owner'.dec = e.dec,
         e.kind # "rejected" => e.seq = owner'.seq,
         e.kind = "rejected" => e.seq = 0 /\ owner'.rejected > 0,
         e.kind = "end" => owner'.life = "over",
         e.kind = "outcome" => e.dec = owner.dec + 1,
         e.kind # "outcome" => e.dec = owner.dec
  PROVE  LogInv' /\ OwnerInv'
  <1>1. OwnerTypes /\ LogInv /\ OwnerInv BY DEF Inv
  <1>2. Len(log) \in Nat /\ Len(log') = Len(log) + 1 /\ log'[Len(log) + 1] = e
        /\ \A i \in 1 .. Len(log) : log'[i] = log[i]
    BY <1>1 DEF OwnerTypes
  <1>3. \A i \in 1 .. Len(log') : i \in 1 .. Len(log) \/ i = Len(log) + 1 BY <1>2
  <1>4. e.term = owner.term /\ e.seq \in Nat /\ e.dec \in Nat /\ e.term \in Nat
    <2>1. e.seq \in Nat /\ e.dec \in Nat /\ e.term \in Nat BY DEF Entries
    <2>2. log' # log BY <1>2
    <2> QED BY <2>1, <2>2 DEF Grows
  <1>5. \A i \in 0 .. Len(log) : TermAt(i)' = TermAt(i) /\ DecAt(i)' = DecAt(i)
    BY <1>1, LogKept
  <1>6. TermAt(Len(log))' = e.term /\ DecAt(Len(log))' = e.dec BY <1>2 DEF TermAt, DecAt
  <1>7. \A i \in 1 .. Len(log) : log[i].kind # "end" BY <1>1 DEF LogInv
  <1>8. owner'.seq \in Nat /\ owner'.seq >= owner.seq /\ owner'.rejected \in Nat
        /\ owner'.rejected >= owner.rejected
    BY DEF Grows
  <1>9. \A i \in 1 .. Len(log) :
          /\ log[i].term \in Nat /\ log[i].seq \in Nat /\ log[i].dec \in Nat
          /\ i \in 0 .. Len(log) /\ i - 1 \in 0 .. Len(log)
    BY <1>1, Numbers
  <1>10. owner.dec \in Nat /\ owner.seq \in Nat /\ owner.rejected \in Nat /\ owner.term \in Nat
    BY <1>1, Numbers
  <1>11. LogInv'
    <2> SUFFICES ASSUME NEW i \in 1 .. Len(log')
                 PROVE  /\ log'[i].term <= owner'.term
                        /\ log'[i].kind = "rejected" => owner'.rejected > 0
                        /\ log'[i].kind = "end" => i = Len(log') /\ owner'.life = "over"
                        /\ log'[i].kind # "snapshot" => log'[i].term = TermAt(i - 1)'
                        /\ log'[i].kind = "outcome" => log'[i].dec = DecAt(i - 1)' + 1
                        /\ log'[i].kind # "outcome" => log'[i].dec = DecAt(i - 1)'
      BY DEF LogInv, TermAt, DecAt
    <2>1. CASE i \in 1 .. Len(log)
      <3>1. /\ log[i].term <= owner.term
            /\ log[i].kind = "rejected" => owner.rejected > 0
            /\ log[i].kind # "snapshot" => log[i].term = TermAt(i - 1)
            /\ log[i].kind = "outcome" => log[i].dec = DecAt(i - 1) + 1
            /\ log[i].kind # "outcome" => log[i].dec = DecAt(i - 1)
        BY <1>1, <2>1 DEF LogInv
      <3>2. TermAt(i - 1)' = TermAt(i - 1) /\ DecAt(i - 1)' = DecAt(i - 1)
        BY <1>5, <1>9, <2>1
      <3>3. log'[i] = log[i] BY <1>2, <2>1
      <3> QED BY <1>7, <1>8, <1>10, <2>1, <3>1, <3>2, <3>3
    <2>2. CASE i = Len(log) + 1
      <3>1. log'[i] = e /\ i = Len(log') /\ i - 1 = Len(log) BY <1>2, <2>2
      <3>2. TermAt(i - 1)' = TermAt(i - 1) /\ DecAt(i - 1)' = DecAt(i - 1)
        <4>1. i - 1 \in 0 .. Len(log) BY <1>2, <3>1
        <4> QED BY <1>5, <4>1
      <3>3. owner.dec = DecAt(Len(log)) BY <1>1 DEF OwnerInv
      <3>4. e.kind # "snapshot" => TermAt(Len(log)) = owner.term BY <1>1 DEF OwnerInv
      <3> QED BY <1>4, <3>1, <3>2, <3>3, <3>4
    <2> QED BY <1>3, <2>1, <2>2
  <1>12. ASSUME NEW i \in 1 .. Len(log'), NEW j \in 1 .. Len(log'), i < j,
                log'[i].term = log'[j].term, log'[j].kind # "rejected"
         PROVE  log'[i].seq < log'[j].seq
    <2>1. i \in 1 .. Len(log) BY <1>2, <1>12
    <2>2. log'[i] = log[i] BY <1>2, <2>1
    <2>3. CASE j \in 1 .. Len(log)
      <3>1. log'[j] = log[j] BY <1>2, <2>3
      <3> QED BY <1>1, <1>12, <2>1, <2>2, <2>3, <3>1 DEF OwnerInv
    <2>4. CASE j = Len(log) + 1
      <3>1. log'[j] = e BY <1>2, <2>4
      <3>2. log[i].seq <= owner.seq BY <1>1, <1>4, <1>12, <2>1, <2>2, <3>1 DEF OwnerInv
      <3>3. e.seq > owner.seq
        <4>1. log' # log BY <1>2
        <4> QED BY <1>12, <3>1, <4>1 DEF Grows
      <3> QED BY <1>4, <1>9, <1>10, <2>1, <2>2, <3>1, <3>2, <3>3
    <2> QED BY <1>3, <2>3, <2>4
  <1>13. ASSUME NEW i \in 1 .. Len(log')
         PROVE  /\ log'[i].dec <= owner'.dec
                /\ log'[i].term = owner'.term \/ owner'.crashes = 0 => log'[i].seq <= owner'.seq
    <2>1. CASE i \in 1 .. Len(log)
      <3>1. log'[i] = log[i] BY <1>2, <2>1
      <3>2. /\ log[i].dec <= owner.dec
            /\ log[i].term = owner.term \/ owner.crashes = 0 => log[i].seq <= owner.seq
        BY <1>1, <2>1 DEF OwnerInv
      <3>3. owner'.dec \in Nat /\ owner.dec <= owner'.dec BY <1>10 DEF Grows
      <3> QED BY <1>8, <1>9, <1>10, <2>1, <3>1, <3>2, <3>3
    <2>2. CASE i = Len(log) + 1 BY <1>2, <1>4, <1>8, <2>2
    <2> QED BY <1>3, <2>1, <2>2
  <1>14. OwnerInv' BY <1>4, <1>6, <1>12, <1>13 DEF OwnerInv
  <1> QED BY <1>11, <1>14

\* Steps of the actor that publish nothing.
LEMMA Quiet ==
  ASSUME Inv, log' = log, NEW e, Grows(e), owner'.dec = owner.dec,
         owner.life = "over" => owner'.life = "over",
         owner'.term # owner.term =>
           owner'.life = "starting" /\ (owner'.crashes = 0 => owner'.seq >= owner.seq),
         owner'.life = "starting" => owner'.term # owner.term \/ owner.life = "starting",
         owner'.life \in {"live", "answering"} =>
           owner'.term = owner.term /\ owner.life \in {"live", "answering"}
  PROVE  LogInv' /\ OwnerInv'
  <1>1. OwnerTypes /\ LogInv /\ OwnerInv BY DEF Inv
  <1>2. /\ owner'.term \in Nat /\ owner'.term >= owner.term
        /\ owner'.rejected \in Nat /\ owner'.rejected >= owner.rejected
        /\ owner'.crashes \in Nat /\ owner'.crashes >= owner.crashes
        /\ owner'.seq \in Nat /\ (owner'.term = owner.term => owner'.seq >= owner.seq)
    BY DEF Grows
  <1>3. /\ owner.dec \in Nat /\ owner.seq \in Nat /\ owner.term \in Nat
        /\ owner.rejected \in Nat /\ owner.crashes \in Nat
    BY <1>1, Numbers
  <1>4. \A i \in 1 .. Len(log) : log[i].term \in Nat /\ log[i].seq \in Nat /\ log[i].dec \in Nat
    BY <1>1, Numbers
  <1>5. \A i : TermAt(i)' = TermAt(i) /\ DecAt(i)' = DecAt(i) BY DEF TermAt, DecAt
  <1>6. LogInv'
    <2> SUFFICES ASSUME NEW i \in 1 .. Len(log)
                 PROVE  /\ log[i].term <= owner'.term
                        /\ log[i].kind = "rejected" => owner'.rejected > 0
                        /\ log[i].kind = "end" => i = Len(log) /\ owner'.life = "over"
                        /\ log[i].kind # "snapshot" => log[i].term = TermAt(i - 1)
                        /\ log[i].kind = "outcome" => log[i].dec = DecAt(i - 1) + 1
                        /\ log[i].kind # "outcome" => log[i].dec = DecAt(i - 1)
      BY <1>5 DEF LogInv
    <2>1. log[i].term <= owner.term /\ (log[i].kind = "rejected" => owner.rejected > 0)
      BY <1>1 DEF LogInv
    <2>2. log[i].term <= owner'.term /\ (log[i].kind = "rejected" => owner'.rejected > 0)
      BY <1>2, <1>3, <1>4, <2>1
    <2> QED BY <1>1, <2>2 DEF LogInv
  <1>7. ASSUME NEW i \in 1 .. Len(log)
        PROVE  /\ log[i].dec <= owner'.dec
               /\ log[i].term = owner'.term \/ owner'.crashes = 0 => log[i].seq <= owner'.seq
    <2>1. /\ log[i].dec <= owner.dec /\ log[i].term <= owner.term
          /\ log[i].term = owner.term \/ owner.crashes = 0 => log[i].seq <= owner.seq
      BY <1>1 DEF OwnerInv, LogInv
    <2> QED BY <1>2, <1>3, <1>4, <2>1
  <1>8. ASSUME owner'.life = "starting", NEW i \in 1 .. Len(log)
        PROVE  log[i].term < owner'.term
    <2>1. log[i].term <= owner.term BY <1>1 DEF LogInv
    <2>2. owner.life = "starting" => log[i].term < owner.term BY <1>1 DEF OwnerInv
    <2> QED BY <1>2, <1>3, <1>4, <1>8, <2>1, <2>2
  <1>9. /\ owner'.dec = DecAt(Len(log))
        /\ owner'.life \in {"live", "answering"} => TermAt(Len(log)) = owner'.term
    BY <1>1 DEF OwnerInv
  <1>10. \A i, j \in 1 .. Len(log) :
            i < j /\ log[i].term = log[j].term /\ log[j].kind # "rejected"
              => log[i].seq < log[j].seq
    BY <1>1 DEF OwnerInv
  <1>11. OwnerInv' BY <1>5, <1>7, <1>8, <1>9, <1>10 DEF OwnerInv
  <1> QED BY <1>6, <1>11


\* The envelope stays what it was, or is what the actor holds.
LEMMA StoreStep ==
  ASSUME Inv, NEW e, Grows(e), owner'.term = owner.term,
         log' = log \/ e.kind # "snapshot" \/ e.dec = store'.env.dec,
         DOMAIN store' = {"env", "journal", "mark", "over", "durable"},
         DOMAIN store'.env = {"term", "seq", "dec", "over"},
         store'.journal \in Nat, store'.mark \in Nat,
         store'.env = store.env \/ store'.env = NoEnvelope
           \/ (/\ store'.env.term = owner.term /\ store'.env.seq = owner.seq
               /\ store'.env.dec = owner.dec),
         owner'.life = "gone" => owner'.crashes > 0 \/ store'.mark = owner'.seq,
         owner'.life \in {"starting", "answering"} => store'.env.dec = owner'.dec,
         store'.over \/ store'.durable => owner'.life = "over",
         owner'.life = "over" =>
           store'.env = NoEnvelope \/ (store'.env.over /\ store'.env.dec = owner'.dec)
  PROVE  StoreInv'
  <1>1. OwnerTypes /\ OwnerInv /\ StoreInv BY DEF Inv
  <1>2. PICK f : f = store'.env OBVIOUS
  <1>3. IsState(f) /\ (f.term # 0 => f.term = owner.term /\ Beyond(f) /\ Contains(f))
    <2>1. CASE f = store.env BY <1>1, <2>1 DEF StoreInv
    <2>2. CASE f = NoEnvelope BY <1>1, <2>2, Numbers DEF NoEnvelope, IsState
    <2>3. CASE f.term = owner.term /\ f.seq = owner.seq /\ f.dec = owner.dec
      BY <2>3, Current
    <2> QED BY <1>2, <2>1, <2>2, <2>3
  <1>4. IsState(f)' /\ (Beyond(f) => Beyond(f)') /\ (Contains(f) => Contains(f)')
    BY <1>1, <1>3, StateKept
  <1>5. IsState(store.env)' BY <1>2, <1>4 DEF IsState
  <1>6. store'.env.term # 0 =>
          store'.env.term = owner'.term /\ Beyond(store.env)' /\ Contains(store.env)'
    BY <1>2, <1>3, <1>4 DEF Beyond, Contains, Includes, Meets, DecAt
  <1>7. ASSUME NEW i \in 1 .. Len(log'), log'[i].kind = "snapshot", store'.env.term # 0
        PROVE  log'[i].dec <= store'.env.dec
    <2>1. NoEnvelope.term = 0 BY DEF NoEnvelope
    <2>2. CASE i \in 1 .. Len(log)
      <3>1. log'[i] = log[i] BY <1>1, <2>2, LogKept
      <3>2. log[i].dec <= owner.dec BY <1>1, <2>2 DEF OwnerInv
      <3> QED BY <1>1, <1>7, <2>1, <2>2, <3>1, <3>2 DEF StoreInv
    <2>3. CASE i \notin 1 .. Len(log)
      <3>1. log'[i] = e /\ log' # log /\ e.dec \in Nat
        <4>1. log'[i] = e /\ log' = Append(log, e) /\ e \in Entries /\ i = Len(log) + 1
          BY <1>1, <2>3, LogKept
        <4>2. log' # log BY <2>3
        <4>3. e.dec \in Nat BY <4>1 DEF Entries
        <4> QED BY <4>1, <4>2, <4>3
      <3> QED BY <1>7, <3>1
    <2> QED BY <2>2, <2>3
  <1> QED BY <1>5, <1>6, <1>7, Numbers DEF StoreInv, Grows

\* An entry with a number of its own is published.
LEMMA PublishStep ==
  ASSUME Inv, setting' = setting, router' = router, sub' = sub,
         NEW kind \in Kinds, kind # "rejected", NEW o, Publish(kind, o),
         owner.life \in {"starting", "live", "answering"},
         owner.life = "starting" => kind = "snapshot",
         kind = "snapshot" => owner.life \in {"starting", "answering"} /\ store' = store,
         kind # "end" => store'.over = store.over /\ store'.durable = store.durable,
         DOMAIN o = {"life", "term", "seq", "dec", "asked", "crashes", "rejected"},
         o.life \in {"live", "over"}, kind = "end" => o.life = "over",
         kind # "end" => o.life = "live",
         o.term = owner.term, o.seq = owner.seq + 1,
         o.crashes = owner.crashes, o.rejected = owner.rejected,
         kind = "outcome" => o.dec = owner.dec + 1 /\ owner.dec < setting.decided,
         kind # "outcome" => o.dec = owner.dec,
         DOMAIN store' = {"env", "journal", "mark", "over", "durable"},
         DOMAIN store'.env = {"term", "seq", "dec", "over"},
         store'.journal \in Nat, store'.mark \in Nat,
         store'.env = store.env
           \/ (/\ store'.env.term = owner.term /\ store'.env.seq = owner.seq
               /\ store'.env.dec = owner.dec),
         kind = "end" => store'.env.over /\ store'.env.dec = owner.dec
  PROVE  Inv'
  <1>1. OwnerTypes BY DEF Inv
  <1>2. /\ owner.term \in Nat /\ owner.seq \in Nat /\ owner.dec \in Nat /\ owner.crashes \in Nat
        /\ owner.rejected \in Nat
    BY <1>1, Numbers
  <1>3. o.term \in Nat /\ o.seq \in Nat /\ o.dec \in Nat BY <1>2
  <1>4. PICK e : e = Entry(kind, o) OBVIOUS
  <1>5. e.kind = kind /\ e.term = o.term /\ e.seq = o.seq /\ e.dec = o.dec /\ e \in Entries
    BY <1>3, <1>4 DEF Entry, Entries
  <1>6. owner' = o /\ log' = Append(log, e) BY <1>4 DEF Publish
  <1>7. Grows(e) BY <1>2, <1>3, <1>5, <1>6 DEF Grows
  <1>8. LogInv' /\ OwnerInv' BY <1>5, <1>6, <1>7, Published
  <1>9. OwnerTypes'
    <2>1. log' \in Seq(Entries) BY <1>1, <1>5, <1>6 DEF OwnerTypes
    <2>2. setting.decided \in Nat /\ owner.dec <= setting.decided
      <3>1. setting.decided \in Nat BY <1>1, GatewayAssumption DEF OwnerTypes
      <3> QED BY <1>1, <3>1 DEF OwnerTypes
    <2>3. o.dec \in 0 .. setting.decided BY <1>2, <2>2
    <2>4. o.life \in Lives BY DEF Lives
    <2> QED BY <1>1, <1>2, <1>3, <1>6, <2>1, <2>3, <2>4 DEF OwnerTypes
  <1>10. kind = "snapshot" => e.dec = store'.env.dec BY <1>5 DEF Inv, StoreInv
  <1>11. store'.over \/ store'.durable => owner'.life = "over" BY <1>6 DEF Inv, StoreInv
  <1>12. StoreInv' BY <1>5, <1>6, <1>7, <1>10, <1>11, StoreStep
  <1> QED BY <1>7, <1>8, <1>9, <1>12, ActorStep

\* The domains and numbers of the records an action updates.
LEMMA Records ==
  ASSUME Inv
  PROVE  /\ DOMAIN owner = {"life", "term", "seq", "dec", "asked", "crashes", "rejected"}
         /\ DOMAIN store = {"env", "journal", "mark", "over", "durable"}
         /\ DOMAIN store.env = {"term", "seq", "dec", "over"}
         /\ store.journal \in Nat /\ store.mark \in Nat
         /\ store.env.seq \in Nat /\ store.env.dec \in Nat /\ store.env.term \in Nat
         /\ owner.term \in Nat /\ owner.seq \in Nat /\ owner.dec \in Nat
         /\ owner.crashes \in Nat /\ owner.rejected \in Nat /\ owner.life \in Lives
  <1>1. OwnerTypes /\ StoreInv BY DEF Inv
  <1> QED BY <1>1, Numbers DEF OwnerTypes, StoreInv, IsState

\* The actor's publications.
LEMMA PublishesKeep ==
  ASSUME Inv, setting' = setting,
         PublishAnchor \/ PublishEvent \/ PublishOutcome \/ PublishRequested \/ Complete
  PROVE  Inv'
  <1>1. CASE PublishAnchor
    <2>1. PICK o : o = [owner EXCEPT !.life = "live", !.seq = @ + 1] OBVIOUS
    <2>2. /\ DOMAIN o = DOMAIN owner /\ o.life = "live" /\ o.term = owner.term
          /\ o.seq = owner.seq + 1 /\ o.dec = owner.dec /\ o.crashes = owner.crashes
          /\ o.rejected = owner.rejected
      BY <2>1, Records
    <2>3. Publish("snapshot", o) /\ store' = store /\ router' = router /\ sub' = sub
          /\ owner.life = "starting"
      BY <1>1, <2>1 DEF PublishAnchor
    <2>4. "snapshot" \in Kinds BY DEF Kinds
    <2> QED BY <2>2, <2>3, <2>4, PublishStep, Records
  <1>2. CASE PublishEvent
    <2>1. PICK o : o = [owner EXCEPT !.seq = @ + 1] OBVIOUS
    <2>2. /\ DOMAIN o = DOMAIN owner /\ o.life = owner.life /\ o.term = owner.term
          /\ o.seq = owner.seq + 1 /\ o.dec = owner.dec /\ o.crashes = owner.crashes
          /\ o.rejected = owner.rejected
      BY <2>1, Records
    <2>3. Publish("delta", o) /\ store' = store /\ router' = router /\ sub' = sub
          /\ owner.life = "live"
      BY <1>2, <2>1 DEF PublishEvent
    <2>4. "delta" \in Kinds BY DEF Kinds
    <2> QED BY <2>2, <2>3, <2>4, PublishStep, Records
  <1>3. CASE PublishOutcome
    <2>1. PICK o : o = [owner EXCEPT !.seq = @ + 1, !.dec = @ + 1] OBVIOUS
    <2>2. /\ DOMAIN o = DOMAIN owner /\ o.life = owner.life /\ o.term = owner.term
          /\ o.seq = owner.seq + 1 /\ o.dec = owner.dec + 1 /\ o.crashes = owner.crashes
          /\ o.rejected = owner.rejected
      BY <2>1, Records
    <2>3. Publish("outcome", o) /\ router' = router /\ sub' = sub
          /\ owner.life = "live" /\ owner.dec < setting.decided
      BY <1>3, <2>1 DEF PublishOutcome
    <2>4. "outcome" \in Kinds BY DEF Kinds
    <2>5. store' = [store EXCEPT !.journal = owner.seq + 1] BY <1>3 DEF PublishOutcome
    <2>6. /\ DOMAIN store' = DOMAIN store /\ store'.env = store.env /\ store'.mark = store.mark
          /\ store'.journal = owner.seq + 1
          /\ store'.over = store.over /\ store'.durable = store.durable
      BY <2>5, Records
    <2>7. store'.journal \in Nat BY <2>6, Records
    <2> QED BY <2>2, <2>3, <2>4, <2>6, <2>7, PublishStep, Records
  <1>4. CASE PublishRequested
    <2>1. PICK o : o = [owner EXCEPT !.life = "live", !.seq = @ + 1, !.asked = FALSE] OBVIOUS
    <2>2. /\ DOMAIN o = DOMAIN owner /\ o.life = "live" /\ o.term = owner.term
          /\ o.seq = owner.seq + 1 /\ o.dec = owner.dec /\ o.crashes = owner.crashes
          /\ o.rejected = owner.rejected
      BY <2>1, Records
    <2>3. Publish("snapshot", o) /\ store' = store /\ router' = router /\ sub' = sub
          /\ owner.life = "answering"
      BY <1>4, <2>1 DEF PublishRequested
    <2>4. "snapshot" \in Kinds BY DEF Kinds
    <2> QED BY <2>2, <2>3, <2>4, PublishStep, Records
  <1>5. CASE Complete
    <2>1. PICK o : o = [owner EXCEPT !.life = "over", !.seq = @ + 1] OBVIOUS
    <2>2. /\ DOMAIN o = DOMAIN owner /\ o.life = "over" /\ o.term = owner.term
          /\ o.seq = owner.seq + 1 /\ o.dec = owner.dec /\ o.crashes = owner.crashes
          /\ o.rejected = owner.rejected
      BY <2>1, Records
    <2>3. Publish("end", o) /\ router' = router /\ sub' = sub /\ owner.life = "live"
      BY <1>5, <2>1 DEF Complete
    <2>4. "end" \in Kinds BY DEF Kinds
    <2>5. PICK f : f = [term |-> owner.term, seq |-> owner.seq, dec |-> owner.dec,
                        over |-> TRUE]
      OBVIOUS
    <2>6. /\ DOMAIN f = {"term", "seq", "dec", "over"} /\ f.term = owner.term
          /\ f.seq = owner.seq /\ f.dec = owner.dec /\ f.over = TRUE
      BY <2>5
    <2>7. store' = [store EXCEPT !.env = f, !.over = TRUE, !.journal = 0]
      BY <1>5, <2>5 DEF Complete
    <2>8. /\ DOMAIN store' = DOMAIN store /\ store'.env = f /\ store'.mark = store.mark
          /\ store'.journal = 0
      BY <2>7, Records
    <2> QED BY <2>2, <2>3, <2>4, <2>6, <2>8, PublishStep, Records
  <1> QED BY <1>1, <1>2, <1>3, <1>4, <1>5

\* A step of the actor that publishes nothing.
LEMMA QuietStep ==
  ASSUME Inv, setting' = setting, log' = log, router' = router, sub' = sub,
         DOMAIN owner' = {"life", "term", "seq", "dec", "asked", "crashes", "rejected"},
         owner'.life \in Lives, owner'.term = owner.term, owner'.seq = owner.seq,
         owner'.dec = owner.dec, owner'.crashes \in Nat, owner'.crashes >= owner.crashes,
         owner'.rejected = owner.rejected,
         owner.life = "over" => owner'.life = "over",
         owner'.life = "starting" => owner.life = "starting",
         owner'.life \in {"live", "answering"} => owner.life \in {"live", "answering"},
         DOMAIN store' = {"env", "journal", "mark", "over", "durable"},
         DOMAIN store'.env = {"term", "seq", "dec", "over"},
         store'.journal \in Nat, store'.mark \in Nat,
         store'.env = store.env \/ store'.env = NoEnvelope
           \/ (/\ store'.env.term = owner.term /\ store'.env.seq = owner.seq
               /\ store'.env.dec = owner.dec),
         owner'.life = "gone" => owner'.crashes > 0 \/ store'.mark = owner'.seq,
         owner'.life \in {"starting", "answering"} => store'.env.dec = owner'.dec,
         store'.over \/ store'.durable => owner'.life = "over",
         owner'.life = "over" =>
           store'.env = NoEnvelope \/ (store'.env.over /\ store'.env.dec = owner'.dec)
  PROVE  Inv'
  <1>1. OwnerTypes BY DEF Inv
  <1>2. Grows(0) BY Records DEF Grows
  <1>3. LogInv' /\ OwnerInv' BY <1>2, Quiet
  <1>4. OwnerTypes' BY <1>1, Records DEF OwnerTypes
  <1>5. StoreInv' BY <1>2, StoreStep
  <1> QED BY <1>2, <1>3, <1>4, <1>5, ActorStep


\* What the store says of an owner that is gone or has finished.
LEMMA StoreSays ==
  ASSUME Inv
  PROVE  /\ owner.life = "gone" => owner.crashes > 0 \/ store.mark = owner.seq
         /\ owner.life \in {"starting", "answering"} => store.env.dec = owner.dec
         /\ store.over \/ store.durable => owner.life = "over"
         /\ owner.life = "over" =>
              store.env = NoEnvelope \/ (store.env.over /\ store.env.dec = owner.dec)
  BY Records DEF Inv, StoreInv

\* Activation: a new term, past the envelope, the journal and the watermark.
LEMMA ActivateKeeps == ASSUME Inv, setting' = setting, Activate PROVE Inv'
  <1>1. OwnerTypes /\ OwnerInv /\ LogInv BY DEF Inv
  <1>2. PICK seq : seq = Larger(Larger(store.env.seq, store.journal), store.mark) OBVIOUS
  <1>3. seq \in Nat /\ seq >= store.mark BY <1>2, Records DEF Larger
  <1>4. owner.life = "gone" /\ owner.term < setting.terms /\ log' = log /\ router' = router
        /\ sub' = sub
    BY DEF Activate
  <1>5. owner' = [owner EXCEPT !.life = "starting", !.term = @ + 1, !.seq = seq,
                            !.asked = FALSE]
    BY <1>2 DEF Activate
  <1>6. /\ DOMAIN owner' = DOMAIN owner /\ owner'.life = "starting"
        /\ owner'.term = owner.term + 1 /\ owner'.seq = seq /\ owner'.dec = owner.dec
        /\ owner'.crashes = owner.crashes /\ owner'.rejected = owner.rejected
    BY <1>5, Records
  <1>7. PICK f : f = [term |-> owner.term + 1, seq |-> seq, dec |-> owner.dec, over |-> FALSE]
    OBVIOUS
  <1>8. /\ DOMAIN f = {"term", "seq", "dec", "over"} /\ f.term = owner.term + 1
        /\ f.seq = seq /\ f.dec = owner.dec
    BY <1>7
  <1>9. store' = [store EXCEPT !.env = f, !.journal = 0, !.mark = 0]
    BY <1>2, <1>7 DEF Activate
  <1>10. DOMAIN store' = DOMAIN store /\ store'.env = f /\ store'.journal = 0 /\ store'.mark = 0
    BY <1>9, Records
  <1>11. owner.crashes = 0 => seq >= owner.seq BY <1>3, <1>4, StoreSays, Records
  <1>12. Grows(0) BY <1>3, <1>4, <1>6, Records DEF Grows
  <1>13. LogInv' /\ OwnerInv'
    <2>1. owner'.term # owner.term BY <1>6, Records
    <2> QED BY <1>4, <1>6, <1>11, <1>12, <2>1, Quiet
  <1>14. OwnerTypes'
    <2>1. setting.terms \in Nat BY <1>1, GatewayAssumption DEF OwnerTypes
    <2>2. owner'.term \in 0 .. setting.terms BY <1>4, <1>6, <2>1, Records
    <2>3. "starting" \in Lives BY DEF Lives
    <2> QED BY <1>1, <1>3, <1>4, <1>6, <2>2, <2>3 DEF OwnerTypes
  <1>15. StoreInv'
    <2>1. IsState(f)' BY <1>3, <1>6, <1>8, Records DEF IsState
    <2>2. \A i \in 1 .. Len(log) :
             /\ log[i].dec <= owner.dec /\ (owner.crashes = 0 => log[i].seq <= owner.seq)
             /\ log[i].seq \in Nat
      BY <1>1, Numbers DEF OwnerInv
    <2>3. Beyond(f)' BY <1>3, <1>4, <1>6, <1>8, <1>11, <2>2, Records DEF Beyond
    <2>4. Includes(f)' BY <1>3, <1>4, <1>6, <1>8, <2>2, Records DEF Includes
    <2>5. Meets(f)'
      <3>1. \A i \in 1 .. Len(log) : log[i].term <= owner.term /\ log[i].term \in Nat
        BY <1>1, Numbers DEF LogInv
      <3> QED BY <1>4, <1>6, <1>8, <3>1, Records DEF Meets
    <2>6. IsState(store.env)' /\ Beyond(store.env)' /\ Contains(store.env)'
      BY <1>10, <2>1, <2>3, <2>4, <2>5 DEF IsState, Beyond, Contains, Includes, Meets, DecAt
    <2>7. ~store'.over /\ ~store'.durable
      <3>1. store'.over = store.over /\ store'.durable = store.durable BY <1>9, Records
      <3> QED BY <1>4, <3>1, StoreSays
    <2> QED BY <1>4, <1>6, <1>8, <1>10, <2>2, <2>6, <2>7, Records DEF StoreInv
  <1> QED BY <1>4, <1>8, <1>10, <1>12, <1>13, <1>14, <1>15, ActorStep

\* A rejection outside the order.
LEMMA RejectedKeeps == ASSUME Inv, setting' = setting, PublishRejected PROVE Inv'
  <1>1. OwnerTypes BY DEF Inv
  <1>2. PICK e : e = [Entry("rejected", owner) EXCEPT !.seq = 0] OBVIOUS
  <1>3. e.kind = "rejected" /\ e.term = owner.term /\ e.seq = 0 /\ e.dec = owner.dec
    BY <1>2 DEF Entry
  <1>4. e \in Entries
    <2>1. e = [kind |-> "rejected", term |-> owner.term, seq |-> 0, dec |-> owner.dec]
      BY <1>2 DEF Entry
    <2> QED BY <2>1, Records DEF Entries, Kinds
  <1>5. /\ owner.life = "live" /\ log' = Append(log, e) /\ store' = store /\ router' = router
        /\ sub' = sub /\ owner' = [owner EXCEPT !.rejected = @ + 1]
    BY <1>2 DEF PublishRejected
  <1>6. /\ DOMAIN owner' = DOMAIN owner /\ owner'.life = "live" /\ owner'.term = owner.term
        /\ owner'.seq = owner.seq /\ owner'.dec = owner.dec
        /\ owner'.crashes = owner.crashes /\ owner'.rejected = owner.rejected + 1
    BY <1>5, Records
  <1>7. Grows(e) BY <1>3, <1>4, <1>5, <1>6, Records DEF Grows
  <1>8. LogInv' /\ OwnerInv'
    <2>1. owner'.rejected > 0 BY <1>6, Records
    <2> QED BY <1>3, <1>4, <1>5, <1>6, <1>7, <2>1, Published
  <1>9. OwnerTypes'
    <2>1. log' \in Seq(Entries) BY <1>1, <1>4, <1>5 DEF OwnerTypes
    <2>2. owner'.life \in Lives BY <1>6 DEF Lives
    <2>3. owner'.rejected \in Nat BY <1>6, Records
    <2> QED BY <1>1, <1>6, <2>1, <2>2, <2>3 DEF OwnerTypes
  <1>10. StoreInv'
    <2>1. store'.env = store.env /\ owner'.life # "gone" /\ owner'.life # "over" BY <1>5, <1>6
    <2>2. ~store'.over /\ ~store'.durable BY <1>5, StoreSays
    <2> QED BY <1>3, <1>5, <1>6, <1>7, <2>1, <2>2, StoreStep, Records
  <1> QED BY <1>5, <1>7, <1>8, <1>9, <1>10, ActorStep

\* A checkpoint stores what the actor holds.
LEMMA CheckpointKeeps == ASSUME Inv, setting' = setting, Checkpoint PROVE Inv'
  <1>1. PICK f : f = [term |-> owner.term, seq |-> owner.seq, dec |-> owner.dec, over |-> FALSE]
    OBVIOUS
  <1>2. /\ DOMAIN f = {"term", "seq", "dec", "over"} /\ f.term = owner.term
        /\ f.seq = owner.seq /\ f.dec = owner.dec
    BY <1>1
  <1>3. PICK l : l = IF owner.asked THEN "answering" ELSE "live" OBVIOUS
  <1>4. owner.life = "live" /\ log' = log /\ router' = router /\ sub' = sub
        /\ store' = [store EXCEPT !.env = f, !.journal = 0]
        /\ owner' = [owner EXCEPT !.life = l]
    BY <1>1, <1>3 DEF Checkpoint
  <1>5. DOMAIN store' = DOMAIN store /\ store'.env = f /\ store'.journal = 0
        /\ store'.mark = store.mark /\ store'.over = store.over
        /\ store'.durable = store.durable
    BY <1>4, Records
  <1>6. /\ DOMAIN owner' = DOMAIN owner /\ owner'.life = l /\ owner'.term = owner.term
        /\ owner'.seq = owner.seq /\ owner'.dec = owner.dec
        /\ owner'.crashes = owner.crashes /\ owner'.rejected = owner.rejected
    BY <1>4, Records
  <1>7. (l = "answering" \/ l = "live") /\ l \in Lives BY <1>3 DEF Lives
  <1>8. ~store'.over /\ ~store'.durable BY <1>4, <1>5, StoreSays
  <1> QED BY <1>2, <1>4, <1>5, <1>6, <1>7, <1>8, QuietStep, Records

\* A snapshot request taken or dropped.
LEMMA TakeRequestKeeps == ASSUME Inv, setting' = setting, TakeRequest PROVE Inv'
  <1>1. PICK b : b = (owner.asked \/ owner.life \in {"live", "answering"}) OBVIOUS
  <1>2. log' = log /\ router' = router /\ sub' = sub /\ store' = store
        /\ owner' = [owner EXCEPT !.asked = b]
    BY <1>1 DEF TakeRequest
  <1>3. /\ DOMAIN owner' = DOMAIN owner /\ owner'.life = owner.life /\ owner'.term = owner.term
        /\ owner'.seq = owner.seq /\ owner'.dec = owner.dec
        /\ owner'.crashes = owner.crashes /\ owner'.rejected = owner.rejected
    BY <1>2, Records
  <1> QED BY <1>2, <1>3, QuietStep, Records, StoreSays

\* A crash: from here on the numbers of two terms may overlap.
LEMMA CrashKeeps == ASSUME Inv, setting' = setting, Crash PROVE Inv'
  <1>1. log' = log /\ router' = router /\ sub' = sub /\ store' = store
        /\ owner' = [owner EXCEPT !.life = "gone", !.crashes = @ + 1]
        /\ owner.life # "over"
    BY DEF Crash
  <1>2. /\ DOMAIN owner' = DOMAIN owner /\ owner'.life = "gone" /\ owner'.term = owner.term
        /\ owner'.seq = owner.seq /\ owner'.dec = owner.dec
        /\ owner'.crashes = owner.crashes + 1 /\ owner'.rejected = owner.rejected
    BY <1>1, Records
  <1>3. "gone" \in Lives BY DEF Lives
  <1>4. owner'.crashes \in Nat /\ owner'.crashes >= owner.crashes /\ owner'.crashes > 0
    BY <1>2, Records
  <1>5. ~store'.over /\ ~store'.durable BY <1>1, StoreSays
  <1> QED BY <1>1, <1>2, <1>3, <1>4, <1>5, QuietStep, Records

\* A planned handoff leaves its watermark.
LEMMA BarrierKeeps == ASSUME Inv, setting' = setting, Barrier PROVE Inv'
  <1>1. log' = log /\ router' = router /\ sub' = sub /\ owner.life = "live"
        /\ store' = [store EXCEPT !.mark = owner.seq] /\ owner' = [owner EXCEPT !.life = "gone"]
    BY DEF Barrier
  <1>2. /\ DOMAIN owner' = DOMAIN owner /\ owner'.life = "gone" /\ owner'.term = owner.term
        /\ owner'.seq = owner.seq /\ owner'.dec = owner.dec
        /\ owner'.crashes = owner.crashes /\ owner'.rejected = owner.rejected
    BY <1>1, Records
  <1>3. DOMAIN store' = DOMAIN store /\ store'.env = store.env /\ store'.mark = owner.seq
        /\ store'.journal = store.journal /\ store'.over = store.over
        /\ store'.durable = store.durable
    BY <1>1, Records
  <1>4. "gone" \in Lives BY DEF Lives
  <1>5. ~store'.over /\ ~store'.durable BY <1>1, <1>3, StoreSays
  <1> QED BY <1>1, <1>2, <1>3, <1>4, <1>5, QuietStep, Records

\* The terminal copies.
LEMMA StoredKeeps == ASSUME Inv, setting' = setting, PersistGame \/ GraceEnds PROVE Inv'
  <1>1. log' = log /\ router' = router /\ sub' = sub /\ owner' = owner
    BY DEF PersistGame, GraceEnds
  <1>2. /\ DOMAIN store' = DOMAIN store /\ store'.mark = store.mark
        /\ store'.journal = store.journal
        /\ store'.env = store.env \/ store'.env = NoEnvelope
    BY Records DEF PersistGame, GraceEnds
  <1>3. NoEnvelope.term = 0 /\ DOMAIN NoEnvelope = {"term", "seq", "dec", "over"}
    BY DEF NoEnvelope
  <1>4. owner.life = "over" BY StoreSays DEF PersistGame, GraceEnds
  <1> QED BY <1>1, <1>2, <1>3, <1>4, QuietStep, Records, StoreSays

\* Every step of the owning actor.
LEMMA ActorKeeps == ASSUME Inv, setting' = setting, Actor PROVE Inv'
  BY ActivateKeeps, PublishesKeep, RejectedKeeps, CheckpointKeeps, TakeRequestKeeps, CrashKeeps,
     BarrierKeeps, StoredKeeps DEF Actor


-----------------------------------------------------------------------------
(* The router.                                                             *)

\* Only where a subscription reads depends on the router.
LEMMA Same ==
  ASSUME owner' = owner, log' = log, store' = store, NEW u, SubInv(u), Placed(u)'
  PROVE  SubInv(u)'
  <1>1. SubTypes(u)' BY DEF SubInv, SubTypes, IsState
  <1>2. Waiting(u)' BY DEF SubInv, Waiting, NoEndAt, TermAt, Beyond, Contains, Includes, Meets, DecAt, Attached
  <1>3. Framed(u)' BY DEF SubInv, Framed, TermAt, Beyond, Contains, Includes, Meets, DecAt
  <1>4. Told(u)' /\ Forwarding(u)' /\ Right(u)'
    BY DEF SubInv, Told, Acted, Forwarding, NoEndAt, Right
  <1> QED BY <1>1, <1>2, <1>3, <1>4 DEF SubInv

\* A step of the router is judged by where it leaves the subscriptions.
LEMMA RouterStep ==
  ASSUME Inv, setting' = setting, owner' = owner, store' = store, log' = log, sub' = sub,
         RouterInv', \A s \in Sockets : Placed(sub[s])'
  PROVE  Inv'
  <1>1. OwnerTypes' /\ LogInv' /\ OwnerInv' /\ StoreInv'
    BY DEF Inv, OwnerTypes, LogInv, OwnerInv, StoreInv, TermAt, DecAt, IsState, Beyond,
       Contains, Includes, Meets
  <1>2. \A s \in Sockets : SubInv(sub[s])'
    <2> SUFFICES ASSUME NEW s \in Sockets PROVE SubInv(sub[s])' OBVIOUS
    <2>1. PICK u : u = sub[s] OBVIOUS
    <2>2. SubInv(u) /\ Placed(u)' BY <2>1 DEF Inv
    <2>3. SubInv(u)' BY <2>2, Same
    <2> QED BY <2>1, <2>3
  <1> QED BY <1>1, <1>2 DEF Inv

\* The router sends the next entry to the open channel.
LEMMA ForwardEventKeeps == ASSUME Inv, setting' = setting, ForwardEvent PROVE Inv'
  <1>1. OwnerTypes /\ RouterInv BY DEF Inv
  <1>2. Len(log) \in Nat /\ router.read \in Nat /\ router.read < Len(log)
    BY <1>1, Numbers DEF RouterInv, ForwardEvent
  <1>3. PICK a : a = IF log[router.read + 1].kind = "end" THEN "teardown"
                     ELSE IF router.ch # 0 /\ ReceiverCount(router.ch) = 0
                          THEN "recheck" ELSE "read"
    OBVIOUS
  <1>4. router' = [router EXCEPT !.read = @ + 1, !.after = a] BY <1>3 DEF ForwardEvent
  <1>5. /\ DOMAIN router' = DOMAIN router /\ router'.read = router.read + 1 /\ router'.after = a
        /\ router'.ch = router.ch /\ router'.ends = router.ends
    BY <1>1, <1>4 DEF RouterInv
  <1>6. owner' = owner /\ store' = store /\ log' = log /\ sub' = sub BY DEF ForwardEvent
  <1>7. a = "teardown" => ~NoEndAt(router.read + 1) BY <1>2, <1>3 DEF NoEndAt
  <1>8. RouterInv'
    <2>1. a \in {"read", "recheck", "teardown"} BY <1>3
    <2>2. router'.read \in 0 .. Len(log) BY <1>2, <1>5
    <2>3. a = "teardown" => ~NoEndAt(router.read)' BY <1>5, <1>6, <1>7 DEF NoEndAt
    <2> QED BY <1>1, <1>5, <1>6, <2>1, <2>2, <2>3 DEF RouterInv
  <1>9. ASSUME NEW s \in Sockets PROVE Placed(sub[s])'
    <2>1. PICK u : u = sub[s] OBVIOUS
    <2>2. SubTypes(u) /\ Placed(u) BY <2>1 DEF Inv, SubInv
    <2>3. Placed(u)'
      <3> SUFFICES ASSUME Attached(u) PROVE Placed(u)' BY DEF Placed, Attached
      <3>1. u.pos \in Nat /\ SentTo(u) \in Nat /\ u.pos <= SentTo(u) BY <2>2, Reads
      <3>2. u.pos <= SentTo(u)' BY <1>2, <1>5, <3>1 DEF SentTo
      <3>3. u.ch # router.ch => ~NoEndAt(router.ends[u.ch])'
        BY <1>5, <1>6, <2>2 DEF Placed, NoEndAt
      <3>4. u.ch \in 1 .. Len(router'.ends) \/ (u.ch = router'.ch /\ u.ch # 0)
        BY <1>5, <2>2 DEF Placed
      <3> QED BY <1>5, <3>2, <3>3, <3>4 DEF Placed
    <2> QED BY <1>6, <2>1, <2>3
  <1> QED BY <1>6, <1>8, <1>9, RouterStep

\* The channel is dropped after the terminal entry, or when nobody reads it.
LEMMA DropKeeps ==
  ASSUME Inv, setting' = setting, owner' = owner, store' = store, log' = log, sub' = sub,
         router' = DropChannel, router.ch # 0,
         ~NoEndAt(router.read) \/ \A s \in Sockets : ~(Watching(s) /\ sub[s].ch = router.ch)
  PROVE  Inv'
  <1>1. OwnerTypes /\ RouterInv BY DEF Inv
  <1>2. Len(log) \in Nat /\ router.read \in Nat /\ router.read <= Len(log)
    BY <1>1, Numbers DEF RouterInv
  <1>3. /\ router.ends \in Seq(Nat) /\ Len(router.ends) \in Nat
        /\ router.ch = Len(router.ends) + 1
        /\ \A c \in 1 .. Len(router.ends) : router.ends[c] \in Nat /\ router.ends[c] <= Len(log)
    BY <1>1 DEF RouterInv
  <1>4. /\ DOMAIN router' = DOMAIN router /\ router'.read = router.read
        /\ router'.after = "read" /\ router'.ch = 0
        /\ router'.ends = Append(router.ends, router.read)
    BY <1>1 DEF RouterInv, DropChannel
  <1>5. /\ router'.ends \in Seq(Nat) /\ Len(router'.ends) = Len(router.ends) + 1
        /\ \A c \in 1 .. Len(router.ends) : router'.ends[c] = router.ends[c]
        /\ router'.ends[Len(router.ends) + 1] = router.read
    BY <1>2, <1>3, <1>4
  <1>6. RouterInv'
    <2>1. \A c \in 1 .. Len(router'.ends) :
             c \in 1 .. Len(router.ends) \/ c = Len(router.ends) + 1
      BY <1>3, <1>5
    <2>2. \A c \in 1 .. Len(router'.ends) : router'.ends[c] <= Len(log)
      BY <1>2, <1>3, <1>5, <2>1
    <2> QED BY <1>1, <1>4, <1>5, <2>2 DEF RouterInv
  <1>7. ASSUME NEW s \in Sockets PROVE Placed(sub[s])'
    <2>1. PICK u : u = sub[s] OBVIOUS
    <2>2. SubTypes(u) /\ Placed(u) BY <2>1 DEF Inv, SubInv
    <2>3. Placed(u)'
      <3> SUFFICES ASSUME Attached(u) PROVE Placed(u)' BY DEF Placed, Attached
      <3>1. u.ch \in 1 .. Len(router.ends) \/ u.ch = router.ch BY <2>2 DEF Placed
      <3>2. u.ch \in 1 .. Len(router'.ends) /\ u.ch # 0 BY <1>3, <1>5, <3>1
      <3>3. SentTo(u)' = router'.ends[u.ch] BY <1>4, <3>2 DEF SentTo
      <3>4. CASE u.ch = router.ch
        <4>1. router'.ends[u.ch] = router.read BY <1>3, <1>5, <3>4
        <4>2. ~NoEndAt(router.read) BY <2>1, <3>4 DEF Watching, Attached
        <4>3. ~NoEndAt(router.ends[u.ch])' BY <4>1, <4>2 DEF NoEndAt
        <4>4. u.pos <= SentTo(u)' BY <2>2, <3>3, <3>4, <4>1 DEF Placed, SentTo
        <4> QED BY <3>2, <4>3, <4>4 DEF Placed
      <3>5. CASE u.ch # router.ch
        <4>1. router'.ends[u.ch] = router.ends[u.ch] BY <1>5, <3>1, <3>5
        <4>2. ~NoEndAt(router.ends[u.ch])' BY <2>2, <3>5, <4>1 DEF Placed, NoEndAt
        <4>3. u.pos <= SentTo(u)' BY <2>2, <3>3, <3>5, <4>1 DEF Placed, SentTo
        <4> QED BY <3>2, <4>2, <4>3 DEF Placed
      <3> QED BY <3>4, <3>5
    <2> QED BY <2>1, <2>3
  <1> QED BY <1>6, <1>7, RouterStep

\* The router goes on reading.
LEMMA ReadOnKeeps ==
  ASSUME Inv, setting' = setting, owner' = owner, store' = store, log' = log, sub' = sub,
         router' = [router EXCEPT !.after = "read"] \/ router' = router
  PROVE  Inv'
  <1>1. RouterInv BY DEF Inv
  <1>2. /\ DOMAIN router' = DOMAIN router /\ router'.read = router.read
        /\ router'.after = "read" \/ router'.after = router.after
        /\ router'.ch = router.ch /\ router'.ends = router.ends
    BY <1>1 DEF RouterInv
  <1>3. RouterInv'
    <2>1. NoEndAt(router.read)' = NoEndAt(router.read) BY <1>2 DEF NoEndAt
    <2> QED BY <1>1, <1>2, <2>1 DEF RouterInv
  <1>4. ASSUME NEW s \in Sockets PROVE Placed(sub[s])'
    <2>1. PICK u : u = sub[s] OBVIOUS
    <2>2. Placed(u) BY <2>1 DEF Inv, SubInv
    <2>3. Placed(u)' BY <1>2, <2>2 DEF Placed, Attached, SentTo, NoEndAt
    <2> QED BY <2>1, <2>3
  <1> QED BY <1>3, <1>4, RouterStep

\* Every step of the router.
LEMMA RouterKeeps == ASSUME Inv, setting' = setting, Router PROVE Inv'
  <1>1. CASE Teardown
    <2>1. owner' = owner /\ store' = store /\ log' = log /\ sub' = sub BY <1>1 DEF Teardown
    <2>2. ~NoEndAt(router.read) BY <1>1 DEF Teardown, Inv, RouterInv
    <2>3. \/ router.ch # 0 /\ router' = DropChannel
          \/ router' = [router EXCEPT !.after = "read"]
      BY <1>1 DEF Teardown
    <2> QED BY <2>1, <2>2, <2>3, DropKeeps, ReadOnKeeps
  <1>2. CASE Recheck
    <2>1. owner' = owner /\ store' = store /\ log' = log /\ sub' = sub BY <1>2 DEF Recheck
    <2>2. \/ router.ch # 0 /\ ReceiverCount(router.ch) = 0 /\ router' = DropChannel
          \/ router' = [router EXCEPT !.after = "read"]
      BY <1>2 DEF Recheck
    <2>3. ASSUME ReceiverCount(router.ch) = 0
          PROVE  \A s \in Sockets : ~(Watching(s) /\ sub[s].ch = router.ch)
      <3>1. PICK R : R = {s \in Sockets : Watching(s) /\ sub[s].ch = router.ch} OBVIOUS
      <3>2. IsFiniteSet(R) BY <3>1, FS_Subset, GatewayAssumption
      <3>3. Cardinality(R) = 0 BY <2>3, <3>1 DEF ReceiverCount
      <3>4. R = {} BY <3>2, <3>3, FS_EmptySet
      <3> QED BY <3>1, <3>4
    <2> QED BY <2>1, <2>2, <2>3, DropKeeps, ReadOnKeeps
  <1>3. CASE PaceEnds BY <1>3, ReadOnKeeps DEF PaceEnds
  <1> QED BY <1>1, <1>2, <1>3, ForwardEventKeeps DEF Router


-----------------------------------------------------------------------------
(* The subscriptions.                                                      *)

\* A step of one subscription is judged by what it makes of that subscription.
LEMMA SubStep ==
  ASSUME Inv, setting' = setting, NEW s \in Sockets, NEW u, To(s, u), SubInv(u)
  PROVE  Inv'
  <1>1. owner' = owner /\ store' = store /\ log' = log /\ router' = router
        /\ sub' = [sub EXCEPT ![s] = u]
    BY DEF To
  <1>2. OwnerTypes' /\ LogInv' /\ OwnerInv' /\ StoreInv' /\ RouterInv'
    BY <1>1 DEF Inv, OwnerTypes, LogInv, OwnerInv, StoreInv, RouterInv, TermAt, DecAt, IsState,
                Beyond, Contains, Includes, Meets, NoEndAt
  <1>3. DOMAIN sub' = Sockets BY <1>1 DEF Inv
  <1>4. ASSUME NEW t \in Sockets PROVE SubInv(sub[t])'
    <2>1. PICK w : w = sub'[t] OBVIOUS
    <2>2. SubInv(w) BY <1>1, <2>1 DEF Inv
    <2>3. Placed(w)' BY <1>1, <2>2 DEF SubInv, Placed, Attached, SentTo, NoEndAt
    <2>4. SubInv(w)' BY <1>1, <2>2, <2>3, Same
    <2> QED BY <2>1, <2>4
  <1> QED BY <1>2, <1>3, <1>4 DEF Inv

\* A subscription that ended.
LEMMA EndedInv ==
  ASSUME Inv, NEW v, SubTypes(v), v.at = "ended", v.replay = "none", v.from # "closed",
         Acted(v) => 1 .. v.frame.dec \subseteq v.known, Right(v)
  PROVE  SubInv(v)
  <1>1. Placed(v) /\ Waiting(v) /\ Framed(v) /\ Told(v) /\ Forwarding(v)
    BY DEF Placed, Waiting, Framed, Told, Forwarding, Attached
  <1> QED BY <1>1 DEF SubInv

\* The terminal state: with every outcome, or with no barrier to act on.
LEMMA FinalInv ==
  ASSUME Inv, NEW u, SubInv(u), NEW v, DOMAIN v = DOMAIN u, v.at = "ended",
         v.from = "terminal", v.right = TRUE, v.replay = "none", v.cont = u.cont,
         v.loaded = u.loaded, v.seen = u.seen, v.pos \in Nat,
         v.frame = [term |-> owner.term, seq |-> owner.seq, dec |-> owner.dec],
         v.known \subseteq 1 .. owner.dec, v.barrier \in {"none", "open", "final"},
         v.barrier = "final" => 1 .. owner.dec \subseteq v.known
  PROVE  SubInv(v)
  <1>1. PICK f : f = [term |-> owner.term, seq |-> owner.seq, dec |-> owner.dec] OBVIOUS
  <1>2. f.term = owner.term /\ f.seq = owner.seq /\ f.dec = owner.dec BY <1>1
  <1>3. IsState(f) BY <1>2, Current
  <1>5. SubTypes(v) BY <1>1, <1>3 DEF SubInv, SubTypes
  <1>6. Acted(v) => 1 .. v.frame.dec \subseteq v.known BY <1>1, <1>2 DEF Acted
  <1> QED BY <1>5, <1>6, EndedInv DEF Right

\* What the records of the terminal state are.
LEMMA FinalRecords ==
  ASSUME NEW u, SubTypes(u)
  PROVE  /\ DOMAIN Final(u) = DOMAIN u /\ Final(u).at = "ended" /\ Final(u).from = "terminal"
         /\ Final(u).right = TRUE /\ Final(u).replay = "none" /\ Final(u).cont = u.cont
         /\ Final(u).loaded = u.loaded /\ Final(u).seen = u.seen /\ Final(u).pos = u.pos
         /\ Final(u).frame = [term |-> owner.term, seq |-> owner.seq, dec |-> owner.dec]
         /\ Final(u).known = u.known /\ Final(u).barrier = u.barrier
  <1>1. PICK f : f = [term |-> owner.term, seq |-> owner.seq, dec |-> owner.dec] OBVIOUS
  <1>2. Final(u) = [u EXCEPT !.at = "ended", !.from = "terminal", !.right = TRUE,
                             !.replay = "none", !.frame = f]
    BY <1>1 DEF Final
  <1> QED BY <1>1, <1>2 DEF SubTypes

\* A terminal copy is served: the barrier is final only with a terminal envelope.
LEMMA ServedKeeps ==
  ASSUME Inv, setting' = setting, NEW s \in Sockets, ServeCompleted(s),
         store.over \/ store.durable
  PROVE  Inv'
  <1>1. PICK u : u = sub[s] OBVIOUS
  <1>2. SubInv(u) /\ SubTypes(u) /\ u.pos \in Nat BY <1>1 DEF Inv, SubInv, SubTypes
  <1>3. PICK w : w = Final(u) OBVIOUS
  <1>4. CASE store.env.over /\ To(s, Disposed(u))
    <2>1. PICK v : v = Disposed(u) OBVIOUS
    <2>2. v = [w EXCEPT !.known = @ \cup 1..store.env.dec, !.barrier = "final"]
      BY <1>3, <2>1 DEF Disposed
    <2>3. store.env.dec = owner.dec
      <3>1. ~NoEnvelope.over BY DEF NoEnvelope
      <3> QED BY <1>4, <3>1, StoreSays
    <2>4. SubInv(v)
      <3>1. /\ DOMAIN v = DOMAIN u /\ v.at = w.at /\ v.from = w.from /\ v.right = w.right
            /\ v.replay = w.replay /\ v.cont = w.cont /\ v.loaded = w.loaded
            /\ v.seen = w.seen /\ v.frame = w.frame /\ v.pos = w.pos
            /\ v.known = u.known \cup 1 .. store.env.dec /\ v.barrier = "final"
        BY <1>2, <1>3, <2>2, FinalRecords DEF SubTypes
      <3>2. /\ DOMAIN v = DOMAIN u /\ v.at = "ended" /\ v.from = "terminal" /\ v.right = TRUE
            /\ v.replay = "none" /\ v.cont = u.cont /\ v.loaded = u.loaded
            /\ v.seen = u.seen /\ v.pos = u.pos
            /\ v.frame = [term |-> owner.term, seq |-> owner.seq, dec |-> owner.dec]
        BY <1>2, <1>3, <3>1, FinalRecords
      <3>3. v.known \subseteq 1 .. owner.dec /\ 1 .. owner.dec \subseteq v.known
        BY <1>2, <2>3, <3>1 DEF SubTypes
      <3> QED BY <1>2, <3>1, <3>2, <3>3, FinalInv
    <2> QED BY <1>4, <2>1, <2>4, SubStep
  <1>5. CASE To(s, [w EXCEPT !.barrier = "open"])
    <2>1. PICK v : v = [w EXCEPT !.barrier = "open"] OBVIOUS
    <2>2. SubInv(v)
      <3>1. /\ DOMAIN v = DOMAIN u /\ v.at = w.at /\ v.from = w.from /\ v.right = w.right
            /\ v.replay = w.replay /\ v.cont = w.cont /\ v.loaded = w.loaded
            /\ v.seen = w.seen /\ v.frame = w.frame /\ v.pos = w.pos
            /\ v.known = u.known /\ v.barrier = "open"
        BY <1>2, <1>3, <2>1, FinalRecords DEF SubTypes
      <3>2. /\ DOMAIN v = DOMAIN u /\ v.at = "ended" /\ v.from = "terminal" /\ v.right = TRUE
            /\ v.replay = "none" /\ v.cont = u.cont /\ v.loaded = u.loaded
            /\ v.seen = u.seen /\ v.pos = u.pos
            /\ v.frame = [term |-> owner.term, seq |-> owner.seq, dec |-> owner.dec]
        BY <1>2, <1>3, <3>1, FinalRecords
      <3>3. v.known \subseteq 1 .. owner.dec BY <1>2, <3>1 DEF SubTypes
      <3> QED BY <1>2, <3>1, <3>2, <3>3, FinalInv
    <2> QED BY <1>5, <2>1, <2>2, SubStep
  <1> QED BY <1>1, <1>3, <1>4, <1>5 DEF ServeCompleted

\* The terminal entry of the log.
LEMMA TerminalKeeps ==
  ASSUME Inv, setting' = setting, NEW s \in Sockets, Terminal(s)
  PROVE  Inv'
  <1>1. PICK u : u = sub[s] OBVIOUS
  <1>2. SubInv(u) /\ SubTypes(u) /\ u.pos \in Nat /\ u.pos + 1 \in Nat
    BY <1>1 DEF Inv, SubInv, SubTypes
  <1>3. PICK w : w = Final(u) OBVIOUS
  <1>4. owner.life = "over"
    <2>1. SentTo(u) = Sent(s) /\ log[u.pos + 1].kind = "end"
          /\ (u.at = "warm" \/ u.at = "forward") /\ u.pos < SentTo(u)
      BY <1>1 DEF Terminal, Receiving, Next1, SentTo, Sent
    <2>2. u.pos \in 0 .. Len(log) /\ SentTo(u) \in Nat /\ SentTo(u) <= Len(log)
      BY <1>2, <2>1, Reads DEF SubInv, Attached
    <2>3. Len(log) \in Nat BY Numbers DEF Inv
    <2>4. u.pos + 1 \in 1 .. Len(log) BY <2>1, <2>2, <2>3
    <2> QED BY <2>1, <2>4 DEF Inv, LogInv
  <1>5. CASE store.env.term # 0 /\ To(s, [Disposed(u) EXCEPT !.pos = @ + 1])
    <2>1. PICK x : x = Disposed(u) OBVIOUS
    <2>2. x = [w EXCEPT !.known = @ \cup 1..store.env.dec, !.barrier = "final"]
      BY <1>3, <2>1 DEF Disposed
    <2>3. PICK v : v = [x EXCEPT !.pos = @ + 1] OBVIOUS
    <2>4. store.env.dec = owner.dec
      <3>1. NoEnvelope.term = 0 BY DEF NoEnvelope
      <3> QED BY <1>4, <1>5, <3>1, StoreSays
    <2>5. /\ DOMAIN x = DOMAIN u /\ x.at = w.at /\ x.from = w.from /\ x.right = w.right
          /\ x.replay = w.replay /\ x.cont = w.cont /\ x.loaded = w.loaded
          /\ x.seen = w.seen /\ x.frame = w.frame /\ x.pos = w.pos
          /\ x.known = u.known \cup 1 .. store.env.dec /\ x.barrier = "final"
      BY <1>2, <1>3, <2>2, FinalRecords DEF SubTypes
    <2>6. /\ DOMAIN v = DOMAIN u /\ v.at = w.at /\ v.from = w.from /\ v.right = w.right
          /\ v.replay = w.replay /\ v.cont = w.cont /\ v.loaded = w.loaded
          /\ v.seen = w.seen /\ v.frame = w.frame /\ v.pos = u.pos + 1
          /\ v.known = u.known \cup 1 .. store.env.dec /\ v.barrier = "final"
      BY <1>2, <1>3, <2>3, <2>5, FinalRecords DEF SubTypes
    <2>7. SubInv(v)
      <3>2. /\ DOMAIN v = DOMAIN u /\ v.at = "ended" /\ v.from = "terminal" /\ v.right = TRUE
            /\ v.replay = "none" /\ v.cont = u.cont /\ v.loaded = u.loaded
            /\ v.seen = u.seen /\ v.pos = u.pos + 1
            /\ v.frame = [term |-> owner.term, seq |-> owner.seq, dec |-> owner.dec]
        BY <1>2, <1>3, <2>6, FinalRecords
      <3>3. v.known \subseteq 1 .. owner.dec /\ 1 .. owner.dec \subseteq v.known
        BY <1>2, <2>4, <2>6 DEF SubTypes
      <3> QED BY <1>2, <2>6, <3>2, <3>3, FinalInv
    <2> QED BY <1>5, <2>1, <2>3, <2>7, SubStep
  <1>6. CASE To(s, [w EXCEPT !.pos = @ + 1, !.barrier = "none"])
    <2>1. PICK v : v = [w EXCEPT !.pos = @ + 1, !.barrier = "none"] OBVIOUS
    <2>2. /\ DOMAIN v = DOMAIN u /\ v.at = w.at /\ v.from = w.from /\ v.right = w.right
          /\ v.replay = w.replay /\ v.cont = w.cont /\ v.loaded = w.loaded
          /\ v.seen = w.seen /\ v.frame = w.frame /\ v.pos = u.pos + 1
          /\ v.known = u.known /\ v.barrier = "none"
      BY <1>2, <1>3, <2>1, FinalRecords DEF SubTypes
    <2>3. SubInv(v)
      <3>2. /\ DOMAIN v = DOMAIN u /\ v.at = "ended" /\ v.from = "terminal" /\ v.right = TRUE
            /\ v.replay = "none" /\ v.cont = u.cont /\ v.loaded = u.loaded
            /\ v.seen = u.seen /\ v.pos = u.pos + 1
            /\ v.frame = [term |-> owner.term, seq |-> owner.seq, dec |-> owner.dec]
        BY <1>2, <1>3, <2>2, FinalRecords
      <3>3. v.known \subseteq 1 .. owner.dec BY <1>2, <2>2 DEF SubTypes
      <3> QED BY <1>2, <2>2, <3>2, <3>3, FinalInv
    <2> QED BY <1>6, <2>1, <2>3, SubStep
  <1> QED BY <1>1, <1>3, <1>5, <1>6 DEF Terminal

\* Before its first frame.
LEMMA WaitingInv ==
  ASSUME Inv, NEW u, SubInv(u), Attached(u), u.at # "forward",
         NEW x, x = "recovery" \/ x = "warm"
  PROVE  SubInv([u EXCEPT !.at = x])
  <1>1. PICK v : v = [u EXCEPT !.at = x] OBVIOUS
  <1>2. /\ DOMAIN v = DOMAIN u /\ v.at = x /\ v.frame = u.frame /\ v.from = u.from
        /\ v.right = u.right /\ v.replay = u.replay /\ v.known = u.known
        /\ v.pos = u.pos /\ v.cont = u.cont /\ v.loaded = u.loaded /\ v.seen = u.seen
        /\ v.ch = u.ch /\ v.barrier = u.barrier
    BY <1>1 DEF SubInv, SubTypes
  <1>3. u.cont = Cold /\ u.replay = "none" /\ u.barrier = "none" /\ u.right /\ u.from = "none"
    BY DEF SubInv, Waiting
  <1>4. SubTypes(v) BY <1>2 DEF SubInv, SubTypes
  <1>5. Placed(v) BY <1>2 DEF SubInv, Placed, SentTo
  <1>6. Waiting(v) /\ Framed(v) /\ Told(v) /\ Forwarding(v) /\ Right(v) /\ v.from # "closed"
    BY <1>2, <1>3 DEF Waiting, Framed, Told, Acted, Forwarding, Right
  <1> QED BY <1>1, <1>4, <1>5, <1>6 DEF SubInv

\* A socket attaches to the open channel, or opens one.
LEMMA SubscribeKeeps ==
  ASSUME Inv, setting' = setting, NEW s \in Sockets, Subscribe(s)
  PROVE  Inv'
  <1>1. OwnerTypes /\ RouterInv BY DEF Inv
  <1>2. PICK c : c = IF router.ch = 0 THEN Len(router.ends) + 1 ELSE router.ch OBVIOUS
  <1>3. PICK v : v = [Idle EXCEPT !.at = "stored", !.ch = c, !.pos = router.read] OBVIOUS
  <1>4. owner' = owner /\ store' = store /\ log' = log
        /\ router' = [router EXCEPT !.ch = c, !.joins = @ + 1] /\ sub' = [sub EXCEPT ![s] = v]
    BY <1>2, <1>3 DEF Subscribe
  <1>5. /\ DOMAIN router' = DOMAIN router /\ router'.read = router.read
        /\ router'.after = router.after /\ router'.ch = c /\ router'.ends = router.ends
    BY <1>1, <1>4 DEF RouterInv
  <1>6. Len(router.ends) \in Nat /\ c = Len(router.ends) + 1 /\ c # 0
    BY <1>1, <1>2 DEF RouterInv
  <1>7. RouterInv'
    <2>1. NoEndAt(router.read)' = NoEndAt(router.read) BY <1>4, <1>5 DEF NoEndAt
    <2> QED BY <1>1, <1>4, <1>5, <1>6, <2>1 DEF RouterInv
  <1>8. OwnerTypes' /\ LogInv' /\ OwnerInv' /\ StoreInv'
    BY <1>4 DEF Inv, OwnerTypes, LogInv, OwnerInv, StoreInv, TermAt, DecAt, IsState, Beyond,
                Contains, Includes, Meets
  <1>9. ASSUME NEW w, SubInv(w) PROVE Placed(w)'
    <2> SUFFICES ASSUME Attached(w) PROVE Placed(w)' BY DEF Placed, Attached
    <2>1. w.ch \in 1 .. Len(router.ends) \/ (w.ch = router.ch /\ w.ch # 0)
      BY <1>9 DEF SubInv, Placed
    <2>2. w.ch = c <=> w.ch = router.ch
      BY <1>1, <1>2, <1>6, <2>1 DEF RouterInv
    <2>3. SentTo(w)' = SentTo(w) BY <1>5, <2>2 DEF SentTo
    <2>4. w.ch # router.ch => ~NoEndAt(router.ends[w.ch])'
      BY <1>4, <1>5, <1>9 DEF SubInv, Placed, NoEndAt
    <2> QED BY <1>5, <1>9, <2>1, <2>2, <2>3, <2>4 DEF SubInv, Placed
  <1>10. SubInv(v)'
    <2>1. /\ DOMAIN v = DOMAIN Idle /\ v.at = "stored" /\ v.ch = c /\ v.pos = router.read
          /\ v.cont = Cold /\ v.proven = FALSE /\ v.replay = "none" /\ v.loaded = 0
          /\ v.seen = NoEnvelope /\ v.frame = NoFrame /\ v.from = "none" /\ v.right = TRUE
          /\ v.known = {} /\ v.barrier = "none"
      BY <1>3 DEF Idle
    <2>2. SubTypes(Idle) BY <1>1, IdleInv DEF SubInv
    <2>3. router.read \in Nat BY <1>1, Numbers DEF RouterInv
    <2>4. SubTypes(v)' BY <1>4, <2>1, <2>2, <2>3 DEF SubTypes, Idle, IsState
    <2>5. Placed(v)' BY <1>5, <1>6, <2>1, <2>3 DEF Placed, SentTo
    <2>6. Waiting(v)' /\ Framed(v)' /\ Told(v)' /\ Forwarding(v)' /\ Right(v)'
      BY <2>1 DEF Waiting, Framed, Told, Acted, Forwarding, Right
    <2> QED BY <2>1, <2>4, <2>5, <2>6 DEF SubInv
  <1>11. ASSUME NEW t \in Sockets PROVE SubInv(sub[t])'
    <2>1. PICK w : w = sub'[t] OBVIOUS
    <2>2. w = v \/ SubInv(w) BY <1>4, <2>1 DEF Inv
    <2>3. SubInv(w) => SubInv(w)' BY <1>4, <1>9, Same
    <2> QED BY <1>10, <2>1, <2>2, <2>3
  <1>12. DOMAIN sub' = Sockets BY <1>4 DEF Inv
  <1> QED BY <1>7, <1>8, <1>11, <1>12 DEF Inv


\* The recovery envelope of a live game, as the bridge sees it.
LEMMA SeenInv ==
  ASSUME Inv, NEW u, SubInv(u), u.at = "recovery", store.env.term # 0, ~store.env.over
  PROVE  SubInv([u EXCEPT !.at = "bridge", !.seen = store.env])
  <1>1. PICK v : v = [u EXCEPT !.at = "bridge", !.seen = store.env] OBVIOUS
  <1>2. /\ DOMAIN v = DOMAIN u /\ v.at = "bridge" /\ v.frame = u.frame /\ v.from = u.from
        /\ v.right = u.right /\ v.replay = u.replay /\ v.known = u.known
        /\ v.pos = u.pos /\ v.cont = u.cont /\ v.loaded = u.loaded /\ v.seen = store.env
        /\ v.ch = u.ch /\ v.barrier = u.barrier
    BY <1>1 DEF SubInv, SubTypes
  <1>3. Attached(u) BY DEF Attached
  <1>4. u.cont = Cold /\ u.replay = "none" /\ u.barrier = "none" /\ u.right /\ u.from = "none"
    BY <1>3 DEF SubInv, Waiting
  <1>5. /\ IsState(store.env) /\ store.env.term = owner.term
        /\ Beyond(store.env) /\ Contains(store.env) /\ owner.life # "over"
        /\ store.env.dec \in Nat
    <2>1. NoEnvelope.term = 0 BY DEF NoEnvelope
    <2> QED BY <2>1, StoreSays, Records DEF Inv, StoreInv
  <1>6. SubTypes(v) BY <1>2, <1>5 DEF SubInv, SubTypes
  <1>7. Placed(v) BY <1>2, <1>3 DEF SubInv, Placed, SentTo
  <1>8. u.pos \in 0 .. Len(log) BY <1>3, Reads DEF SubInv
  <1>9. NoEndAt(u.pos) /\ TermAt(u.pos) <= owner.term
    <2>1. Len(log) \in Nat /\ owner.term \in Nat BY Numbers DEF Inv
    <2>2. u.pos = 0 \/ u.pos \in 1 .. Len(log) BY <1>8, <2>1
    <2>3. \A i \in 1 .. Len(log) : log[i].term <= owner.term /\ log[i].kind # "end"
      BY <1>5 DEF Inv, LogInv
    <2> QED BY <2>1, <2>2, <2>3 DEF NoEndAt, TermAt
  <1>10. Waiting(v) BY <1>2, <1>4, <1>5, <1>9 DEF Waiting
  <1>11. Framed(v) /\ Told(v) /\ Forwarding(v) /\ Right(v) /\ v.from # "closed"
    BY <1>2, <1>4 DEF Framed, Told, Acted, Forwarding, Right
  <1> QED BY <1>1, <1>6, <1>7, <1>10, <1>11 DEF SubInv

\* The first frame from an envelope.
LEMMA BridgedInv ==
  ASSUME Inv, NEW u, SubInv(u), u.at = "bridge"
  PROVE  SubInv([u EXCEPT !.at = "forward", !.cont = u.seen.seq, !.proven = FALSE,
                          !.from = "bridge", !.frame = FrameOf(u.seen), !.seen = NoEnvelope])
  <1>1. PICK f : f = FrameOf(u.seen) OBVIOUS
  <1>2. f.term = u.seen.term /\ f.seq = u.seen.seq /\ f.dec = u.seen.dec BY <1>1 DEF FrameOf
  <1>3. PICK v : v = [u EXCEPT !.at = "forward", !.cont = u.seen.seq, !.proven = FALSE,
                               !.from = "bridge", !.frame = f, !.seen = NoEnvelope]
    OBVIOUS
  <1>4. /\ DOMAIN v = DOMAIN u /\ v.at = "forward" /\ v.frame = f /\ v.from = "bridge"
        /\ v.right = u.right /\ v.replay = u.replay /\ v.known = u.known
        /\ v.pos = u.pos /\ v.cont = u.seen.seq /\ v.loaded = u.loaded /\ v.seen = NoEnvelope
        /\ v.ch = u.ch /\ v.barrier = u.barrier
    BY <1>3 DEF SubInv, SubTypes
  <1>5. Attached(u) BY DEF Attached
  <1>6. u.cont = Cold /\ u.replay = "none" /\ u.barrier = "none" /\ u.right /\ u.from = "none"
    BY <1>5 DEF SubInv, Waiting
  <1>7. /\ NoEndAt(u.pos) /\ TermAt(u.pos) <= u.seen.term
        /\ Beyond(u.seen) /\ Contains(u.seen) /\ IsState(u.seen)
        /\ store.env.term # 0 => u.seen.dec <= store.env.dec
    BY DEF SubInv, Waiting, SubTypes
  <1>8. IsState(NoEnvelope) BY Numbers DEF Inv, NoEnvelope, IsState
  <1>9. IsState(f) /\ Beyond(f) /\ Contains(f) 
    BY <1>2, <1>7 DEF IsState, Beyond, Contains, Includes, Meets
  <1>10. SubTypes(v)
    <2>1. u.seen.seq \in Nat BY <1>7 DEF IsState
    <2> QED BY <1>4, <1>8, <1>9, <2>1 DEF SubInv, SubTypes
  <1>11. Placed(v) BY <1>4, <1>5 DEF SubInv, Placed, SentTo
  <1>12. Framed(v) BY <1>2, <1>4, <1>7, <1>9 DEF Framed
  <1>13. Waiting(v) /\ Forwarding(v) /\ Right(v) /\ v.from # "closed"
    BY <1>4, <1>6, <1>7 DEF Waiting, Forwarding, Right
  <1>14. Told(v)
    <2>1. ASSUME store.env.term # 0 PROVE 1 .. f.dec \subseteq 1 .. store.env.dec
      <3>1. f.dec \in Int /\ store.env.dec \in Nat /\ f.dec <= store.env.dec
        BY <1>2, <1>7, <2>1, Records DEF IsState
      <3> QED BY <3>1
    <2> QED BY <1>4, <1>6, <2>1 DEF Told, Acted
  <1> QED BY <1>1, <1>3, <1>10, <1>11, <1>12, <1>13, <1>14 DEF SubInv

\* A subscription that ends without its frame being touched.
LEMMA GivenUpInv ==
  ASSUME Inv, NEW u, SubInv(u), u.at = "warm" \/ u.at = "forward"
  PROVE  /\ SubInv([u EXCEPT !.at = "ended", !.from = "warming", !.replay = "none"])
         /\ u.at = "warm" => SubInv([u EXCEPT !.at = "ended", !.from = "warming"])
  <1>1. PICK v : v = [u EXCEPT !.at = "ended", !.from = "warming", !.replay = "none"] OBVIOUS
  <1>2. PICK w : w = [u EXCEPT !.at = "ended", !.from = "warming"] OBVIOUS
  <1>3. /\ DOMAIN v = DOMAIN u /\ v.at = "ended" /\ v.frame = u.frame /\ v.from = "warming"
        /\ v.right = u.right /\ v.replay = "none" /\ v.known = u.known
        /\ v.pos = u.pos /\ v.cont = u.cont /\ v.loaded = u.loaded /\ v.seen = u.seen
        /\ v.ch = u.ch /\ v.barrier = u.barrier
    BY <1>1 DEF SubInv, SubTypes
  <1>4. /\ DOMAIN w = DOMAIN u /\ w.at = "ended" /\ w.frame = u.frame /\ w.from = "warming"
        /\ w.right = u.right /\ w.replay = u.replay /\ w.known = u.known
        /\ w.pos = u.pos /\ w.cont = u.cont /\ w.loaded = u.loaded /\ w.seen = u.seen
        /\ w.ch = u.ch /\ w.barrier = u.barrier
    BY <1>2 DEF SubInv, SubTypes
  <1>5. SubTypes(v) /\ SubTypes(w) BY <1>3, <1>4 DEF SubInv, SubTypes
  <1>6. (Acted(u) => 1 .. u.frame.dec \subseteq u.known) /\ (u.right \/ owner.crashes > 0)
    BY DEF SubInv, Told, Right
  <1>7. SubInv(v) BY <1>3, <1>5, <1>6, EndedInv DEF Right, Acted
  <1>8. u.at = "warm" => SubInv(w)
    <2>1. u.at = "warm" => u.replay = "none" BY DEF SubInv, Waiting, Attached
    <2> QED BY <1>4, <1>5, <1>6, <2>1, EndedInv DEF Right, Acted
  <1> QED BY <1>1, <1>2, <1>7, <1>8

\* Every step of a join.
LEMMA JoinKeeps ==
  ASSUME Inv, setting' = setting, NEW s \in Sockets, Join(s)
  PROVE  Inv'
  <1>1. PICK u : u = sub[s] OBVIOUS
  <1>2. SubInv(u) BY <1>1 DEF Inv
  <1>4. CASE ReadStored(s)
    <2>1. u.at = "stored" /\ Attached(u) BY <1>1, <1>4 DEF ReadStored, Attached
    <2>2. \/ store.over /\ ServeCompleted(s)
          \/ To(s, [u EXCEPT !.at = "recovery"])
      BY <1>1, <1>4 DEF ReadStored
    <2> QED BY <1>2, <2>1, <2>2, ServedKeeps, WaitingInv, SubStep
  <1>5. CASE ReadRecovery(s)
    <2>1. u.at = "recovery" /\ Attached(u) BY <1>1, <1>5 DEF ReadRecovery, Attached
    <2>2. \/ /\ store.env.term # 0 /\ ~store.env.over
             /\ To(s, [u EXCEPT !.at = "bridge", !.seen = store.env])
          \/ To(s, [u EXCEPT !.at = "warm"])
      BY <1>1, <1>5 DEF ReadRecovery
    <2> QED BY <1>2, <2>1, <2>2, WaitingInv, SeenInv, SubStep
  <1>6. CASE Bridge(s)
    <2>1. u.at = "bridge" BY <1>1, <1>6 DEF Bridge
    <2>2. \/ store.durable /\ ServeCompleted(s)
          \/ To(s, [u EXCEPT !.at = "forward", !.cont = u.seen.seq, !.proven = FALSE,
                             !.from = "bridge", !.frame = FrameOf(u.seen), !.seen = NoEnvelope])
      BY <1>1, <1>6 DEF Bridge
    <2> QED BY <1>2, <2>1, <2>2, ServedKeeps, BridgedInv, SubStep
  <1>7. CASE WarmupEnds(s)
    <2>1. u.at = "warm" BY <1>1, <1>7 DEF WarmupEnds
    <2>2. \/ store.durable /\ ServeCompleted(s)
          \/ To(s, [u EXCEPT !.at = "ended", !.from = "warming"])
      BY <1>1, <1>7 DEF WarmupEnds
    <2> QED BY <1>2, <2>1, <2>2, ServedKeeps, GivenUpInv, SubStep
  <1>8. CASE Hangup(s)
    <2>1. SubInv(Idle) BY IdleInv DEF Inv
    <2> QED BY <1>8, <2>1, SubStep DEF Hangup
  <1> QED BY <1>4, <1>5, <1>6, <1>7, <1>8, SubscribeKeeps DEF Join


-----------------------------------------------------------------------------
(* What a subscription receives.                                           *)

\* The entry a subscription takes next.
LEMMA Taken ==
  ASSUME Inv, NEW u, SubInv(u), u.at = "warm" \/ u.at = "forward", u.pos < SentTo(u),
         NEW e, e = log[u.pos + 1]
  PROVE  /\ Attached(u) /\ u.pos \in Nat /\ u.pos + 1 \in 1 .. Len(log)
         /\ u.pos + 1 <= SentTo(u) /\ Len(log) \in Nat
         /\ e.kind \in Kinds /\ e.term \in Nat /\ e.seq \in Nat /\ e.dec \in Nat
         /\ e.term <= owner.term /\ e.dec <= owner.dec
         /\ TermAt(u.pos + 1) = e.term /\ DecAt(u.pos + 1) = e.dec
         /\ TermAt(u.pos) \in Nat /\ DecAt(u.pos) \in Nat
         /\ e.kind # "end" => NoEndAt(u.pos + 1)
         /\ e.kind # "snapshot" => e.term = TermAt(u.pos)
         /\ e.kind = "outcome" => e.dec = DecAt(u.pos) + 1
         /\ e.kind # "outcome" => e.dec = DecAt(u.pos)
         /\ e.kind = "rejected" => owner.rejected > 0
  <1>1. Attached(u) /\ OwnerTypes BY DEF Attached, Inv
  <1>2. u.pos \in 0 .. Len(log) /\ SentTo(u) \in Nat /\ SentTo(u) <= Len(log)
    BY <1>1, Reads DEF SubInv
  <1>3. Len(log) \in Nat BY <1>1, Numbers
  <1>4. PICK i : i = u.pos + 1 OBVIOUS
  <1>5. u.pos \in Nat /\ i \in 1 .. Len(log) /\ i <= SentTo(u) /\ i - 1 = u.pos /\ i # 0
    BY <1>2, <1>3, <1>4
  <1>6. e.kind \in Kinds /\ e.term \in Nat /\ e.seq \in Nat /\ e.dec \in Nat
    BY <1>1, <1>4, <1>5, Numbers
  <1>7. TermAt(u.pos) \in Nat /\ DecAt(u.pos) \in Nat BY <1>1, <1>2, Numbers
  <1>8. TermAt(i) = e.term /\ DecAt(i) = e.dec /\ (e.kind # "end" => NoEndAt(i))
    BY <1>4, <1>5 DEF TermAt, DecAt, NoEndAt
  <1>9. e.dec <= owner.dec BY <1>4, <1>5 DEF Inv, OwnerInv
  <1>10. /\ log[i].term <= owner.term
         /\ log[i].kind = "rejected" => owner.rejected > 0
         /\ log[i].kind # "snapshot" => log[i].term = TermAt(i - 1)
         /\ log[i].kind = "outcome" => log[i].dec = DecAt(i - 1) + 1
         /\ log[i].kind # "outcome" => log[i].dec = DecAt(i - 1)
    BY <1>5 DEF Inv, LogInv
  <1> QED BY <1>1, <1>3, <1>4, <1>5, <1>6, <1>7, <1>8, <1>9, <1>10

\* An interval of outcomes, all known.
LEMMA KnownUpTo ==
  ASSUME NEW a \in Nat, NEW b \in Nat, NEW K, 1 .. a \subseteq K,
         b <= a \/ (b = a + 1 /\ b \in K)
  PROVE  1 .. b \subseteq K
  OBVIOUS

\* A live snapshot.
LEMMA AnchoredInv ==
  ASSUME Inv, NEW u, SubInv(u), u.at = "warm" \/ u.at = "forward", u.pos < SentTo(u),
         NEW e, e = log[u.pos + 1], e.kind = "snapshot"
  PROVE  SubInv(Anchored(u, e))
  <1>1. PICK f : f = FrameOf(e) OBVIOUS
  <1>2. f.term = e.term /\ f.seq = e.seq /\ f.dec = e.dec BY <1>1 DEF FrameOf
  <1>3. PICK v : v = Anchored(u, e) OBVIOUS
  <1>4. v = [u EXCEPT !.pos = @ + 1, !.cont = e.seq, !.frame = f, !.right = TRUE,
                      !.from = "live", !.at = "forward", !.proven = TRUE,
                      !.replay = "loading", !.loaded = 0, !.barrier = "none"]
    BY <1>1, <1>3 DEF Anchored
  <1>5. /\ DOMAIN v = DOMAIN u /\ v.at = "forward" /\ v.frame = f /\ v.from = "live"
        /\ v.right = TRUE /\ v.replay = "loading" /\ v.known = u.known /\ v.proven = TRUE
        /\ v.pos = u.pos + 1 /\ v.cont = e.seq /\ v.loaded = 0 /\ v.seen = u.seen
        /\ v.ch = u.ch /\ v.barrier = "none"
    BY <1>4 DEF SubInv, SubTypes
  <1>6. IsState(f)
    <2>1. e.term \in Nat /\ e.seq \in Nat /\ e.dec \in Nat /\ e.term <= owner.term
          /\ e.dec <= owner.dec
      BY Taken
    <2> QED BY <1>2, <2>1, Records DEF IsState
  <1>7. SubTypes(v)
    <2>1. 0 \in 0 .. owner.dec BY Records
    <2>2. u.pos + 1 \in Nat /\ e.seq \in Nat BY Taken
    <2> QED BY <1>5, <1>6, <2>1, <2>2 DEF SubInv, SubTypes
  <1>8. Placed(v)
    <2>1. SentTo(v) = SentTo(u) BY <1>5 DEF SentTo
    <2> QED BY <1>5, <2>1, Taken DEF SubInv, Placed
  <1>9. Framed(v)
    <2>1. TermAt(v.pos) = e.term /\ v.cont = f.seq BY <1>2, <1>5, Taken
    <2>2. \E k \in 1 .. v.pos : log[k].seq = v.cont /\ log[k].term = TermAt(v.pos)
      <3>1. v.pos \in 1 .. v.pos /\ log[v.pos] = e BY <1>5, Taken
      <3> QED BY <1>5, <2>1, <3>1
    <2>3. DecAt(v.pos) <= f.dec
      <3>1. DecAt(v.pos) = e.dec /\ e.dec \in Nat BY <1>5, Taken
      <3> QED BY <1>2, <3>1
    <2> QED BY <1>2, <1>5, <2>1, <2>2, <2>3 DEF Framed
  <1>10. v.cont # Cold BY <1>5, Taken DEF Cold
  <1>11. NoEndAt(v.pos) BY <1>5, Taken
  <1>12. Waiting(v) /\ Forwarding(v) /\ Right(v) /\ v.from # "closed"
    BY <1>5, <1>10, <1>11 DEF Waiting, Forwarding, Right
  <1>13. Told(v)
    <2>1. ASSUME store.env.term # 0 PROVE 1 .. e.dec \subseteq 1 .. store.env.dec
      <3>1. u.pos + 1 \in 1 .. Len(log) /\ e.dec \in Nat BY Taken
      <3>2. e.dec <= store.env.dec BY <2>1, <3>1 DEF Inv, StoreInv
      <3> QED BY <3>1, <3>2, Records
    <2> QED BY <1>2, <1>5, <2>1 DEF Told, Acted
  <1> QED BY <1>3, <1>7, <1>8, <1>9, <1>12, <1>13 DEF SubInv

\* An entry that leaves the client's frame alone: a delta it does not need, or a
\* rejection outside the order.
LEMMA PassedInv ==
  ASSUME Inv, NEW u, SubInv(u), u.at = "warm" \/ u.at = "forward", u.pos < SentTo(u),
         NEW e, e = log[u.pos + 1], e.kind # "end", e.kind # "snapshot",
         e.kind # "rejected" => u.cont = Cold \/ e.seq <= u.cont,
         NEW v, DOMAIN v = DOMAIN u, v.at = u.at, v.frame = u.frame, v.from = u.from,
         v.right = u.right, v.known = u.known, v.pos = u.pos + 1, v.cont = u.cont,
         v.loaded = u.loaded, v.seen = u.seen, v.ch = u.ch, v.barrier = u.barrier,
         \/ v.replay = u.replay /\ (u.proven => v.proven)
         \/ v.replay = "loading" /\ v.proven /\ u.at = "forward" /\ e.kind = "rejected"
  PROVE  SubInv(v)
  <1>1. SubTypes(v)
    <2>1. u.pos + 1 \in Nat BY Taken
    <2>2. v.replay \in {"none", "loading", "loaded"} BY DEF SubInv, SubTypes
    <2> QED BY <2>1, <2>2 DEF SubInv, SubTypes
  <1>2. Placed(v)
    <2>1. SentTo(v) = SentTo(u) BY DEF SentTo
    <2> QED BY <2>1, Taken DEF SubInv, Placed, Attached
  <1>3. Waiting(v) BY DEF SubInv, Waiting, Attached
  <1>4. TermAt(v.pos) = TermAt(u.pos) /\ NoEndAt(v.pos) /\ DecAt(v.pos) = e.dec BY Taken
  <1>7. e.kind # "outcome" => e.dec = DecAt(u.pos) BY Taken
  <1>5. Framed(v)
    <2> SUFFICES ASSUME v.at = "forward", v.cont # Cold PROVE Framed(v) BY DEF Framed
    <2>1. \A k \in 1 .. u.pos : k \in 1 .. v.pos
      <3>1. u.pos \in Nat BY Taken
      <3> QED BY <3>1
    <2>2. /\ u.cont = u.frame.seq
          /\ u.from = "live" => TermAt(u.pos) = u.frame.term
          /\ u.from = "bridge" => TermAt(u.pos) <= u.frame.term /\ Beyond(u.frame)
          /\ \/ u.from = "bridge" /\ Contains(u.frame)
             \/ /\ \E k \in 1 .. u.pos : log[k].seq = u.cont /\ log[k].term = TermAt(u.pos)
                /\ DecAt(u.pos) <= u.frame.dec
      BY DEF SubInv, Framed
    <2>3. ASSUME NEW k \in 1 .. u.pos, log[k].seq = u.cont, log[k].term = TermAt(u.pos)
          PROVE  e.dec = DecAt(u.pos)
      <3> SUFFICES ASSUME e.kind = "outcome" PROVE FALSE BY <1>7
      <3>1. e.seq <= u.cont /\ e.term = TermAt(u.pos) BY Taken
      <3>2. PICK j : j = u.pos + 1 OBVIOUS
      <3>3. j \in 1 .. Len(log) /\ log[j] = e /\ u.pos \in Nat BY <3>2, Taken
      <3>4. k \in 1 .. Len(log) /\ k < j BY <3>2, <3>3, Taken
      <3>5. log[k].seq < log[j].seq BY <2>3, <3>1, <3>3, <3>4 DEF Inv, OwnerInv
      <3>6. log[k].seq \in Nat /\ e.seq \in Nat BY <3>4, Taken, Numbers DEF Inv
      <3> QED BY <2>3, <3>1, <3>3, <3>5, <3>6
    <2>4. \/ v.from = "bridge" /\ Contains(v.frame)
          \/ /\ \E k \in 1 .. v.pos : log[k].seq = v.cont /\ log[k].term = TermAt(v.pos)
             /\ DecAt(v.pos) <= v.frame.dec
      <3>1. CASE u.from = "bridge" /\ Contains(u.frame) BY <3>1
      <3>2. ASSUME NEW k \in 1 .. u.pos, log[k].seq = u.cont, log[k].term = TermAt(u.pos),
                   DecAt(u.pos) <= u.frame.dec
            PROVE  /\ \E i \in 1 .. v.pos : log[i].seq = v.cont /\ log[i].term = TermAt(v.pos)
                   /\ DecAt(v.pos) <= v.frame.dec
        BY <1>4, <2>1, <2>3, <3>2
      <3> QED BY <2>2, <3>1, <3>2
    <2> QED BY <1>4, <2>2, <2>4 DEF Framed
  <1>6. v.replay = "loaded" => u.replay = "loaded" OBVIOUS
  <1>8. Told(v) BY <1>6 DEF SubInv, Told, Acted
  <1>9. Forwarding(v)
    <2> SUFFICES ASSUME v.at = "forward" PROVE Forwarding(v) BY DEF Forwarding
    <2>1. /\ u.from \in {"bridge", "live"}
          /\ u.replay # "none" => u.proven /\ (u.cont # Cold \/ owner.rejected > 0)
      BY DEF SubInv, Forwarding
    <2>2. e.kind = "rejected" => owner.rejected > 0 BY Taken
    <2> QED BY <1>4, <2>1, <2>2 DEF Forwarding
  <1>10. Right(v) /\ v.from # "closed" BY DEF SubInv, Right
  <1> QED BY <1>1, <1>2, <1>3, <1>5, <1>8, <1>9, <1>10 DEF SubInv


\* A delta or an outcome with the next number continues the client's frame.
LEMMA AppliedInv ==
  ASSUME Inv, NEW u, SubInv(u), u.at = "warm" \/ u.at = "forward", u.pos < SentTo(u),
         NEW e, e = log[u.pos + 1], e.kind = "delta" \/ e.kind = "outcome",
         u.cont # Cold, e.seq = u.cont + 1
  PROVE  SubInv(Applied(u, e))
  <1>1. PICK f : f = [FrameOf(e) EXCEPT !.term = u.frame.term] OBVIOUS
  <1>2. f.term = u.frame.term /\ f.seq = e.seq /\ f.dec = e.dec BY <1>1 DEF FrameOf
  <1>3. PICK r : r = (u.right /\ u.frame.term = e.term /\ u.frame.seq + 1 = e.seq) OBVIOUS
  <1>4. PICK K : K = u.known \cup (IF e.kind = "outcome" THEN {e.dec} ELSE {}) OBVIOUS
  <1>5. PICK y : y = IF u.proven THEN u.replay ELSE "loading" OBVIOUS
  <1>6. PICK v : v = Applied(u, e) OBVIOUS
  <1>7. v = [u EXCEPT !.pos = @ + 1, !.cont = e.seq, !.right = r, !.frame = f, !.known = K,
                      !.proven = TRUE, !.replay = y]
    BY <1>1, <1>3, <1>4, <1>5, <1>6 DEF Applied, SubInv, SubTypes
  <1>8. /\ DOMAIN v = DOMAIN u /\ v.at = u.at /\ v.frame = f /\ v.from = u.from
        /\ v.right = r /\ v.replay = y /\ v.known = K /\ v.proven = TRUE
        /\ v.pos = u.pos + 1 /\ v.cont = e.seq /\ v.loaded = u.loaded /\ v.seen = u.seen
        /\ v.ch = u.ch /\ v.barrier = u.barrier
    BY <1>7 DEF SubInv, SubTypes
  <1>9. Attached(u) /\ u.at = "forward"
    <2>1. Attached(u) BY Taken
    <2> QED BY <2>1 DEF SubInv, Waiting
  <1>10. /\ e.term \in Nat /\ e.seq \in Nat /\ e.dec \in Nat /\ DecAt(u.pos) \in Nat
         /\ e.term <= owner.term /\ e.dec <= owner.dec /\ u.pos \in Nat
         /\ TermAt(u.pos + 1) = e.term /\ DecAt(u.pos + 1) = e.dec /\ e.term = TermAt(u.pos)
         /\ NoEndAt(u.pos + 1) /\ u.pos + 1 \in 1 .. Len(log) /\ u.pos + 1 <= SentTo(u)
         /\ e.kind = "outcome" => e.dec = DecAt(u.pos) + 1
         /\ e.kind # "outcome" => e.dec = DecAt(u.pos)
    BY Taken
  <1>11. u.frame.term \in Nat /\ u.frame.term <= owner.term /\ u.frame.seq \in Nat
    BY Records DEF SubInv, SubTypes, IsState
  <1>12. /\ u.cont = u.frame.seq
         /\ u.from = "live" => TermAt(u.pos) = u.frame.term
         /\ u.from = "bridge" => TermAt(u.pos) <= u.frame.term /\ Beyond(u.frame)
         /\ u.from \in {"bridge", "live"}
    BY <1>9 DEF SubInv, Framed, Forwarding
  <1>13. SubTypes(v)
    <2>1. IsState(f) BY <1>2, <1>10, <1>11, Records DEF IsState
    <2>2. K \subseteq 1 .. owner.dec
      <3>1. u.known \subseteq 1 .. owner.dec BY DEF SubInv, SubTypes
      <3>2. owner.dec \in Nat BY Records
      <3>3. e.kind = "outcome" => e.dec \in 1 .. owner.dec
        <4>1. PICK d : d = DecAt(u.pos) OBVIOUS
        <4>2. d \in Nat /\ e.dec <= owner.dec /\ (e.kind = "outcome" => e.dec = d + 1)
          BY <1>10, <4>1
        <4> QED BY <3>2, <4>2
      <3> QED BY <1>4, <3>1, <3>3
    <2>3. y \in {"none", "loading", "loaded"} BY <1>5 DEF SubInv, SubTypes
    <2>4. u.pos + 1 \in Nat BY <1>10
    <2> QED BY <1>8, <1>10, <2>1, <2>2, <2>3, <2>4 DEF SubInv, SubTypes
  <1>14. Placed(v)
    <2>1. SentTo(v) = SentTo(u) BY <1>8 DEF SentTo
    <2> QED BY <1>8, <1>9, <1>10, <2>1 DEF SubInv, Placed
  <1>15. Framed(v)
    <2>1. \E k \in 1 .. v.pos : log[k].seq = v.cont /\ log[k].term = TermAt(v.pos)
      <3>1. v.pos \in 1 .. v.pos /\ log[v.pos] = e BY <1>8, <1>10
      <3> QED BY <1>8, <1>10, <3>1
    <2>2. Beyond(u.frame) => Beyond(f)
      <3> SUFFICES ASSUME Beyond(u.frame), NEW i \in 1 .. Len(log), log[i].term < f.term,
                          owner.crashes = 0
                   PROVE  log[i].seq <= f.seq
        BY DEF Beyond
      <3>1. log[i].seq <= u.frame.seq BY <1>2 DEF Beyond
      <3>2. log[i].seq \in Nat BY Numbers DEF Inv
      <3> QED BY <1>2, <1>10, <1>11, <1>12, <3>1, <3>2
    <2>3. DecAt(v.pos) <= f.dec BY <1>2, <1>8, <1>10
    <2> QED BY <1>2, <1>8, <1>10, <1>12, <2>1, <2>2, <2>3 DEF Framed
  <1>16. v.cont # Cold BY <1>8, <1>10 DEF Cold
  <1>17. Told(v)
    <2>1. u.frame.dec \in Nat BY Records DEF SubInv, SubTypes, IsState
    <2>2. e.dec <= u.frame.dec \/ DecAt(u.pos) <= u.frame.dec
      <3>1. \/ u.from = "bridge" /\ Contains(u.frame)
            \/ DecAt(u.pos) <= u.frame.dec
        BY <1>9 DEF SubInv, Framed
      <3>2. CASE u.from = "bridge" /\ Contains(u.frame)
        <4>1. PICK j : j = u.pos + 1 OBVIOUS
        <4>2. j \in 1 .. Len(log) /\ log[j] = e /\ j - 1 = u.pos BY <1>10, <4>1
        <4>3. e.term < u.frame.term => e.dec <= u.frame.dec
          BY <3>2, <4>2 DEF Contains, Includes
        <4>4. e.term = u.frame.term /\ e.seq = u.frame.seq + 1 => DecAt(u.pos) <= u.frame.dec
          BY <3>2, <4>2 DEF Contains, Meets
        <4> QED BY <1>10, <1>11, <1>12, <3>2, <4>3, <4>4
      <3> QED BY <3>1, <3>2
    <2>3. \/ e.dec <= u.frame.dec
          \/ e.dec = u.frame.dec + 1 /\ e.kind = "outcome"
      <3>1. PICK d : d = DecAt(u.pos) OBVIOUS
      <3>2. /\ d \in Nat /\ e.dec \in Nat
            /\ e.kind = "outcome" => e.dec = d + 1
            /\ e.kind # "outcome" => e.dec = d
        BY <1>10, <3>1
      <3> QED BY <2>1, <2>2, <3>1, <3>2
    <2>4. ASSUME NEW M, 1 .. u.frame.dec \subseteq M, K \subseteq M PROVE 1 .. e.dec \subseteq M
      <3>1. e.dec <= u.frame.dec \/ (e.dec = u.frame.dec + 1 /\ e.dec \in M)
        BY <1>4, <2>3, <2>4
      <3> QED BY <1>10, <2>1, <2>4, <3>1, KnownUpTo
    <2>5. Acted(v) => 1 .. e.dec \subseteq K
      <3>1. Acted(v) => 1 .. u.frame.dec \subseteq u.known BY <1>8 DEF SubInv, Told, Acted
      <3>2. u.known \subseteq K BY <1>4
      <3> QED BY <2>4, <3>1, <3>2
    <2>6. y = "loaded" => 1 .. e.dec \subseteq K \cup 1 .. u.loaded
      <3>1. y = "loaded" => u.replay = "loaded" BY <1>5
      <3>2. PICK M : M = K \cup 1 .. u.loaded OBVIOUS
      <3>3. y = "loaded" => 1 .. u.frame.dec \subseteq M BY <1>4, <3>1, <3>2 DEF SubInv, Told
      <3>4. K \subseteq M BY <3>2
      <3> QED BY <2>4, <3>2, <3>3, <3>4
    <2>7. store.env.term # 0 => 1 .. e.dec \subseteq K \cup 1 .. store.env.dec
      <3>1. PICK M : M = K \cup 1 .. store.env.dec OBVIOUS
      <3>2. store.env.term # 0 => 1 .. u.frame.dec \subseteq M
        BY <1>4, <1>9, <3>1 DEF SubInv, Told
      <3>3. K \subseteq M BY <3>1
      <3> QED BY <2>4, <3>1, <3>2, <3>3
    <2> QED BY <1>2, <1>8, <2>5, <2>6, <2>7 DEF Told
  <1>18. Right(v)
    <2>1. u.right \/ (owner.crashes > 0 /\ u.from # "live") BY DEF SubInv, Right
    <2>2. CASE owner.crashes > 0 /\ u.from # "live" BY <1>8, <2>2 DEF Right
    <2>3. CASE u.right /\ u.from = "live" BY <1>3, <1>8, <1>10, <1>12, <2>3 DEF Right
    <2>4. CASE u.right /\ u.from = "bridge" /\ owner.crashes = 0
      <3>1. PICK j : j = u.pos + 1 OBVIOUS
      <3>2. j \in 1 .. Len(log) /\ log[j] = e BY <1>10, <3>1
      <3>3. e.term < u.frame.term => e.seq <= u.frame.seq
        BY <1>12, <2>4, <3>2 DEF Beyond
      <3>4. e.term = u.frame.term BY <1>10, <1>11, <1>12, <2>4, <3>3
      <3> QED BY <1>3, <1>8, <1>12, <2>4, <3>4 DEF Right
    <2>5. owner.crashes = 0 \/ owner.crashes > 0 BY Records
    <2> QED BY <1>12, <2>1, <2>2, <2>3, <2>4, <2>5
  <1>19. Waiting(v) /\ Forwarding(v) /\ v.from # "closed"
    BY <1>8, <1>9, <1>10, <1>12, <1>16 DEF Waiting, Forwarding, SubInv
  <1> QED BY <1>6, <1>13, <1>14, <1>15, <1>17, <1>18, <1>19 DEF SubInv

\* A gap or a lag: the subscription is cold, somewhere before the terminal entry.
LEMMA ColdInv ==
  ASSUME Inv, NEW u, SubInv(u), u.at = "warm" \/ u.at = "forward",
         NEW p \in Nat, p <= SentTo(u), NoEndAt(p)
  PROVE  SubInv(GoCold([u EXCEPT !.pos = p]))
  <1>1. PICK v : v = GoCold([u EXCEPT !.pos = p]) OBVIOUS
  <1>2. /\ DOMAIN v = DOMAIN u /\ v.at = u.at /\ v.frame = u.frame /\ v.from = u.from
        /\ v.right = u.right /\ v.replay = "none" /\ v.known = u.known
        /\ v.pos = p /\ v.cont = Cold /\ v.loaded = 0 /\ v.seen = u.seen
        /\ v.ch = u.ch /\ v.barrier = u.barrier
    BY <1>1 DEF SubInv, SubTypes, GoCold
  <1>3. SubTypes(v)
    <2>1. 0 \in 0 .. owner.dec BY Records
    <2> QED BY <1>2, <2>1 DEF SubInv, SubTypes
  <1>4. Placed(v)
    <2>1. SentTo(v) = SentTo(u) BY <1>2 DEF SentTo
    <2> QED BY <1>2, <2>1 DEF SubInv, Placed, Attached
  <1>5. Waiting(v) BY <1>2 DEF SubInv, Waiting, Attached
  <1>6. Framed(v) /\ Told(v) /\ Forwarding(v) /\ Right(v) /\ v.from # "closed"
    BY <1>2 DEF SubInv, Framed, Told, Acted, Forwarding, Right
  <1> QED BY <1>1, <1>3, <1>4, <1>5, <1>6 DEF SubInv


\* The outcome replay of a subscription.
LEMMA LoadedInv ==
  ASSUME Inv, NEW u, SubInv(u), u.at = "forward", u.replay = "loading",
         store.env.term # 0
  PROVE  SubInv([u EXCEPT !.replay = "loaded", !.loaded = store.env.dec])
  <1>1. PICK v : v = [u EXCEPT !.replay = "loaded", !.loaded = store.env.dec] OBVIOUS
  <1>2. /\ DOMAIN v = DOMAIN u /\ v.at = u.at /\ v.frame = u.frame /\ v.from = u.from
        /\ v.right = u.right /\ v.replay = "loaded" /\ v.known = u.known /\ v.proven = u.proven
        /\ v.pos = u.pos /\ v.cont = u.cont /\ v.loaded = store.env.dec /\ v.seen = u.seen
        /\ v.ch = u.ch /\ v.barrier = u.barrier
    BY <1>1 DEF SubInv, SubTypes
  <1>3. SubTypes(v)
    <2>1. store.env.dec \in 0 .. owner.dec BY DEF Inv, StoreInv, IsState
    <2> QED BY <1>2, <2>1 DEF SubInv, SubTypes
  <1>4. Placed(v) BY <1>2 DEF SubInv, Placed, Attached, SentTo
  <1>5. Waiting(v) BY <1>2 DEF Waiting
  <1>6. Framed(v) BY <1>2 DEF SubInv, Framed
  <1>10. Told(v) BY <1>2 DEF SubInv, Told, Acted
  <1>11. Forwarding(v) /\ Right(v) /\ v.from # "closed"
    BY <1>2 DEF SubInv, Forwarding, Right
  <1> QED BY <1>1, <1>3, <1>4, <1>5, <1>6, <1>10, <1>11 DEF SubInv

\* ... and its answer.
LEMMA ToldInv ==
  ASSUME Inv, NEW u, SubInv(u), u.at = "forward", u.replay = "loaded"
  PROVE  SubInv([u EXCEPT !.replay = "none", !.known = @ \cup 1..u.loaded, !.loaded = 0,
                          !.barrier = "live"])
  <1>1. PICK v : v = [u EXCEPT !.replay = "none", !.known = @ \cup 1..u.loaded, !.loaded = 0,
                               !.barrier = "live"]
    OBVIOUS
  <1>2. /\ DOMAIN v = DOMAIN u /\ v.at = u.at /\ v.frame = u.frame /\ v.from = u.from
        /\ v.right = u.right /\ v.replay = "none" /\ v.known = u.known \cup 1 .. u.loaded
        /\ v.pos = u.pos /\ v.cont = u.cont /\ v.loaded = 0 /\ v.seen = u.seen
        /\ v.ch = u.ch /\ v.barrier = "live"
    BY <1>1 DEF SubInv, SubTypes
  <1>3. SubTypes(v)
    <2>1. 0 \in 0 .. owner.dec /\ 1 .. u.loaded \subseteq 1 .. owner.dec
      BY Records DEF SubInv, SubTypes
    <2>2. v.known \subseteq 1 .. owner.dec BY <1>2, <2>1 DEF SubInv, SubTypes
    <2> QED BY <1>2, <2>1, <2>2 DEF SubInv, SubTypes
  <1>4. Placed(v) BY <1>2 DEF SubInv, Placed, Attached, SentTo
  <1>5. Waiting(v) BY <1>2 DEF Waiting
  <1>6. Framed(v) BY <1>2 DEF SubInv, Framed
  <1>7. Told(v)
    <2>1. 1 .. u.frame.dec \subseteq v.known BY <1>2 DEF SubInv, Told
    <2> QED BY <1>2, <2>1 DEF Told
  <1>8. Forwarding(v) /\ Right(v) /\ v.from # "closed" BY <1>2 DEF SubInv, Forwarding, Right
  <1> QED BY <1>1, <1>3, <1>4, <1>5, <1>6, <1>7, <1>8 DEF SubInv

\* A subscription that forwards does not see its channel close: it would have
\* taken the terminal entry first.
LEMMA NotClosed ==
  ASSUME Inv, NEW s \in Sockets, ChannelClosed(s)
  PROVE  FALSE
  <1>1. PICK u : u = sub[s] OBVIOUS
  <1>2. SubInv(u) BY <1>1 DEF Inv
  <1>3. u.at = "forward" /\ u.ch # router.ch /\ u.pos = router.ends[u.ch]
    BY <1>1 DEF ChannelClosed, Closed, Sent
  <1>4. NoEndAt(u.pos) BY <1>2, <1>3 DEF SubInv, Forwarding
  <1>5. ~NoEndAt(router.ends[u.ch]) BY <1>2, <1>3 DEF SubInv, Placed, Attached
  <1> QED BY <1>3, <1>4, <1>5

\* Every step of a subscription that watches the game.
LEMMA ReceiveKeeps ==
  ASSUME Inv, setting' = setting, NEW s \in Sockets, Receive(s)
  PROVE  Inv'
  <1>1. PICK u : u = sub[s] OBVIOUS
  <1>2. SubInv(u) /\ SentTo(u) = Sent(s) BY <1>1 DEF Inv, SentTo, Sent
  <1>3. PICK e : e = log[u.pos + 1] OBVIOUS
  <1>4. e = Next1(s) BY <1>1, <1>3 DEF Next1
  <1>5. CASE Snapshot(s)
    <2>1. (u.at = "warm" \/ u.at = "forward") /\ u.pos < SentTo(u) /\ e.kind = "snapshot"
          /\ To(s, Anchored(u, e))
      BY <1>1, <1>2, <1>4, <1>5 DEF Snapshot, Receiving
    <2>2. SubInv(Anchored(u, e)) BY <1>2, <1>3, <2>1, AnchoredInv
    <2> QED BY <2>1, <2>2, SubStep
  <1>6. CASE Terminal(s) BY <1>6, TerminalKeeps
  <1>7. CASE Forward(s)
    <2>1. (u.at = "warm" \/ u.at = "forward") /\ u.pos < SentTo(u)
          /\ (e.kind = "delta" \/ e.kind = "outcome") /\ u.cont # Cold /\ e.seq = u.cont + 1
          /\ To(s, Applied(u, e))
      BY <1>1, <1>2, <1>4, <1>7 DEF Forward, Receiving
    <2>2. SubInv(Applied(u, e)) BY <1>2, <1>3, <2>1, AppliedInv
    <2> QED BY <2>1, <2>2, SubStep
  <1>8. CASE Suppress(s)
    <2>1. PICK v : v = [u EXCEPT !.pos = @ + 1] OBVIOUS
    <2>2. (u.at = "warm" \/ u.at = "forward") /\ u.pos < SentTo(u)
          /\ (e.kind = "delta" \/ e.kind = "outcome") /\ (u.cont = Cold \/ e.seq <= u.cont)
          /\ To(s, v)
      BY <1>1, <1>2, <1>4, <1>8, <2>1 DEF Suppress, Receiving
    <2>3. /\ DOMAIN v = DOMAIN u /\ v.at = u.at /\ v.frame = u.frame /\ v.from = u.from
          /\ v.right = u.right /\ v.known = u.known /\ v.pos = u.pos + 1 /\ v.cont = u.cont
          /\ v.loaded = u.loaded /\ v.seen = u.seen /\ v.ch = u.ch /\ v.barrier = u.barrier
          /\ v.replay = u.replay /\ v.proven = u.proven
      BY <1>2, <2>1 DEF SubInv, SubTypes
    <2>4. SubInv(v) BY <1>2, <1>3, <2>2, <2>3, PassedInv
    <2> QED BY <2>2, <2>4, SubStep
  <1>9. CASE ForwardRejected(s)
    <2>1. PICK b : b = (u.proven \/ u.at = "forward") OBVIOUS
    <2>2. PICK y : y = IF u.proven \/ u.at = "warm" THEN u.replay ELSE "loading" OBVIOUS
    <2>3. PICK v : v = [u EXCEPT !.pos = @ + 1, !.proven = b, !.replay = y] OBVIOUS
    <2>4. (u.at = "warm" \/ u.at = "forward") /\ u.pos < SentTo(u) /\ e.kind = "rejected"
      BY <1>1, <1>2, <1>4, <1>9 DEF ForwardRejected, Receiving
    <2>5. [u EXCEPT !.pos = @ + 1, !.proven = @ \/ u.at = "forward",
                    !.replay = IF u.proven \/ u.at = "warm" THEN @ ELSE "loading"] = v
      BY <1>2, <2>1, <2>2, <2>3 DEF SubInv, SubTypes
    <2>6. To(s, v) BY <1>1, <1>9, <2>5 DEF ForwardRejected
    <2>7. /\ DOMAIN v = DOMAIN u /\ v.at = u.at /\ v.frame = u.frame /\ v.from = u.from
          /\ v.right = u.right /\ v.known = u.known /\ v.pos = u.pos + 1 /\ v.cont = u.cont
          /\ v.loaded = u.loaded /\ v.seen = u.seen /\ v.ch = u.ch /\ v.barrier = u.barrier
          /\ v.replay = y /\ v.proven = b
      BY <1>2, <2>3 DEF SubInv, SubTypes
    <2>8. \/ y = u.replay /\ (u.proven => b)
          \/ y = "loading" /\ b /\ u.at = "forward"
      BY <2>1, <2>2, <2>4
    <2>9. SubInv(v) BY <1>2, <1>3, <2>4, <2>7, <2>8, PassedInv
    <2> QED BY <2>6, <2>9, SubStep
  <1>10. CASE Gap(s)
    <2>1. (u.at = "warm" \/ u.at = "forward") /\ u.pos < SentTo(u)
          /\ (e.kind = "delta" \/ e.kind = "outcome")
          /\ To(s, GoCold([u EXCEPT !.pos = @ + 1]))
      BY <1>1, <1>2, <1>4, <1>10 DEF Gap, Receiving
    <2>2. PICK n : n = u.pos + 1 OBVIOUS
    <2>3. n \in Nat /\ n <= SentTo(u) /\ NoEndAt(n) BY <1>2, <1>3, <2>1, <2>2, Taken
    <2>4. SubInv(GoCold([u EXCEPT !.pos = n])) BY <1>2, <2>1, <2>3, ColdInv
    <2>5. To(s, GoCold([u EXCEPT !.pos = n])) BY <2>1, <2>2
    <2> QED BY <2>4, <2>5, SubStep
  <1>11. CASE Lag(s)
    <2>1. PICK n : n = SentTo(u) - setting.capacity OBVIOUS
    <2>2. (u.at = "warm" \/ u.at = "forward") /\ SentTo(u) - u.pos > setting.capacity
          /\ To(s, GoCold([u EXCEPT !.pos = n]))
      BY <1>1, <1>2, <1>11, <2>1 DEF Lag, Receiving, Lagged
    <2>3. u.pos \in Nat /\ SentTo(u) \in Nat /\ SentTo(u) <= Len(log) /\ Len(log) \in Nat
      <3>1. Attached(u) BY <2>2 DEF Attached
      <3>2. u.pos \in 0 .. Len(log) /\ SentTo(u) \in Nat /\ SentTo(u) <= Len(log)
        BY <1>2, <3>1, Reads DEF SubInv
      <3>3. Len(log) \in Nat BY Numbers DEF Inv
      <3> QED BY <3>2, <3>3
    <2>4. setting.capacity \in Nat /\ setting.capacity >= 1 BY Numbers DEF Inv
    <2>5. n \in 1 .. Len(log) /\ n # Len(log) /\ n <= SentTo(u) /\ n \in Nat
      BY <2>1, <2>2, <2>3, <2>4
    <2>6. NoEndAt(n) BY <2>5 DEF Inv, LogInv, NoEndAt
    <2>7. SubInv(GoCold([u EXCEPT !.pos = n])) BY <1>2, <2>2, <2>5, <2>6, ColdInv
    <2> QED BY <2>2, <2>7, SubStep
  <1> QED BY <1>5, <1>6, <1>7, <1>8, <1>9, <1>10, <1>11, NotClosed DEF Receive

\* Every step of a socket.
LEMMA SocketKeeps ==
  ASSUME Inv, setting' = setting, NEW s \in Sockets, Socket(s)
  PROVE  Inv'
  <1>1. PICK u : u = sub[s] OBVIOUS
  <1>2. SubInv(u) BY <1>1 DEF Inv
  <1>3. CASE ColdTimer(s)
    <2>1. owner' = owner /\ store' = store /\ log' = log /\ router' = router /\ sub' = sub
      BY <1>3 DEF ColdTimer
    <2> QED BY <2>1, ReadOnKeeps
  <1>4. CASE LoadOutcomes(s)
    <2>1. u.at = "forward" /\ u.replay = "loading" /\ store.env.term # 0
          /\ To(s, [u EXCEPT !.replay = "loaded", !.loaded = store.env.dec])
      BY <1>1, <1>4 DEF LoadOutcomes
    <2> QED BY <1>2, <2>1, LoadedInv, SubStep
  <1>5. CASE OutcomesUnavailable(s)
    <2>1. u.at = "forward"
          /\ To(s, [u EXCEPT !.at = "ended", !.from = "warming", !.replay = "none"])
      BY <1>1, <1>5 DEF OutcomesUnavailable
    <2> QED BY <1>2, <2>1, GivenUpInv, SubStep
  <1>6. CASE SendOutcomes(s)
    <2>1. u.at = "forward" /\ u.replay = "loaded"
          /\ To(s, [u EXCEPT !.replay = "none", !.known = @ \cup 1..u.loaded, !.loaded = 0,
                             !.barrier = "live"])
      BY <1>1, <1>6 DEF SendOutcomes
    <2> QED BY <1>2, <2>1, ToldInv, SubStep
  <1> QED BY <1>3, <1>4, <1>5, <1>6, JoinKeeps, ReceiveKeeps DEF Socket


-----------------------------------------------------------------------------
(* The theorems.                                                           *)

\* The first states.
LEMMA InitInv == Init => Inv
  <1> SUFFICES ASSUME Init PROVE Inv OBVIOUS
  <1>1. setting \in Settings /\ setting.terms \in Nat /\ setting.decided \in Nat
    BY GatewayAssumption DEF Init
  <1>2. /\ DOMAIN owner = {"life", "term", "seq", "dec", "asked", "crashes", "rejected"}
        /\ owner.life = "gone" /\ owner.term = 0 /\ owner.seq = 0 /\ owner.dec = 0
        /\ owner.crashes = 0 /\ owner.rejected = 0
    BY DEF Init
  <1>3. log = <<>> /\ Len(log) = 0 /\ log \in Seq(Entries) BY DEF Init
  <1>4. OwnerTypes BY <1>1, <1>2, <1>3 DEF OwnerTypes, Lives
  <1>5. LogInv /\ OwnerInv BY <1>2, <1>3 DEF LogInv, OwnerInv, DecAt
  <1>6. /\ DOMAIN store = {"env", "journal", "mark", "over", "durable"}
        /\ store.env = NoEnvelope /\ store.journal = 0 /\ store.mark = 0
        /\ store.over = FALSE /\ store.durable = FALSE
    BY DEF Init
  <1>7. DOMAIN NoEnvelope = {"term", "seq", "dec", "over"} /\ NoEnvelope.term = 0
        /\ NoEnvelope.seq = 0 /\ NoEnvelope.dec = 0
    BY DEF NoEnvelope
  <1>8. StoreInv BY <1>2, <1>6, <1>7 DEF StoreInv, IsState
  <1>9. /\ DOMAIN router = {"read", "ch", "joins", "ends", "after"} /\ router.read = 0
        /\ router.ch = 0 /\ router.ends = <<>> /\ router.after = "read"
    BY DEF Init
  <1>10. RouterInv BY <1>3, <1>9 DEF RouterInv
  <1>11. sub = [s \in Sockets |-> Idle] BY DEF Init
  <1>12. \A s \in Sockets : SubInv(sub[s]) BY <1>4, <1>11, IdleInv
  <1> QED BY <1>4, <1>5, <1>8, <1>10, <1>11, <1>12 DEF Inv

\* The sockets that join are sockets of the gateway.
LEMMA Joining == ASSUME Inv, NEW s \in setting.sockets PROVE s \in Sockets
  <1>1. setting \in Settings BY DEF Inv, OwnerTypes
  <1> QED BY <1>1, GatewayAssumption

\* Every step.
LEMMA NextInv == Inv /\ [Next]_<<vars, setting>> => Inv'
  <1> SUFFICES ASSUME Inv, [Next]_<<vars, setting>> PROVE Inv' OBVIOUS
  <1>1. CASE Next
    <2>1. setting' = setting /\ (Actor \/ Router \/ \E s \in setting.sockets : Socket(s))
      BY <1>1 DEF Next
    <2> QED BY <2>1, ActorKeeps, RouterKeeps, SocketKeeps, Joining
  <1>2. CASE UNCHANGED <<vars, setting>>
    BY <1>2, ReadOnKeeps DEF vars
  <1> QED BY <1>1, <1>2

(* The invariant behind the gateway's promises, for every setting: the log is
   one order with the owner at its end, every envelope and every client frame
   is a state that order cannot contradict, and every subscription reads a
   channel that is open or was closed by the terminal entry. *)
THEOREM GatewayInvariant == Spec => []Inv
  BY InitInv, NextInv, PTL DEF Spec

(* Every delta a socket is forwarded continues the state its client holds: the
   same executor term and the next sequence, unless a crash made numbers
   overlap and the client's state did not come from a live snapshot
   (GameEventSubscription::next decides by the sequence alone). *)
THEOREM DeltasAlwaysContinue == Spec => []DeltasContinue
  <1>1. Inv => DeltasContinue BY DEF Inv, SubInv, Right, DeltasContinue
  <1> QED BY <1>1, GatewayInvariant, PTL

(* A barrier covers every outcome the client's state contains, no channel is
   dropped under a forwarding subscription, and the router and the receivers
   stay within the log. *)
THEOREM SocketsStaySound == Spec => []SocketsSound
  <1>1. Inv => SocketsSound
    <2> SUFFICES ASSUME Inv PROVE SocketsSound OBVIOUS
    <2>1. BarrierComplete /\ NeverClosed
      BY DEF Inv, SubInv, Told, Acted, BarrierComplete, NeverClosed
    <2>2. ASSUME NEW s \in Sockets
          PROVE  /\ sub[s].at \in {"off", "stored", "recovery", "bridge", "warm",
                                   "forward", "ended"}
                 /\ Watching(s) => sub[s].pos <= Sent(s)
                 /\ sub[s].barrier \in {"none", "live", "final", "open"}
                 /\ sub[s].cont \in Int /\ sub[s].known \subseteq 1..owner.dec
      <3>1. SubInv(sub[s]) BY DEF Inv
      <3>2. Watching(s) => sub[s].pos <= Sent(s)
        BY <3>1 DEF SubInv, Placed, Attached, Watching, SentTo, Sent
      <3>3. sub[s].cont \in Int BY <3>1 DEF SubInv, SubTypes, Cold
      <3> QED BY <3>1, <3>2, <3>3 DEF SubInv, SubTypes
    <2>3. TypeOK BY <2>2 DEF Inv, OwnerTypes, RouterInv, Lives, TypeOK
    <2> QED BY <2>1, <2>3 DEF SocketsSound
  <1> QED BY <1>1, GatewayInvariant, PTL

\* Only the answer of an outcome replay gives a forwarding socket its barrier.
LEMMA BarrierFrom ==
  ASSUME Inv, NEW s \in Sockets, NEW t \in Sockets, Socket(t),
         sub[s].barrier # "live", sub'[s].barrier = "live"
  PROVE  sub[s].at = "forward" /\ sub[s].replay # "none"
  <1>1. PICK u : u = sub[t] OBVIOUS
  <1>2. SubInv(u) /\ DOMAIN sub = Sockets BY <1>1 DEF Inv
  <1>3. DOMAIN u = {"at", "ch", "pos", "cont", "proven", "replay", "loaded", "seen",
                    "frame", "from", "right", "known", "barrier"}
    BY <1>2 DEF SubInv, SubTypes
  <1>4. ASSUME NEW v, To(t, v), v.barrier = u.barrier \/ v.barrier # "live" PROVE FALSE
    BY <1>1, <1>2, <1>4 DEF To
  <1>5. /\ DOMAIN Final(u) = DOMAIN u /\ Disposed(u).barrier = "final"
        /\ [Final(u) EXCEPT !.barrier = "open"].barrier = "open"
        /\ [Final(u) EXCEPT !.pos = @ + 1, !.barrier = "none"].barrier = "none"
        /\ [Disposed(u) EXCEPT !.pos = @ + 1].barrier = "final"
    <2>1. PICK w : w = Final(u) OBVIOUS
    <2>2. DOMAIN w = DOMAIN u BY <1>3, <2>1 DEF Final
    <2>3. PICK x : x = [w EXCEPT !.known = @ \cup 1..store.env.dec, !.barrier = "final"] OBVIOUS
    <2>4. DOMAIN x = DOMAIN u /\ x.barrier = "final" BY <1>3, <2>2, <2>3
    <2>5. [x EXCEPT !.pos = @ + 1].barrier = "final" BY <1>3, <2>4
    <2>6. Disposed(u) = x BY <2>1, <2>3 DEF Disposed
    <2>7. /\ [w EXCEPT !.barrier = "open"].barrier = "open"
          /\ [w EXCEPT !.pos = @ + 1, !.barrier = "none"].barrier = "none"
      BY <1>3, <2>2
    <2> QED BY <2>1, <2>2, <2>4, <2>5, <2>6, <2>7
  <1>12. ~ServeCompleted(t) BY <1>1, <1>4, <1>5 DEF ServeCompleted
  <1>6. CASE Join(t)
    <2>1. CASE Subscribe(t)
      <3>1. PICK v : v.barrier = "none" /\ sub' = [sub EXCEPT ![t] = v]
        BY <2>1 DEF Subscribe, Idle
      <3> QED BY <1>2, <3>1
    <2>2. CASE ReadStored(t)
      <3>1. [u EXCEPT !.at = "recovery"].barrier = u.barrier BY <1>3
      <3> QED BY <1>1, <1>4, <1>12, <2>2, <3>1 DEF ReadStored
    <2>3. CASE ReadRecovery(t)
      <3>1. [u EXCEPT !.at = "bridge", !.seen = store.env].barrier = u.barrier BY <1>3
      <3>2. [u EXCEPT !.at = "warm"].barrier = u.barrier BY <1>3
      <3> QED BY <1>1, <1>4, <2>3, <3>1, <3>2 DEF ReadRecovery
    <2>4. CASE Bridge(t)
      <3>1. [u EXCEPT !.at = "forward", !.cont = u.seen.seq, !.proven = FALSE,
                      !.from = "bridge", !.frame = FrameOf(u.seen),
                      !.seen = NoEnvelope].barrier = u.barrier
        BY <1>3
      <3> QED BY <1>1, <1>4, <1>12, <2>4, <3>1 DEF Bridge
    <2>5. CASE WarmupEnds(t)
      <3>1. [u EXCEPT !.at = "ended", !.from = "warming"].barrier = u.barrier BY <1>3
      <3> QED BY <1>1, <1>4, <1>12, <2>5, <3>1 DEF WarmupEnds
    <2>6. CASE Hangup(t)
      <3>1. Idle.barrier = "none" BY DEF Idle
      <3> QED BY <1>4, <2>6, <3>1 DEF Hangup
    <2> QED BY <1>6, <2>1, <2>2, <2>3, <2>4, <2>5, <2>6 DEF Join
  <1>7. CASE Receive(t)
    <2>1. CASE Snapshot(t)
      <3>1. Anchored(u, Next1(t)).barrier = "none" BY <1>3 DEF Anchored
      <3> QED BY <1>1, <1>4, <2>1, <3>1 DEF Snapshot
    <2>2. CASE Terminal(t) BY <1>1, <1>4, <1>5, <2>2 DEF Terminal
    <2>3. CASE Forward(t)
      <3>1. Applied(u, Next1(t)).barrier = u.barrier BY <1>3 DEF Applied
      <3> QED BY <1>1, <1>4, <2>3, <3>1 DEF Forward
    <2>4. CASE Suppress(t)
      <3>1. [u EXCEPT !.pos = @ + 1].barrier = u.barrier BY <1>3
      <3> QED BY <1>1, <1>4, <2>4, <3>1 DEF Suppress
    <2>5. CASE ForwardRejected(t)
      <3>1. [u EXCEPT !.pos = @ + 1, !.proven = @ \/ u.at = "forward",
                      !.replay = IF u.proven \/ u.at = "warm" THEN @ ELSE "loading"].barrier
              = u.barrier
        BY <1>3
      <3> QED BY <1>1, <1>4, <2>5, <3>1 DEF ForwardRejected
    <2>6. CASE Gap(t)
      <3>1. GoCold([u EXCEPT !.pos = @ + 1]).barrier = u.barrier BY <1>3 DEF GoCold
      <3> QED BY <1>1, <1>4, <2>6, <3>1 DEF Gap
    <2>7. CASE Lag(t)
      <3>1. GoCold([u EXCEPT !.pos = Sent(t) - setting.capacity]).barrier = u.barrier
        BY <1>3 DEF GoCold
      <3> QED BY <1>1, <1>4, <2>7, <3>1 DEF Lag
    <2> QED BY <1>7, <2>1, <2>2, <2>3, <2>4, <2>5, <2>6, <2>7, NotClosed DEF Receive
  <1>8. CASE ColdTimer(t) BY <1>8 DEF ColdTimer
  <1>9. CASE LoadOutcomes(t)
    <2>1. [u EXCEPT !.replay = "loaded", !.loaded = store.env.dec].barrier = u.barrier BY <1>3
    <2> QED BY <1>1, <1>4, <1>9, <2>1 DEF LoadOutcomes
  <1>10. CASE OutcomesUnavailable(t)
    <2>1. [u EXCEPT !.at = "ended", !.from = "warming", !.replay = "none"].barrier = u.barrier
      BY <1>3
    <2> QED BY <1>1, <1>4, <1>10, <2>1 DEF OutcomesUnavailable
  <1>11. CASE SendOutcomes(t)
    <2>1. s = t BY <1>2, <1>11 DEF SendOutcomes, To
    <2> QED BY <1>11, <2>1 DEF SendOutcomes
  <1> QED BY <1>6, <1>7, <1>8, <1>9, <1>10, <1>11 DEF Socket

(* A socket is promoted only when live delivery was seen on it and it is
   continuous at that moment, as long as no out-of-band rejection was taken
   for live delivery (the barrier of subscribe_to_game_events). *)
THEOREM PromotesOnlyLive == Spec => PromotedWhileLive
  <1>1. ASSUME Inv, [Next]_<<vars, setting>>, NEW s \in Sockets,
               sub[s].barrier # "live", sub'[s].barrier = "live", owner.rejected = 0
        PROVE  sub[s].proven /\ sub[s].cont # Cold
    <2>1. sub' # sub BY <1>1
    <2>2. ~Actor /\ ~Router
      BY <2>1 DEF Actor, Router, Activate, PublishAnchor, PublishEvent, PublishOutcome,
         PublishRejected, Checkpoint, PublishRequested, TakeRequest, Crash, Barrier, Complete,
         PersistGame, GraceEnds, ForwardEvent, Teardown, Recheck, PaceEnds
    <2>3. PICK t \in setting.sockets : Socket(t) BY <1>1, <2>1, <2>2 DEF Next, vars
    <2>4. t \in Sockets BY <1>1, Joining
    <2>5. sub[s].at = "forward" /\ sub[s].replay # "none" BY <1>1, <2>3, <2>4, BarrierFrom
    <2>6. SubInv(sub[s]) BY <1>1 DEF Inv
    <2> QED BY <1>1, <2>5, <2>6 DEF SubInv, Forwarding
  <1>2. Inv /\ [Next]_<<vars, setting>>
          => [\A s \in Sockets :
                (sub[s].barrier # "live" /\ sub'[s].barrier = "live" /\ owner.rejected = 0)
                  => sub[s].proven /\ sub[s].cont # Cold]_vars
    BY <1>1
  <1>3. Spec => [][Next]_<<vars, setting>> BY PTL DEF Spec
  <1> QED BY <1>2, <1>3, GatewayInvariant, PTL DEF PromotedWhileLive

====
