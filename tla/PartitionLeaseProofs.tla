---- MODULE PartitionLeaseProofs ----
(***************************************************************************)
(* Fencing and fail-closed supervision of the partition lease, proved for  *)
(* every number of boots and tokens and for every TTL, operation timeout   *)
(* and polling lag.                                                        *)
(***************************************************************************)
EXTENDS PartitionLease, TLAPS

\* Which operation each side may be awaiting in each phase.
CallsMatchPhases ==
    \A b \in Boots :
        /\ ecall[b].op = "none" => ecall[b] = NoCall
        /\ dcall[b].op = "none" => dcall[b] = NoCall
        /\ exec[b] = "idle" <=> guard[b] = NoToken
        /\ exec[b] \in {"idle", "bootstrap", "live"} => ecall[b].op = "none"
        /\ exec[b] = "acquiring" => ecall[b].op = "acquire"
        /\ exec[b] = "releasing" => ecall[b].op = "release"
        /\ exec[b] = "barrier" => ecall[b].op \in {"none", "renew_for_handoff"}
        /\ dog[b] # "off" => exec[b] \in {"bootstrap", "live"}
        /\ dog[b] \in {"off", "done"} => dcall[b].op = "none"
        /\ dcall[b].op \in {"none", "renew", "renew_for_handoff"}

\* No two executors carry the same acquisition token.
GuardsDistinct ==
    \A a, b \in Boots : guard[a] = guard[b] /\ guard[a] # NoToken => a = b

\* An acquisition that Redis has not run yet carries a token that nothing
\* else carries and that never wrote.
AcquisitionsFresh ==
    /\ \A s \in late : s.op = "acquire" =>
          /\ s.tok # holder
          /\ \A b \in Boots : guard[b] # s.tok
          /\ \A r \in late : r.tok = s.tok => r = s
          /\ \A i \in DOMAIN journal : journal[i] # s.tok
    /\ \A b \in Boots :
          exec[b] = "acquiring" /\ ecall[b].reply = "pending" =>
          /\ guard[b] # holder
          /\ \A r \in late : r.tok # guard[b]
          /\ \A i \in DOMAIN journal : journal[i] # guard[b]
    /\ \A b \in Boots : exec[b] = "acquiring" => \A r \in late : r.tok # guard[b]

\* A release nobody awaits belongs to an executor that is over.
ReleasesOver ==
    \A s \in late : s.op = "release" => \A b \in Boots : guard[b] # s.tok

\* A confirmed lease is as old as the operation that confirmed it, at most.
Backed(b, age) == \/ holder = guard[b] /\ left + age >= TTL
                  \/ age >= TTL

ConfirmationsBacked ==
    \A b \in Boots :
        /\ exec[b] = "acquiring" /\ ecall[b].reply = "yes"
              => Backed(b, ecall[b].age)
        /\ dog[b] = "armed" /\ dcall[b].op = "renew" /\ dcall[b].reply = "yes"
              => Backed(b, dcall[b].age)
        /\ dog[b] = "armed"
              => \/ holder = guard[b] /\ left + MaxLag >= budget[b]
                 \/ budget[b] <= MaxLag

LeaseHasHolder == left > 0 => holder \in Tokens

Inv == /\ TypeOK
       /\ CallsMatchPhases
       /\ GuardsDistinct
       /\ AcquisitionsFresh
       /\ ReleasesOver
       /\ ConfirmationsBacked
       /\ LeaseHasHolder

-----------------------------------------------------------------------------
(* What is left in flight when a caller goes away.                         *)

\* An abandoned call leaves at most its own script behind.
LEMMA LeftoverOfCall ==
    ASSUME Inv, NEW b \in Boots, NEW c \in Calls, guard[b] # NoToken
    PROVE  /\ Leftover(b, c) \subseteq Scripts
           /\ \A s \in Leftover(b, c) : /\ s.tok = guard[b] /\ s.op = c.op
                                        /\ c.reply = "pending"
           /\ \A r, s \in Leftover(b, c) : r = s
           /\ c.op = "none" => Leftover(b, c) = {}
  BY DEF Inv, TypeOK, Leftover, Scripts, Calls, LeaseOps

\* A stopped watchdog leaves renewals of its own token behind, nothing else.
LEMMA LeftoverOfDog ==
    ASSUME Inv, NEW b \in Boots, guard[b] # NoToken
    PROVE  /\ DogLeftover(b) \subseteq Scripts
           /\ \A s \in DogLeftover(b) :
                 /\ s.tok = guard[b]
                 /\ s.op \in {"renew", "renew_for_handoff"}
           /\ dcall[b].op = "none" => DogLeftover(b) = {}
  <1>1. dcall[b] \in Calls BY DEF Inv, TypeOK
  <1>2. dcall[b].op \in {"none", "renew", "renew_for_handoff"}
    BY DEF Inv, CallsMatchPhases
  <1>3. guard[b] \in Tokens BY DEF Inv, TypeOK
  <1> QED BY <1>1, <1>2, <1>3, LeftoverOfCall DEF DogLeftover, Scripts, LeaseOps

\* A task that ends, for whatever reason, preserves the invariant.
LEMMA EndPreservesInv ==
    ASSUME Inv, NEW b \in Boots, exec[b] # "idle", End(b) PROVE Inv'
  <1> DEFINE E == Leftover(b, ecall[b])  D == DogLeftover(b)
  <1>0. guard[b] # NoToken BY DEF Inv, CallsMatchPhases
  <1>1. ecall[b] \in Calls BY DEF Inv, TypeOK
  <1>2. /\ E \subseteq Scripts
        /\ \A s \in E : /\ s.tok = guard[b] /\ s.op = ecall[b].op
                        /\ ecall[b].reply = "pending"
        /\ \A r, s \in E : r = s
    BY <1>0, <1>1, LeftoverOfCall
  <1>3. /\ D \subseteq Scripts
        /\ \A s \in D : /\ s.tok = guard[b]
                        /\ s.op \in {"renew", "renew_for_handoff"}
        /\ dcall[b].op = "none" => D = {}
    BY <1>0, LeftoverOfDog
  <1>4. late' = late \cup E \cup D BY DEF End
  <1> HIDE DEF E, D
  <1>5. TypeOK'
    BY <1>2, <1>3, <1>4, TimeAssumption
    DEF Inv, TypeOK, End, StopDog, redis, NoCall, Calls, Phases
  <1>6. CallsMatchPhases'
    BY DEF Inv, TypeOK, CallsMatchPhases, End, StopDog, NoCall
  <1>7. GuardsDistinct'
    BY DEF Inv, TypeOK, GuardsDistinct, End
  <1>8. AcquisitionsFresh'
    <2> USE DEF Inv, TypeOK, End, redis
    <2>1. ASSUME NEW s \in E, s.op = "acquire"
          PROVE  /\ exec[b] = "acquiring" /\ E = {s} /\ D = {}
                 /\ \A r \in late : r.tok # s.tok
      <3>1. ecall[b].op = "acquire" /\ s.tok = guard[b] BY <1>2, <2>1
      <3>2. exec[b] = "acquiring" BY <3>1 DEF CallsMatchPhases, Phases
      <3>3. dcall[b].op = "none" BY <3>2 DEF CallsMatchPhases
      <3>4. D = {} BY <1>3, <3>3
      <3>5. E = {s} BY <1>2
      <3>6. \A r \in late : r.tok # s.tok BY <3>1, <3>2 DEF AcquisitionsFresh
      <3> QED BY <3>2, <3>4, <3>5, <3>6
    <2>2. \A s \in D : s.op # "acquire" BY <1>3
    <2>3. ASSUME NEW s \in late', s.op = "acquire"
          PROVE  /\ s.tok # holder'
                 /\ \A a \in Boots : guard'[a] # s.tok
                 /\ \A r \in late' : r.tok = s.tok => r = s
                 /\ \A i \in DOMAIN journal' : journal'[i] # s.tok
      <3>1. CASE s \in late
        BY <1>0, <1>2, <1>3, <1>4, <2>3, <3>1, TokenAssumption
        DEF AcquisitionsFresh, Scripts
      <3>2. CASE s \in E
        <4>1. /\ s.tok = guard[b] /\ ecall[b].reply = "pending"
              /\ exec[b] = "acquiring" /\ late' = late \cup {s}
              /\ \A r \in late : r.tok # s.tok
          BY <1>2, <1>4, <2>1, <2>3, <3>2
        <4>2. /\ guard[b] # holder
              /\ \A i \in DOMAIN journal : journal[i] # guard[b]
          BY <4>1 DEF AcquisitionsFresh
        <4>3. \A a \in Boots : guard'[a] # guard[b]
          BY <1>0 DEF GuardsDistinct
        <4> QED BY <4>1, <4>2, <4>3
      <3> QED BY <1>4, <2>2, <2>3, <3>1, <3>2
    <2>4. ASSUME NEW a \in Boots, exec'[a] = "acquiring"
          PROVE  /\ \A r \in late' : r.tok # guard'[a]
                 /\ ecall'[a].reply = "pending" =>
                       /\ guard'[a] # holder'
                       /\ \A i \in DOMAIN journal' : journal'[i] # guard'[a]
      BY <1>0, <1>2, <1>3, <1>4, <2>4 DEF AcquisitionsFresh, GuardsDistinct
    <2> QED BY <2>3, <2>4 DEF AcquisitionsFresh
  <1>9. ReleasesOver'
    BY <1>0, <1>2, <1>3, <1>4, TokenAssumption
    DEF Inv, TypeOK, GuardsDistinct, ReleasesOver, End, Scripts
  <1>10. ConfirmationsBacked' /\ LeaseHasHolder'
    BY DEF Inv, TypeOK, ConfirmationsBacked, Backed, LeaseHasHolder, End,
           StopDog, redis, NoCall
  <1> QED BY <1>5, <1>6, <1>7, <1>8, <1>9, <1>10 DEF Inv

\* Steps that only move a phase, start a call or move the desired owner.
LEMMA QuietStepInv ==
    ASSUME Inv, NEW b \in Boots,
           \/ AcquiredDraining(b) \/ BootstrapDone(b) \/ SendKeepalive(b)
           \/ BarrierDone(b) \/ SendProbe(b) \/ ProbeRefused(b)
           \/ ProbeClassified(b) \/ BridgeRenew(b) \/ BridgeDeadline(b)
           \/ Reassign(b)
    PROVE  Inv'
  <1> USE TimeAssumption, TokenAssumption
      DEF Inv, TypeOK, CallsMatchPhases, GuardsDistinct, AcquisitionsFresh,
          ReleasesOver, ConfirmationsBacked, LeaseHasHolder, Backed, Calls,
          LeaseOps, Phases, NewCall, NoCall
  <1>1. CASE AcquiredDraining(b) BY <1>1 DEF AcquiredDraining
  <1>2. CASE BootstrapDone(b) BY <1>2 DEF BootstrapDone
  <1>3. CASE SendKeepalive(b) BY <1>3 DEF SendKeepalive
  <1>4. CASE BarrierDone(b) BY <1>4 DEF BarrierDone
  <1>5. CASE SendProbe(b) BY <1>5 DEF SendProbe
  <1>6. CASE ProbeRefused(b) BY <1>6 DEF ProbeRefused
  <1>7. CASE ProbeClassified(b) BY <1>7 DEF ProbeClassified
  <1>8. CASE BridgeRenew(b) BY <1>8 DEF BridgeRenew
  <1>9. CASE BridgeDeadline(b) BY <1>9 DEF BridgeDeadline
  <1>10. CASE Reassign(b) BY <1>10 DEF Reassign
  <1> QED BY <1>1, <1>2, <1>3, <1>4, <1>5, <1>6, <1>7, <1>8, <1>9, <1>10

\* An executor draws a fresh token and sends its acquisition.
LEMMA TryAcquireInv == ASSUME Inv, NEW b \in Boots, TryAcquire(b) PROVE Inv'
  <1> USE DEF TryAcquire, Inv, TypeOK, InUse
  <1>1. TypeOK' BY TimeAssumption DEF Calls, LeaseOps, Phases, NewCall, NoCall
  <1>2. CallsMatchPhases'
    BY TokenAssumption DEF CallsMatchPhases, NewCall, NoCall, LeaseOps
  <1>3. GuardsDistinct' /\ ReleasesOver' /\ LeaseHasHolder'
    BY DEF GuardsDistinct, ReleasesOver, LeaseHasHolder
  <1>4. AcquisitionsFresh'
    BY DEF CallsMatchPhases, AcquisitionsFresh, NewCall, NoCall
  <1>5. ConfirmationsBacked'
    BY TimeAssumption
    DEF CallsMatchPhases, ConfirmationsBacked, Backed, NewCall, NoCall, Calls
  <1> QED BY <1>1, <1>2, <1>3, <1>4, <1>5

\* The first budget starts at the receipt of the acquire response.
LEMMA AcquiredInv == ASSUME Inv, NEW b \in Boots, Acquired(b) PROVE Inv'
  <1> USE DEF Acquired, FailClosedAfter, Inv, TypeOK
  <1>1. TypeOK' BY TimeAssumption DEF Calls, LeaseOps, Phases, NewCall, NoCall
  <1>2. CallsMatchPhases'
    BY TokenAssumption DEF CallsMatchPhases, NewCall, NoCall, LeaseOps
  <1>3. GuardsDistinct' /\ ReleasesOver' /\ LeaseHasHolder'
    BY DEF GuardsDistinct, ReleasesOver, LeaseHasHolder
  <1>4. AcquisitionsFresh'
    BY DEF CallsMatchPhases, AcquisitionsFresh, NewCall, NoCall
  <1>5. ConfirmationsBacked'
    <2>1. \A a \in Boots : a # b => /\ exec'[a] = exec[a] /\ ecall'[a] = ecall[a]
                                   /\ dog'[a] = dog[a] /\ budget'[a] = budget[a]
      OBVIOUS
    <2>2. /\ exec'[b] = "bootstrap" /\ budget'[b] = TTL - OpTimeout
          /\ dcall'[b].op = "none"
      BY DEF CallsMatchPhases
    <2>3. \/ holder = guard[b] /\ left + MaxLag >= TTL - OpTimeout
          \/ TTL - OpTimeout <= MaxLag
      <3>1. /\ ecall[b].age \in Int /\ left \in Int
            /\ ecall[b].age <= OpTimeout + MaxLag
        BY TimeAssumption DEF Calls
      <3>2. \/ holder = guard[b] /\ left + ecall[b].age >= TTL
            \/ ecall[b].age >= TTL
        BY DEF ConfirmationsBacked, Backed
      <3> QED BY <3>1, <3>2, TimeAssumption
    <2> QED BY <2>1, <2>2, <2>3 DEF ConfirmationsBacked, Backed
  <1> QED BY <1>1, <1>2, <1>3, <1>4, <1>5

\* A confirmed renewal restarts the budget.
LEMMA ProbeConfirmedInv ==
    ASSUME Inv, NEW b \in Boots, ProbeConfirmed(b) PROVE Inv'
  <1> USE DEF ProbeConfirmed, FailClosedAfter, Inv, TypeOK
  <1>1. TypeOK' BY TimeAssumption DEF Calls, LeaseOps, Phases, NewCall, NoCall
  <1>2. CallsMatchPhases'
    BY TokenAssumption DEF CallsMatchPhases, NewCall, NoCall, LeaseOps
  <1>3. GuardsDistinct' /\ ReleasesOver' /\ LeaseHasHolder'
    BY DEF GuardsDistinct, ReleasesOver, LeaseHasHolder
  <1>4. AcquisitionsFresh'
    BY DEF CallsMatchPhases, AcquisitionsFresh, NewCall, NoCall
  <1>5. ConfirmationsBacked'
    BY TimeAssumption
    DEF CallsMatchPhases, ConfirmationsBacked, Backed, NewCall, NoCall, Calls
  <1> QED BY <1>1, <1>2, <1>3, <1>4, <1>5

-----------------------------------------------------------------------------
(* Steps that leave a script in flight behind them.                        *)

\* Renewals and fenced writes of a running executor may stay in flight.
LEMMA LateGrowth ==
    ASSUME Inv, NEW b \in Boots, exec[b] \in Running,
           NEW S \in SUBSET Scripts,
           \A s \in S : s.tok = guard[b] /\ s.op \notin {"acquire", "release"},
           late' = late \cup S,
           UNCHANGED <<holder, guard, journal>>,
           \A a \in Boots : exec'[a] = "acquiring" => exec[a] = "acquiring",
           \A a \in Boots : exec'[a] = "acquiring" => ecall'[a] = ecall[a]
    PROVE  late' \subseteq Scripts /\ AcquisitionsFresh' /\ ReleasesOver'
  <1>0. guard[b] # NoToken /\ exec[b] # "acquiring"
    BY DEF Inv, CallsMatchPhases, Running
  <1>1. late' \subseteq Scripts BY DEF Inv, TypeOK
  <1>2. ReleasesOver' BY DEF Inv, ReleasesOver
  <1>3. AcquisitionsFresh'
    BY <1>0 DEF Inv, TypeOK, GuardsDistinct, AcquisitionsFresh
  <1> QED BY <1>1, <1>2, <1>3

\* A fenced write enters the network.
LEMMA SendWriteInv == ASSUME Inv, NEW b \in Boots, SendWrite(b) PROVE Inv'
  <1> DEFINE S == {[op |-> "write", boot |-> b, tok |-> guard[b]]}
  <1>1. guard[b] \in Tokens
    BY DEF SendWrite, Inv, TypeOK, CallsMatchPhases, Running
  <1>2. late' \subseteq Scripts /\ AcquisitionsFresh' /\ ReleasesOver'
    <2>1. S \in SUBSET Scripts /\ late' = late \cup S
      BY <1>1 DEF SendWrite, Scripts
    <2>2. \A s \in S : s.tok = guard[b] /\ s.op \notin {"acquire", "release"}
      OBVIOUS
    <2> HIDE DEF S
    <2> QED BY <2>1, <2>2, LateGrowth DEF SendWrite
  <1> QED BY <1>2
          DEF SendWrite, Inv, TypeOK, CallsMatchPhases, GuardsDistinct,
              ConfirmationsBacked, Backed, LeaseHasHolder

\* A bootstrap gives its authority up.
LEMMA ReleaseBootstrapAuthorityInv ==
    ASSUME Inv, NEW b \in Boots, ReleaseBootstrapAuthority(b) PROVE Inv'
  <1>0. guard[b] # NoToken /\ exec[b] \in Running
    BY DEF ReleaseBootstrapAuthority, Inv, CallsMatchPhases, Running
  <1>1. late' \subseteq Scripts /\ AcquisitionsFresh' /\ ReleasesOver'
    <2>1. /\ DogLeftover(b) \in SUBSET Scripts
          /\ \A s \in DogLeftover(b) :
                s.tok = guard[b] /\ s.op \notin {"acquire", "release"}
      BY <1>0, LeftoverOfDog
    <2>2. /\ late' = late \cup DogLeftover(b)
          /\ UNCHANGED <<holder, guard, journal>>
          /\ \A a \in Boots : exec'[a] = "acquiring" =>
                exec[a] = "acquiring" /\ ecall'[a] = ecall[a]
      BY DEF ReleaseBootstrapAuthority, Inv, TypeOK
    <2> QED BY <1>0, <2>1, <2>2, LateGrowth
  <1>2. TypeOK'
    BY <1>1, TimeAssumption
    DEF ReleaseBootstrapAuthority, StopDog, Inv, TypeOK, Calls, LeaseOps, Phases,
        NewCall, NoCall
  <1>3. CallsMatchPhases' /\ GuardsDistinct' /\ LeaseHasHolder'
    BY DEF ReleaseBootstrapAuthority, StopDog, Inv, TypeOK, CallsMatchPhases,
           GuardsDistinct, LeaseHasHolder, NewCall, NoCall
  <1>4. ConfirmationsBacked'
    BY DEF ReleaseBootstrapAuthority, StopDog, Inv, TypeOK, ConfirmationsBacked,
           Backed, NoCall
  <1> QED BY <1>1, <1>2, <1>3, <1>4 DEF Inv

\* A cooperative handoff stops the watchdog.
LEMMA StartHandoffInv ==
    ASSUME Inv, NEW b \in Boots, StartHandoff(b) PROVE Inv'
  <1>0. guard[b] # NoToken /\ exec[b] \in Running
    BY DEF StartHandoff, Inv, CallsMatchPhases, Running
  <1>1. late' \subseteq Scripts /\ AcquisitionsFresh' /\ ReleasesOver'
    <2>1. /\ DogLeftover(b) \in SUBSET Scripts
          /\ \A s \in DogLeftover(b) :
                s.tok = guard[b] /\ s.op \notin {"acquire", "release"}
      BY <1>0, LeftoverOfDog
    <2>2. /\ late' = late \cup DogLeftover(b)
          /\ UNCHANGED <<holder, guard, journal>>
          /\ \A a \in Boots : exec'[a] = "acquiring" =>
                exec[a] = "acquiring" /\ ecall'[a] = ecall[a]
      BY DEF StartHandoff, Inv, TypeOK
    <2> QED BY <1>0, <2>1, <2>2, LateGrowth
  <1>2. TypeOK'
    BY <1>1, TimeAssumption
    DEF StartHandoff, StopDog, Inv, TypeOK, Calls, LeaseOps, Phases, NewCall,
        NoCall
  <1>3. CallsMatchPhases' /\ GuardsDistinct' /\ LeaseHasHolder'
    BY DEF StartHandoff, StopDog, Inv, TypeOK, CallsMatchPhases, GuardsDistinct,
           LeaseHasHolder, NewCall, NoCall
  <1>4. ConfirmationsBacked'
    BY DEF StartHandoff, StopDog, Inv, TypeOK, ConfirmationsBacked, Backed, NoCall
  <1> QED BY <1>1, <1>2, <1>3, <1>4 DEF Inv

\* A probe is abandoned inside its budget.
LEMMA ProbeTimeoutInv == ASSUME Inv, NEW b \in Boots, ProbeTimeout(b) PROVE Inv'
  <1>0. /\ guard[b] # NoToken /\ exec[b] \in Running /\ dcall[b] \in Calls
        /\ dcall[b].op \in {"none", "renew", "renew_for_handoff"}
    BY DEF ProbeTimeout, Inv, TypeOK, CallsMatchPhases, Running
  <1>1. late' \subseteq Scripts /\ AcquisitionsFresh' /\ ReleasesOver'
    <2> DEFINE S == IF late' = late THEN {} ELSE Leftover(b, dcall[b])
    <2>1. S \in SUBSET Scripts /\ \A s \in S :
                s.tok = guard[b] /\ s.op \notin {"acquire", "release"}
      BY <1>0, LeftoverOfCall
    <2>2. /\ late' = late \cup S
          /\ UNCHANGED <<holder, guard, journal>>
          /\ \A a \in Boots : exec'[a] = "acquiring" =>
                exec[a] = "acquiring" /\ ecall'[a] = ecall[a]
      BY DEF ProbeTimeout
    <2> HIDE DEF S
    <2> QED BY <1>0, <2>1, <2>2, LateGrowth
  <1>2. TypeOK'
    BY <1>1, TimeAssumption DEF ProbeTimeout, Inv, TypeOK, Calls, NoCall
  <1>3. CallsMatchPhases' /\ GuardsDistinct' /\ LeaseHasHolder'
    BY DEF ProbeTimeout, Inv, TypeOK, CallsMatchPhases, GuardsDistinct,
           LeaseHasHolder, NoCall
  <1>4. ConfirmationsBacked'
    BY DEF ProbeTimeout, Inv, TypeOK, ConfirmationsBacked, Backed, NoCall
  <1> QED BY <1>1, <1>2, <1>3, <1>4 DEF Inv

\* The watchdog fails closed.
LEMMA FailClosedInv == ASSUME Inv, NEW b \in Boots, FailClosed(b) PROVE Inv'
  <1>0. /\ guard[b] # NoToken /\ exec[b] \in Running /\ dcall[b] \in Calls
        /\ dcall[b].op \in {"none", "renew", "renew_for_handoff"}
    BY DEF FailClosed, Inv, TypeOK, CallsMatchPhases, Running
  <1>1. late' \subseteq Scripts /\ AcquisitionsFresh' /\ ReleasesOver'
    <2> DEFINE S == IF late' = late THEN {} ELSE Leftover(b, dcall[b])
    <2>1. S \in SUBSET Scripts /\ \A s \in S :
                s.tok = guard[b] /\ s.op \notin {"acquire", "release"}
      BY <1>0, LeftoverOfCall
    <2>2. /\ late' = late \cup S
          /\ UNCHANGED <<holder, guard, journal>>
          /\ \A a \in Boots : exec'[a] = "acquiring" =>
                exec[a] = "acquiring" /\ ecall'[a] = ecall[a]
      BY DEF FailClosed
    <2> HIDE DEF S
    <2> QED BY <1>0, <2>1, <2>2, LateGrowth
  <1>2. TypeOK'
    BY <1>1, TimeAssumption DEF FailClosed, Inv, TypeOK, Calls, NoCall
  <1>3. CallsMatchPhases' /\ GuardsDistinct' /\ LeaseHasHolder'
    BY DEF FailClosed, Inv, TypeOK, CallsMatchPhases, GuardsDistinct,
           LeaseHasHolder, NoCall
  <1>4. ConfirmationsBacked'
    BY DEF FailClosed, Inv, TypeOK, ConfirmationsBacked, Backed, NoCall
  <1> QED BY <1>1, <1>2, <1>3, <1>4 DEF Inv

\* A bridge renewal is answered or abandoned.
LEMMA BridgeReplyInv == ASSUME Inv, NEW b \in Boots, BridgeReply(b) PROVE Inv'
  <1>0. /\ guard[b] # NoToken /\ exec[b] \in Running /\ dcall[b] \in Calls
        /\ dcall[b].op \in {"none", "renew", "renew_for_handoff"}
    BY DEF BridgeReply, Inv, TypeOK, CallsMatchPhases, Running
  <1>1. late' \subseteq Scripts /\ AcquisitionsFresh' /\ ReleasesOver'
    <2> DEFINE S == IF late' = late THEN {} ELSE Leftover(b, dcall[b])
    <2>1. S \in SUBSET Scripts /\ \A s \in S :
                s.tok = guard[b] /\ s.op \notin {"acquire", "release"}
      BY <1>0, LeftoverOfCall
    <2>2. /\ late' = late \cup S
          /\ UNCHANGED <<holder, guard, journal>>
          /\ \A a \in Boots : exec'[a] = "acquiring" =>
                exec[a] = "acquiring" /\ ecall'[a] = ecall[a]
      BY DEF BridgeReply
    <2> HIDE DEF S
    <2> QED BY <1>0, <2>1, <2>2, LateGrowth
  <1>2. TypeOK'
    <2>1. dog' \in [Boots -> {"off", "armed", "bridging", "done"}]
      BY DEF BridgeReply, Inv, TypeOK
    <2>2. NoCall \in Calls BY TimeAssumption DEF NoCall, Calls
    <2>3. dcall' \in [Boots -> Calls] BY <2>2 DEF BridgeReply, Inv, TypeOK
    <2> QED BY <1>1, <2>1, <2>3 DEF BridgeReply, Inv, TypeOK
  <1>3. CallsMatchPhases' /\ GuardsDistinct' /\ LeaseHasHolder'
    BY DEF BridgeReply, Inv, TypeOK, CallsMatchPhases, GuardsDistinct,
           LeaseHasHolder, NoCall
  <1>4. ConfirmationsBacked'
    BY DEF BridgeReply, Inv, TypeOK, ConfirmationsBacked, Backed, NoCall
  <1> QED BY <1>1, <1>2, <1>3, <1>4 DEF Inv

-----------------------------------------------------------------------------
(* Redis runs a script.                                                    *)

\* What a script does to the lease key and to the journal, whoever sent it.
LEMMA ScriptEffect ==
    ASSUME Inv, NEW op \in LeaseOps \cup {"write"}, NEW b \in Boots,
           NEW t \in Tokens, RunScript(op, b, t)
    PROVE  /\ owner' \in Boots /\ left' \in 0 .. TTL
           /\ holder' \in Tokens \cup {NoToken} /\ journal' \in Seq(Tokens)
           /\ LeaseHasHolder'
           /\ holder' \in {holder, t}
           /\ holder' # holder => op = "acquire" /\ left = 0
           /\ left' < left => op = "release" /\ holder = t
           /\ op \in {"renew", "acquire"} /\ Granted(op, b, t)
                 => holder' = t /\ left' = TTL
           /\ \A i \in DOMAIN journal' :
                 \/ i \in DOMAIN journal /\ journal'[i] = journal[i]
                 \/ journal'[i] = t /\ op = "write" /\ holder = t
  <1> USE TimeAssumption DEF Inv, TypeOK, RunScript
  <1>1. /\ owner' \in Boots /\ left' \in 0 .. TTL
        /\ holder' \in Tokens \cup {NoToken}
    OBVIOUS
  <1>2. /\ journal' \in Seq(Tokens)
        /\ \A i \in DOMAIN journal' :
              \/ i \in DOMAIN journal /\ journal'[i] = journal[i]
              \/ journal'[i] = t /\ op = "write" /\ holder = t
    <2>1. CASE journal' = journal BY <2>1
    <2>2. CASE journal' = Append(journal, t) /\ op = "write" /\ Held(t)
      BY <2>2 DEF Held
    <2> QED BY <2>1, <2>2 DEF Granted
  <1>3. LeaseHasHolder' BY DEF LeaseHasHolder, Granted, Held
  <1>4. /\ holder' \in {holder, t}
        /\ holder' # holder => op = "acquire" /\ left = 0
        /\ left' < left => op = "release" /\ holder = t
        /\ op \in {"renew", "acquire"} /\ Granted(op, b, t)
              => holder' = t /\ left' = TTL
    BY DEF Granted, Held
  <1> QED BY <1>1, <1>2, <1>3, <1>4

\* Arithmetic used below.
LEMMA GreaterKeepsBound ==
    \A x, y, n, m \in Int : ~(y < x) /\ x + n >= m => y + n >= m
  OBVIOUS

\* A script of another token, or one that is no release, never takes away what
\* backs a confirmation.
LEMMA ScriptKeepsBacking ==
    ASSUME Inv, NEW op \in LeaseOps \cup {"write"}, NEW b \in Boots,
           NEW t \in Tokens, RunScript(op, b, t),
           NEW g, op = "release" => g # t,
           NEW n \in Int, NEW m \in Int,
           (holder = g /\ left + n >= m) \/ n >= m
    PROVE  (holder' = g /\ left' + n >= m) \/ n >= m
  <1>1. left \in Int /\ left' \in Int
    <2>1. left \in 0 .. TTL BY DEF Inv, TypeOK
    <2>2. left' \in 0 .. TTL BY ScriptEffect
    <2> QED BY <2>1, <2>2, TimeAssumption
  <1>2. /\ holder' # holder => left = 0
        /\ left' < left => op = "release" /\ holder = t
    BY ScriptEffect
  <1>3. CASE holder = g /\ left + n >= m /\ ~(n >= m)
    <2>1. left # 0 BY <1>1, <1>3
    <2>2. holder' = g BY <1>2, <1>3, <2>1
    <2>3. ~(left' < left) BY <1>2, <1>3
    <2>4. n \in Int /\ m \in Int /\ left + n >= m BY <1>3
    <2>5. left' + n >= m BY <1>1, <2>3, <2>4, GreaterKeepsBound
    <2> QED BY <2>2, <2>5
  <1> QED BY <1>3

\* Whoever runs it, a script preserves the confirmations of every executor
\* whose calls it does not answer.
LEMMA ScriptKeepsConfirmation ==
    ASSUME Inv, NEW op \in LeaseOps \cup {"write"}, NEW b \in Boots,
           NEW t \in Tokens, RunScript(op, b, t), UNCHANGED guard,
           NEW a \in Boots, op = "release" => guard[a] # t
    PROVE  /\ dog[a] = "armed" /\ dcall[a].op = "renew" /\ dcall[a].reply = "yes"
                 => (holder' = guard[a] /\ left' + dcall[a].age >= TTL)
                       \/ dcall[a].age >= TTL
           /\ exec[a] = "acquiring" /\ ecall[a].reply = "yes"
                 => (holder' = guard[a] /\ left' + ecall[a].age >= TTL)
                       \/ ecall[a].age >= TTL
           /\ dog[a] = "armed"
                 => \/ holder' = guard[a] /\ left' + MaxLag >= budget[a]
                    \/ budget[a] <= MaxLag
  <1>1. /\ ecall[a].age \in Int /\ dcall[a].age \in Int
        /\ budget[a] \in Int /\ TTL \in Int /\ MaxLag \in Int
    BY TimeAssumption DEF Inv, TypeOK, Calls
  <1>2. dog[a] = "armed"
           => (holder = guard[a] /\ left + MaxLag >= budget[a])
                 \/ MaxLag >= budget[a]
    BY <1>1 DEF Inv, ConfirmationsBacked
  <1>3. dog[a] = "armed"
           => (holder' = guard[a] /\ left' + MaxLag >= budget[a])
                 \/ MaxLag >= budget[a]
    BY <1>1, <1>2, ScriptKeepsBacking
  <1>4. dog[a] = "armed" /\ dcall[a].op = "renew" /\ dcall[a].reply = "yes"
           => (holder = guard[a] /\ left + dcall[a].age >= TTL)
                 \/ dcall[a].age >= TTL
    BY DEF Inv, ConfirmationsBacked, Backed
  <1>5. dog[a] = "armed" /\ dcall[a].op = "renew" /\ dcall[a].reply = "yes"
           => (holder' = guard[a] /\ left' + dcall[a].age >= TTL)
                 \/ dcall[a].age >= TTL
    BY <1>1, <1>4, ScriptKeepsBacking
  <1>6. exec[a] = "acquiring" /\ ecall[a].reply = "yes"
           => (holder = guard[a] /\ left + ecall[a].age >= TTL)
                 \/ ecall[a].age >= TTL
    BY DEF Inv, ConfirmationsBacked, Backed
  <1>7. exec[a] = "acquiring" /\ ecall[a].reply = "yes"
           => (holder' = guard[a] /\ left' + ecall[a].age >= TTL)
                 \/ ecall[a].age >= TTL
    BY <1>1, <1>6, ScriptKeepsBacking
  <1> QED BY <1>1, <1>3, <1>5, <1>7

\* Redis answers the executor's own call.
LEMMA RunExecCallInv == ASSUME Inv, NEW b \in Boots, RunExecCall(b) PROVE Inv'
  <1> DEFINE op == ecall[b].op  t == guard[b]
  <1>1. /\ op \in LeaseOps /\ t \in Tokens /\ RunScript(op, b, t)
        /\ ecall[b].reply = "pending" /\ op # "write"
    BY DEF RunExecCall, Inv, TypeOK, CallsMatchPhases, LeaseOps
  <1>2. /\ op = "acquire" <=> exec[b] = "acquiring"
        /\ op = "release" => dog[b] = "off" /\ exec[b] # "acquiring"
    BY <1>1 DEF Inv, TypeOK, CallsMatchPhases, Phases, LeaseOps
  <1>3. /\ UNCHANGED <<exec, guard, dog, dcall, event, budget, late, journal>>
        /\ ecall' = [ecall EXCEPT ![b].reply = Reply(op, b, t)]
    BY <1>1 DEF RunExecCall, RunScript
  <1>4. /\ owner' \in Boots /\ left' \in 0 .. TTL /\ LeaseHasHolder'
        /\ holder' \in Tokens \cup {NoToken}
        /\ holder' \in {holder, t} /\ (holder' # holder => op = "acquire")
        /\ op = "acquire" /\ Granted(op, b, t) => holder' = t /\ left' = TTL
    BY <1>1, ScriptEffect
  <1>5. /\ ecall' \in [Boots -> Calls]
        /\ ecall'[b].op = op /\ ecall'[b].age = ecall[b].age
        /\ ecall'[b].reply = "yes" => Granted(op, b, t)
        /\ ecall'[b].reply # "pending"
        /\ \A a \in Boots : a # b => ecall'[a] = ecall[a]
    <2>1. Reply(op, b, t) \in {"yes", "no"}
          /\ (Reply(op, b, t) = "yes" => Granted(op, b, t))
      BY DEF Reply
    <2>2. ecall[b] \in Calls /\ ecall[b].op = op BY DEF Inv, TypeOK
    <2>3. ecall'[b] = [ecall[b] EXCEPT !.reply = Reply(op, b, t)]
      BY <1>3 DEF Inv, TypeOK
    <2> HIDE DEF op, t
    <2>4. /\ ecall'[b] \in Calls /\ ecall'[b].op = op
          /\ ecall'[b].age = ecall[b].age /\ ecall'[b].reply = Reply(op, b, t)
      BY <2>1, <2>2, <2>3 DEF Calls
    <2>5. /\ \A a \in Boots : a # b => ecall'[a] = ecall[a]
          /\ ecall' \in [Boots -> Calls]
      BY <1>3, <2>3, <2>4 DEF Inv, TypeOK
    <2> QED BY <2>1, <2>4, <2>5
  <1> HIDE DEF op, t
  <1>6. TypeOK' BY <1>3, <1>4, <1>5 DEF Inv, TypeOK
  <1>7. CallsMatchPhases' /\ GuardsDistinct' /\ ReleasesOver'
    BY <1>1, <1>3, <1>5
    DEF Inv, CallsMatchPhases, GuardsDistinct, ReleasesOver, op, LeaseOps
  <1>8. AcquisitionsFresh'
    <2>1. ASSUME NEW s \in late, s.op = "acquire" PROVE s.tok # holder'
      BY <1>4, <2>1 DEF Inv, AcquisitionsFresh, t
    <2>2. ASSUME NEW a \in Boots, exec[a] = "acquiring",
                 ecall'[a].reply = "pending"
          PROVE  a # b /\ ecall[a].reply = "pending" /\ guard[a] # holder'
      <3>1. a # b /\ ecall[a].reply = "pending" BY <1>5, <2>2
      <3>2. guard[a] # holder BY <2>2, <3>1 DEF Inv, AcquisitionsFresh
      <3>3. guard[a] # t
        BY <1>1, <3>1, TokenAssumption DEF Inv, GuardsDistinct, t
      <3> QED BY <1>4, <3>1, <3>2, <3>3
    <2> QED BY <1>3, <2>1, <2>2 DEF Inv, AcquisitionsFresh
  <1>9. ConfirmationsBacked'
    <2> SUFFICES ASSUME NEW a \in Boots
        PROVE /\ exec[a] = "acquiring" /\ ecall'[a].reply = "yes"
                    => (holder' = guard[a] /\ left' + ecall'[a].age >= TTL)
                          \/ ecall'[a].age >= TTL
              /\ dog[a] = "armed" /\ dcall[a].op = "renew"
                    /\ dcall[a].reply = "yes"
                    => (holder' = guard[a] /\ left' + dcall[a].age >= TTL)
                          \/ dcall[a].age >= TTL
              /\ dog[a] = "armed"
                    => \/ holder' = guard[a] /\ left' + MaxLag >= budget[a]
                       \/ budget[a] <= MaxLag
      BY <1>3 DEF ConfirmationsBacked, Backed
    <2>1. CASE op = "release" /\ a = b
      BY <1>2, <1>3, <2>1
    <2>2. CASE op = "release" => guard[a] # t
      <3>1. /\ exec[a] = "acquiring" /\ ecall[a].reply = "yes"
                  => (holder' = guard[a] /\ left' + ecall[a].age >= TTL)
                        \/ ecall[a].age >= TTL
            /\ dog[a] = "armed" /\ dcall[a].op = "renew"
                    /\ dcall[a].reply = "yes"
                  => (holder' = guard[a] /\ left' + dcall[a].age >= TTL)
                        \/ dcall[a].age >= TTL
            /\ dog[a] = "armed"
                  => \/ holder' = guard[a] /\ left' + MaxLag >= budget[a]
                     \/ budget[a] <= MaxLag
        BY <1>1, <1>3, <2>2, ScriptKeepsConfirmation
      <3>2. CASE a # b BY <1>5, <3>1, <3>2
      <3>3. CASE a = b
        <4>1. exec[a] = "acquiring" /\ ecall'[a].reply = "yes"
                 => holder' = guard[a] /\ left' = TTL
          BY <1>2, <1>4, <1>5, <3>3 DEF t
        <4>2. ecall'[a].age \in Nat
          BY <1>5, TimeAssumption DEF Calls
        <4> QED BY <3>1, <4>1, <4>2, TimeAssumption
      <3> QED BY <3>2, <3>3
    <2>3. op = "release" /\ guard[a] = t => a = b
      BY <1>1, TokenAssumption DEF Inv, GuardsDistinct, t
    <2> QED BY <2>1, <2>2, <2>3
  <1> QED BY <1>4, <1>6, <1>7, <1>8, <1>9 DEF Inv

\* Redis answers the watchdog's call.
LEMMA RunDogCallInv == ASSUME Inv, NEW b \in Boots, RunDogCall(b) PROVE Inv'
  <1> DEFINE op == dcall[b].op  t == guard[b]
  <1>1. /\ op \in {"renew", "renew_for_handoff"} /\ t \in Tokens
        /\ RunScript(op, b, t) /\ dcall[b].reply = "pending"
        /\ exec[b] \in {"bootstrap", "live"}
    BY DEF RunDogCall, Inv, TypeOK, CallsMatchPhases, LeaseOps
  <1>3. /\ UNCHANGED <<exec, guard, ecall, dog, event, budget, late, journal>>
        /\ dcall' = [dcall EXCEPT ![b].reply = Reply(op, b, t)]
    BY <1>1 DEF RunDogCall, RunScript
  <1>4. /\ owner' \in Boots /\ left' \in 0 .. TTL /\ LeaseHasHolder'
        /\ holder' = holder
        /\ op = "renew" /\ Granted(op, b, t) => holder' = t /\ left' = TTL
    BY <1>1, ScriptEffect DEF LeaseOps
  <1>5. /\ dcall' \in [Boots -> Calls]
        /\ dcall'[b].op = op /\ dcall'[b].age = dcall[b].age
        /\ dcall'[b].reply = "yes" <=> Granted(op, b, t)
        /\ \A a \in Boots : a # b => dcall'[a] = dcall[a]
    BY <1>3 DEF Inv, TypeOK, Calls, Reply
  <1> HIDE DEF op, t
  <1>6. TypeOK' BY <1>3, <1>4, <1>5 DEF Inv, TypeOK
  <1>7. CallsMatchPhases' /\ GuardsDistinct' /\ ReleasesOver'
    BY <1>1, <1>3, <1>5
    DEF Inv, CallsMatchPhases, GuardsDistinct, ReleasesOver, op
  <1>8. AcquisitionsFresh' BY <1>3, <1>4 DEF Inv, AcquisitionsFresh
  <1>9. ConfirmationsBacked'
    <2> SUFFICES ASSUME NEW a \in Boots
        PROVE /\ exec[a] = "acquiring" /\ ecall[a].reply = "yes"
                    => (holder' = guard[a] /\ left' + ecall[a].age >= TTL)
                          \/ ecall[a].age >= TTL
              /\ dog[a] = "armed" /\ dcall'[a].op = "renew"
                    /\ dcall'[a].reply = "yes"
                    => (holder' = guard[a] /\ left' + dcall'[a].age >= TTL)
                          \/ dcall'[a].age >= TTL
              /\ dog[a] = "armed"
                    => \/ holder' = guard[a] /\ left' + MaxLag >= budget[a]
                       \/ budget[a] <= MaxLag
      BY <1>3 DEF ConfirmationsBacked, Backed
    <2>1. /\ exec[a] = "acquiring" /\ ecall[a].reply = "yes"
                => (holder' = guard[a] /\ left' + ecall[a].age >= TTL)
                      \/ ecall[a].age >= TTL
          /\ dog[a] = "armed" /\ dcall[a].op = "renew" /\ dcall[a].reply = "yes"
                => (holder' = guard[a] /\ left' + dcall[a].age >= TTL)
                      \/ dcall[a].age >= TTL
          /\ dog[a] = "armed"
                => \/ holder' = guard[a] /\ left' + MaxLag >= budget[a]
                   \/ budget[a] <= MaxLag
      BY <1>1, <1>3, ScriptKeepsConfirmation DEF LeaseOps
    <2>2. CASE a # b BY <1>5, <2>1, <2>2
    <2>3. CASE a = b
      <3>1. dcall'[a].op = "renew" /\ dcall'[a].reply = "yes"
               => holder' = guard[a] /\ left' = TTL
        BY <1>4, <1>5, <2>3 DEF t
      <3>2. dcall'[a].age \in Nat BY <1>5, TimeAssumption DEF Calls
      <3> QED BY <2>1, <3>1, <3>2, TimeAssumption
    <2> QED BY <2>2, <2>3
  <1> QED BY <1>4, <1>6, <1>7, <1>8, <1>9 DEF Inv

\* Redis runs a script whose caller is gone.
LEMMA RunLateInv == ASSUME Inv, NEW s \in late, RunLate(s) PROVE Inv'
  <1>1. /\ s \in Scripts /\ s.op \in LeaseOps \cup {"write"}
        /\ s.boot \in Boots /\ s.tok \in Tokens
        /\ RunScript(s.op, s.boot, s.tok)
        /\ late' = late \ {s}
        /\ UNCHANGED <<exec, guard, ecall, dog, dcall, event, budget>>
    BY DEF RunLate, Inv, TypeOK, Scripts
  <1>2. /\ owner' \in Boots /\ left' \in 0 .. TTL
        /\ holder' \in Tokens \cup {NoToken} /\ journal' \in Seq(Tokens)
        /\ LeaseHasHolder'
        /\ holder' \in {holder, s.tok}
        /\ holder' # holder => s.op = "acquire"
        /\ \A i \in DOMAIN journal' :
              \/ i \in DOMAIN journal /\ journal'[i] = journal[i]
              \/ journal'[i] = s.tok /\ s.op = "write" /\ holder = s.tok
    BY <1>1, ScriptEffect
  <1>3. s.op = "release" => \A a \in Boots : guard[a] # s.tok
    BY DEF Inv, ReleasesOver
  <1>4. TypeOK' BY <1>1, <1>2 DEF Inv, TypeOK
  <1>5. CallsMatchPhases' /\ GuardsDistinct' /\ ReleasesOver'
    BY <1>1 DEF Inv, CallsMatchPhases, GuardsDistinct, ReleasesOver
  <1>6. AcquisitionsFresh'
    <2>1. ASSUME NEW r \in late', r.op = "acquire"
          PROVE  /\ r.tok # holder'
                 /\ \A b \in Boots : guard'[b] # r.tok
                 /\ \A q \in late' : q.tok = r.tok => q = r
                 /\ \A i \in DOMAIN journal' : journal'[i] # r.tok
      BY <1>1, <1>2, <2>1 DEF Inv, AcquisitionsFresh
    <2>2. ASSUME NEW b \in Boots, exec'[b] = "acquiring"
          PROVE  /\ \A r \in late' : r.tok # guard'[b]
                 /\ ecall'[b].reply = "pending" =>
                       /\ guard'[b] # holder'
                       /\ \A i \in DOMAIN journal' : journal'[i] # guard'[b]
      BY <1>1, <1>2, <2>2 DEF Inv, AcquisitionsFresh
    <2> QED BY <2>1, <2>2 DEF AcquisitionsFresh
  <1>7. ConfirmationsBacked'
    BY <1>1, <1>3, ScriptKeepsConfirmation DEF ConfirmationsBacked, Backed
  <1> QED BY <1>2, <1>4, <1>5, <1>6, <1>7 DEF Inv

\* Time: the key, the budgets and the awaited calls age together.
LEMMA TickInv == ASSUME Inv, Tick PROVE Inv'
  <1> USE TimeAssumption DEF Inv, TypeOK, Tick
  <1>1. /\ \A b \in Boots : /\ ecall'[b] = Aged(ecall[b])
                            /\ dcall'[b] = Aged(dcall[b])
                            /\ budget'[b] = Less(budget[b])
        /\ left' = Less(left)
    OBVIOUS
  <1>2. ASSUME NEW c \in Calls, MayAge(c)
        PROVE  /\ Aged(c) \in Calls
               /\ Aged(c).op = c.op /\ Aged(c).reply = c.reply
               /\ c.op = "none" => Aged(c) = c
               /\ c.op # "none" => Aged(c).age = c.age + 1
    <2>1. CASE c.op = "none" BY <2>1 DEF Aged
    <2>2. CASE c.op # "none"
      <3>1. /\ Aged(c) = [c EXCEPT !.age = c.age + 1]
            /\ c.age \in 0 .. (OpTimeout + MaxLag) /\ c.age < OpTimeout + MaxLag
        BY <1>2, <2>2 DEF Aged, MayAge, Calls
      <3>2. c.age + 1 \in 0 .. (OpTimeout + MaxLag) BY <3>1
      <3> QED BY <2>2, <3>1, <3>2 DEF Calls
    <2> QED BY <2>1, <2>2
  <1>3. \A b \in Boots :
            /\ ecall'[b] \in Calls /\ ecall'[b].op = ecall[b].op
            /\ ecall'[b].reply = ecall[b].reply
            /\ ecall[b].op = "none" => ecall'[b] = ecall[b]
            /\ ecall[b].op # "none" => ecall'[b].age = ecall[b].age + 1
            /\ dcall'[b] \in Calls /\ dcall'[b].op = dcall[b].op
            /\ dcall'[b].reply = dcall[b].reply
            /\ dcall[b].op = "none" => dcall'[b] = dcall[b]
            /\ dcall[b].op # "none" => dcall'[b].age = dcall[b].age + 1
    BY <1>1, <1>2
  <1>4. TypeOK' BY <1>1, <1>3 DEF Less
  <1>5. CallsMatchPhases' BY <1>3 DEF CallsMatchPhases
  <1>6. GuardsDistinct' /\ ReleasesOver' /\ LeaseHasHolder'
    BY DEF GuardsDistinct, ReleasesOver, LeaseHasHolder, Less
  <1>7. AcquisitionsFresh' BY <1>3 DEF AcquisitionsFresh
  <1>8. ConfirmationsBacked'
    <2> SUFFICES ASSUME NEW b \in Boots
        PROVE /\ exec'[b] = "acquiring" /\ ecall'[b].reply = "yes"
                    => Backed(b, ecall[b].age)'
              /\ dog'[b] = "armed" /\ dcall'[b].op = "renew"
                    /\ dcall'[b].reply = "yes"
                    => Backed(b, dcall[b].age)'
              /\ dog'[b] = "armed"
                    => \/ holder' = guard'[b] /\ left' + MaxLag >= budget'[b]
                       \/ budget'[b] <= MaxLag
      BY DEF ConfirmationsBacked
    <2>1. /\ ecall[b].age \in Int /\ dcall[b].age \in Int
          /\ left \in Int /\ left >= 0
      BY DEF Calls
    <2>2. ASSUME exec[b] = "acquiring", ecall[b].reply = "yes"
          PROVE  \/ holder = guard[b] /\ left' + ecall'[b].age >= TTL
                 \/ ecall'[b].age >= TTL
      <3>1. ecall'[b].age = ecall[b].age + 1
        BY <1>3, <2>2 DEF CallsMatchPhases
      <3>2. \/ holder = guard[b] /\ left + ecall[b].age >= TTL
            \/ ecall[b].age >= TTL
        BY <2>2 DEF ConfirmationsBacked, Backed
      <3> QED BY <1>1, <2>1, <3>1, <3>2 DEF Less
    <2>3. ASSUME dog[b] = "armed", dcall[b].op = "renew", dcall[b].reply = "yes"
          PROVE  \/ holder = guard[b] /\ left' + dcall'[b].age >= TTL
                 \/ dcall'[b].age >= TTL
      <3>1. dcall'[b].age = dcall[b].age + 1 BY <1>3, <2>3
      <3>2. \/ holder = guard[b] /\ left + dcall[b].age >= TTL
            \/ dcall[b].age >= TTL
        BY <2>3 DEF ConfirmationsBacked, Backed
      <3> QED BY <1>1, <2>1, <3>1, <3>2 DEF Less
    <2>4. dog[b] = "armed"
             => \/ holder = guard[b] /\ left' + MaxLag >= budget'[b]
                \/ budget'[b] <= MaxLag
      BY <1>1 DEF ConfirmationsBacked, Less
    <2> QED BY <1>3, <2>2, <2>3, <2>4 DEF Backed
  <1> QED BY <1>4, <1>5, <1>6, <1>7, <1>8

-----------------------------------------------------------------------------
(* The invariant, and what follows from it.                                *)

\* The initial state satisfies the invariant.
LEMMA InitInv == Init => Inv
  BY TimeAssumption
  DEF Init, Inv, TypeOK, CallsMatchPhases, GuardsDistinct, AcquisitionsFresh,
      ReleasesOver, ConfirmationsBacked, Backed, LeaseHasHolder, Calls, NoCall,
      Phases

\* A keepalive is confirmed, or the barrier's executor ends.
LEMMA KeepaliveReplyInv ==
    ASSUME Inv, NEW b \in Boots, KeepaliveReply(b) PROVE Inv'
  <1>1. CASE End(b) BY <1>1, EndPreservesInv DEF KeepaliveReply
  <1>2. CASE /\ ecall' = [ecall EXCEPT ![b] = NoCall]
             /\ UNCHANGED <<owner, holder, left, exec, guard, dog, dcall, event,
                            budget, late, journal>>
    BY <1>2, TimeAssumption
    DEF KeepaliveReply, Inv, TypeOK, CallsMatchPhases, GuardsDistinct,
        AcquisitionsFresh, ReleasesOver, ConfirmationsBacked, Backed,
        LeaseHasHolder, Calls, LeaseOps, NoCall
  <1> QED BY <1>1, <1>2 DEF KeepaliveReply

\* Nothing changes.
LEMMA StutterInv == ASSUME Inv, UNCHANGED vars PROVE Inv'
  BY DEF vars, Inv, TypeOK, CallsMatchPhases, GuardsDistinct,
         AcquisitionsFresh, ReleasesOver, ConfirmationsBacked, Backed,
         LeaseHasHolder

\* Every step preserves the invariant.
LEMMA NextInv == Inv /\ [Next]_vars => Inv'
  <1> SUFFICES ASSUME Inv, [Next]_vars PROVE Inv'
    OBVIOUS
  <1>1. ASSUME NEW b \in Boots, ExecStep(b) PROVE Inv'
    <2>1. CASE Finished(b) \/ CallTimeout(b) \/ AuthorityEnd(b) \/ Crash(b)
      <3>1. exec[b] # "idle" /\ End(b)
        BY <2>1
        DEF Finished, CallTimeout, AuthorityEnd, Crash, Inv, CallsMatchPhases,
            LeaseOps
      <3> QED BY <3>1, EndPreservesInv
    <2> QED BY <1>1, <2>1, QuietStepInv, TryAcquireInv, AcquiredInv,
               ReleaseBootstrapAuthorityInv, StartHandoffInv, KeepaliveReplyInv,
               SendWriteInv
            DEF ExecStep
  <1>2. ASSUME NEW b \in Boots, DogStep(b) PROVE Inv'
    BY <1>2, QuietStepInv, ProbeConfirmedInv, ProbeTimeoutInv, FailClosedInv,
       BridgeReplyInv
    DEF DogStep
  <1>3. CASE RedisStep
    BY <1>3, RunExecCallInv, RunDogCallInv, RunLateInv, QuietStepInv
    DEF RedisStep
  <1> QED BY <1>1, <1>2, <1>3, TickInv, StutterInv DEF Next

\* The invariant holds throughout.
LEMMA LeaseInv == Spec => []Inv
  BY InitInv, NextInv, PTL DEF Spec

\* Every variable keeps its type.
THEOREM LeaseTypeCorrect == Spec => []TypeOK
  BY LeaseInv, PTL DEF Inv

\* The fail-closed deadline of an executor's watchdog comes before its lease
\* can be anybody else's, whatever scripts are delayed, lost or left behind.
THEOREM WatchdogFailsClosedInTime == Spec => []BudgetBacksAuthority
  <1>1. Inv => BudgetBacksAuthority
    BY TimeAssumption
    DEF Inv, TypeOK, ConfirmationsBacked, BudgetBacksAuthority, Held
  <1> QED BY <1>1, LeaseInv, PTL

\* Two executors never both run inside their budget.
THEOREM AtMostOneConfidentExecutor == Spec => []OneConfidentExecutor
  <1>1. Inv => OneConfidentExecutor
    <2> SUFFICES ASSUME Inv, NEW a \in Boots, NEW b \in Boots,
                        dog[a] = "armed", budget[a] > MaxLag,
                        dog[b] = "armed", budget[b] > MaxLag
                 PROVE  a = b
      BY DEF OneConfidentExecutor
    <2>1. holder = guard[a] /\ holder = guard[b]
      BY TimeAssumption DEF Inv, TypeOK, ConfirmationsBacked
    <2>2. guard[a] # NoToken BY DEF Inv, CallsMatchPhases
    <2> QED BY <2>1, <2>2 DEF Inv, GuardsDistinct
  <1> QED BY <1>1, LeaseInv, PTL

-----------------------------------------------------------------------------
(* Refinement: the lease implements PartitionTerms.                        *)

\* Running a script is one abstract step or none.
LEMMA ScriptRefines ==
    ASSUME Inv, NEW op \in LeaseOps \cup {"write"}, NEW b \in Boots,
           NEW t \in Tokens, RunScript(op, b, t),
           op = "acquire" => \A i \in DOMAIN journal : journal[i] # t
    PROVE  [Terms!Next]_(Terms!vars)
  <1> USE TimeAssumption, TokenAssumption
      DEF Inv, TypeOK, RunScript, Granted, Held, LeaseHasHolder
  <1>1. CASE ~Granted(op, b, t)
    BY <1>1 DEF Terms!vars
  <1>2. CASE Granted(op, b, t) /\ op = "acquire"
    <2>1. Terms!Begin(t) BY <1>2 DEF Terms!Begin, Terms!Written
    <2> QED BY <2>1 DEF Terms!Next
  <1>3. CASE Granted(op, b, t) /\ op \in {"renew", "renew_for_handoff"}
    BY <1>3 DEF Terms!vars
  <1>4. CASE Granted(op, b, t) /\ op = "release"
    <2>1. Terms!End BY <1>4 DEF Terms!End
    <2> QED BY <2>1 DEF Terms!Next
  <1>5. CASE Granted(op, b, t) /\ op = "write"
    <2>1. Terms!Write BY <1>5 DEF Terms!Write
    <2> QED BY <2>1 DEF Terms!Next
  <1> QED BY <1>1, <1>2, <1>3, <1>4, <1>5 DEF LeaseOps

\* Steps of executors and watchdogs never touch the lease key or the journal.
LEMMA LocalStepsStutter ==
    ASSUME NEW b \in Boots, ExecStep(b) \/ DogStep(b) \/ Reassign(b)
    PROVE  UNCHANGED Terms!vars
  <1>1. UNCHANGED <<holder, left, journal>>
    BY DEF ExecStep, DogStep, Reassign, TryAcquire, Acquired, AcquiredDraining,
           Finished, CallTimeout, BootstrapDone, ReleaseBootstrapAuthority,
           StartHandoff, SendKeepalive, KeepaliveReply, BarrierDone,
           AuthorityEnd, Crash, SendWrite, End, redis, SendProbe,
           ProbeConfirmed, ProbeRefused, ProbeClassified, ProbeTimeout,
           FailClosed, BridgeRenew, BridgeReply, BridgeDeadline
  <1> QED BY <1>1 DEF Terms!vars

\* Every step of the lease is a step of the abstract terms or a stutter.
LEMMA NextRefines == Inv /\ [Next]_vars => [Terms!Next]_(Terms!vars)
  <1> SUFFICES ASSUME Inv, [Next]_vars PROVE [Terms!Next]_(Terms!vars)
    OBVIOUS
  <1>1. ASSUME NEW b \in Boots, RunExecCall(b)
        PROVE  [Terms!Next]_(Terms!vars)
    <2>1. /\ ecall[b].op \in LeaseOps /\ guard[b] \in Tokens
          /\ RunScript(ecall[b].op, b, guard[b])
          /\ ecall[b].op = "acquire"
                => \A i \in DOMAIN journal : journal[i] # guard[b]
      BY <1>1
      DEF RunExecCall, Inv, TypeOK, CallsMatchPhases, AcquisitionsFresh,
          LeaseOps, Phases
    <2> QED BY <2>1, ScriptRefines
  <1>2. ASSUME NEW b \in Boots, RunDogCall(b)
        PROVE  [Terms!Next]_(Terms!vars)
    <2>1. /\ dcall[b].op \in LeaseOps \ {"acquire"}
          /\ RunScript(dcall[b].op, b, guard[b])
      BY <1>2 DEF RunDogCall, Inv, CallsMatchPhases, LeaseOps
    <2>2. dog[b] # "off" BY <2>1 DEF Inv, CallsMatchPhases, LeaseOps
    <2>3. guard[b] \in Tokens BY <2>2 DEF Inv, TypeOK, CallsMatchPhases
    <2> QED BY <2>1, <2>3, ScriptRefines
  <1>3. ASSUME NEW s \in late, RunLate(s) PROVE [Terms!Next]_(Terms!vars)
    <2>1. /\ s.op \in LeaseOps \cup {"write"} /\ s.boot \in Boots
          /\ s.tok \in Tokens /\ RunScript(s.op, s.boot, s.tok)
          /\ s.op = "acquire" => \A i \in DOMAIN journal : journal[i] # s.tok
      BY <1>3 DEF RunLate, Inv, TypeOK, Scripts, AcquisitionsFresh
    <2> QED BY <2>1, ScriptRefines
  <1>4. CASE Tick
    <2>1. CASE left = 1
      <3>1. Terms!End
        BY <1>4, <2>1, TokenAssumption
        DEF Tick, Less, Inv, LeaseHasHolder, Terms!End
      <3> QED BY <3>1 DEF Terms!Next
    <2>2. CASE left # 1
      <3>1. (left > 0) <=> (left' > 0)
        BY <1>4, <2>2, TimeAssumption DEF Tick, Less, Inv, TypeOK
      <3> QED BY <1>4, <3>1 DEF Tick, Terms!vars
    <2> QED BY <2>1, <2>2
  <1>5. CASE UNCHANGED vars BY <1>5 DEF vars, Terms!vars
  <1> QED BY <1>1, <1>2, <1>3, <1>4, <1>5, LocalStepsStutter
          DEF Next, RedisStep

\* The lease protocol, with all its delays and crashes, implements the
\* sequence of exclusive terms.
THEOREM LeaseImplementsTerms == Spec => TermsSpec
  <1>1. Init => Terms!Init BY DEF Init, Terms!Init
  <1> QED BY <1>1, LeaseInv, NextRefines, PTL DEF Spec, TermsSpec, Terms!Spec

-----------------------------------------------------------------------------
(* What a sequence of exclusive terms promises.                            *)

\* What Terms!TermsContiguous needs to be inductive: the writes of the open term
\* are the tail of the journal.
OpenTerm == IF left > 0 THEN holder ELSE NoToken
OpenTermIsTail ==
    \A i, j \in DOMAIN journal :
        i < j /\ OpenTerm # NoToken /\ journal[i] = OpenTerm => journal[j] = OpenTerm

TermsInv == Terms!TypeOK /\ OpenTermIsTail /\ Terms!TermsContiguous

\* One step of the abstract terms preserves the invariant.
LEMMA TermsStep == TermsInv /\ [Terms!Next]_(Terms!vars) => TermsInv'
  <1> SUFFICES ASSUME TermsInv, [Terms!Next]_(Terms!vars) PROVE TermsInv'
    OBVIOUS
  <1>0. PICK t, u : t = OpenTerm /\ u = OpenTerm' OBVIOUS
  <1>1. t \in Tokens \cup {NoToken} /\ journal \in Seq(Tokens)
    BY <1>0 DEF TermsInv, Terms!TypeOK, OpenTerm
  <1>2. ASSUME NEW v \in Tokens, Terms!Begin(v) PROVE TermsInv'
    <2>1. t = NoToken /\ v \notin {journal[i] : i \in DOMAIN journal} /\ u = v
          /\ journal' = journal
      BY <1>0, <1>2 DEF Terms!Begin, Terms!Written, OpenTerm
    <2>2. Terms!TypeOK' BY <1>0, <1>1, <2>1 DEF Terms!TypeOK, OpenTerm
    <2>3. OpenTermIsTail' BY <1>0, <2>1 DEF OpenTermIsTail
    <2>4. Terms!TermsContiguous' BY <2>1 DEF TermsInv, Terms!TermsContiguous
    <2> QED BY <2>2, <2>3, <2>4 DEF TermsInv
  <1>3. CASE Terms!End
    <2>1. u = NoToken /\ journal' = journal BY <1>0, <1>3 DEF Terms!End, OpenTerm
    <2>2. Terms!TypeOK' BY <1>0, <1>1, <2>1 DEF Terms!TypeOK, OpenTerm
    <2>3. OpenTermIsTail' BY <1>0, <2>1 DEF OpenTermIsTail
    <2>4. Terms!TermsContiguous' BY <2>1 DEF TermsInv, Terms!TermsContiguous
    <2> QED BY <2>2, <2>3, <2>4 DEF TermsInv
  <1>4. CASE Terms!Write
    <2>1. t # NoToken /\ journal' = Append(journal, t) /\ u = t
      BY <1>0, <1>4 DEF Terms!Write, OpenTerm
    <2>2. t \in Tokens BY <1>1, <2>1
    <2>3. /\ journal' \in Seq(Tokens) /\ Len(journal') = Len(journal) + 1
          /\ \A i \in DOMAIN journal : journal'[i] = journal[i]
          /\ journal'[Len(journal) + 1] = t
      BY <1>1, <2>1, <2>2
    <2>4. \A i, j \in DOMAIN journal : i < j /\ journal[i] = t => journal[j] = t
      BY <1>0, <2>1 DEF TermsInv, OpenTermIsTail
    <2>5. Terms!TypeOK' BY <1>0, <1>1, <2>1, <2>3 DEF Terms!TypeOK, OpenTerm
    <2>6. OpenTermIsTail' BY <1>0, <1>1, <2>1, <2>3, <2>4 DEF OpenTermIsTail
    <2>7. Terms!TermsContiguous'
      BY <1>1, <2>3, <2>4 DEF TermsInv, Terms!TermsContiguous
    <2> QED BY <2>5, <2>6, <2>7 DEF TermsInv
  <1>5. CASE UNCHANGED Terms!vars
    <2>1. u = t /\ journal' = journal BY <1>0, <1>5 DEF Terms!vars, OpenTerm
    <2>2. Terms!TypeOK' BY <1>0, <1>1, <2>1 DEF Terms!TypeOK, OpenTerm
    <2>3. OpenTermIsTail' BY <1>0, <2>1 DEF TermsInv, OpenTermIsTail
    <2>4. Terms!TermsContiguous' BY <2>1 DEF TermsInv, Terms!TermsContiguous
    <2> QED BY <2>2, <2>3, <2>4 DEF TermsInv
  <1> QED BY <1>2, <1>3, <1>4, <1>5 DEF Terms!Next

\* Between two fenced writes of one acquisition no other acquisition writes:
\* a consequence of the abstract terms alone.
THEOREM TermsAreContiguous == TermsSpec => []TermsContiguous
  <1>1. Terms!Init => TermsInv
    BY DEF Terms!Init, TermsInv, Terms!TypeOK, OpenTermIsTail, OpenTerm, Terms!TermsContiguous
  <1>2. TermsInv => TermsContiguous BY DEF TermsInv, TermsContiguous
  <1> QED BY <1>1, <1>2, TermsStep, PTL DEF TermsSpec, Terms!Spec

\* No acquisition writes after another one has: late writes of a superseded
\* executor are refused for ever.
THEOREM LeaseTermsContiguous == Spec => []TermsContiguous
  BY LeaseImplementsTerms, TermsAreContiguous, PTL

====
