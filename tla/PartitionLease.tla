---- MODULE PartitionLease ----
(***************************************************************************)
(* The lease of one executor partition, as the executors, their watchdogs  *)
(* and Redis run it (server/src/partition_lease.rs and the authority part  *)
(* of server/src/game_executor_v2.rs).                                     *)
(*                                                                         *)
(* Every lease operation is a Lua script that Redis runs atomically, but   *)
(* the caller waits for it only `operation_timeout': a script whose caller *)
(* gave up, was cancelled or died is still applied, whenever the network   *)
(* delivers it.  Time is discrete and kept as remaining or elapsed units.  *)
(***************************************************************************)
EXTENDS Integers, Sequences, FiniteSets

CONSTANTS Boots,        \* boot identities (one per server process start)
          Tokens,       \* acquisition tokens, fresh uuids
          NoToken,      \* absent lease key / no guard
          TTL,          \* lease PX, in time units
          OpTimeout,    \* DEFAULT_COORDINATION_OPERATION_TIMEOUT
          MaxLag,       \* how late a ready future or a fired timer is polled
          MaxWrites,    \* bound on the fenced writes
          MaxLate       \* bound on the scripts in flight that nobody awaits

ASSUME TokenAssumption == NoToken \notin Tokens
ASSUME TimeAssumption == /\ TTL \in Nat
                         /\ OpTimeout \in Nat
                         /\ MaxLag \in Nat
                         /\ OpTimeout > 0
                         /\ OpTimeout < TTL
ASSUME BoundAssumption == MaxWrites \in Nat /\ MaxLate \in Nat

VARIABLES
    owner,     \* the boot the partition's assignment view names
    holder,    \* token stored in the lease key
    left,      \* remaining PX of the lease key; 0: the key does not exist
    exec,      \* boot -> phase of its executor task for the partition
    guard,     \* boot -> token of its PartitionLeaseGuard
    ecall,     \* boot -> lease operation the executor side awaits
    dog,       \* boot -> "off", "armed", "bridging" or "done"
    dcall,     \* boot -> lease operation the watchdog awaits
    event,     \* boot -> LeaseWatchdogEvent waiting in the channel
    budget,    \* boot -> time until LeaseWatchdogBudget.fail_closed_at
    late,      \* scripts in flight that nobody awaits any more
    journal    \* tokens of the fenced writes Redis committed, in order

redis == <<owner, holder, left, journal>>
vars == <<owner, holder, left, exec, guard, ecall, dog, dcall, event, budget,
          late, journal>>

LeaseOps == {"acquire", "renew", "renew_for_handoff", "release"}
Phases == {"idle", "acquiring", "bootstrap", "live", "barrier", "releasing"}
Running == {"bootstrap", "live", "barrier"}

NoCall == [op |-> "none", age |-> 0, reply |-> "pending"]
NewCall(op) == [op |-> op, age |-> 0, reply |-> "pending"]
Calls == [op : LeaseOps \cup {"none"}, age : 0 .. (OpTimeout + MaxLag),
          reply : {"pending", "yes", "no"}]
Scripts == [op : LeaseOps \cup {"write"}, boot : Boots, tok : Tokens]

TypeOK ==
    /\ owner \in Boots
    /\ holder \in Tokens \cup {NoToken}
    /\ left \in 0 .. TTL
    /\ exec \in [Boots -> Phases]
    /\ guard \in [Boots -> Tokens \cup {NoToken}]
    /\ ecall \in [Boots -> Calls]
    /\ dog \in [Boots -> {"off", "armed", "bridging", "done"}]
    /\ dcall \in [Boots -> Calls]
    /\ event \in [Boots -> {"none", "moved", "lost", "failed"}]
    /\ budget \in [Boots -> 0 .. TTL]
    /\ late \subseteq Scripts
    /\ journal \in Seq(Tokens)

Init ==
    /\ owner \in Boots
    /\ holder = NoToken
    /\ left = 0
    /\ exec = [b \in Boots |-> "idle"]
    /\ guard = [b \in Boots |-> NoToken]
    /\ ecall = [b \in Boots |-> NoCall]
    /\ dog = [b \in Boots |-> "off"]
    /\ dcall = [b \in Boots |-> NoCall]
    /\ event = [b \in Boots |-> "none"]
    /\ budget = [b \in Boots |-> 0]
    /\ late = {}
    /\ journal = <<>>

-----------------------------------------------------------------------------
(* Redis.                                                                  *)

Held(t) == left > 0 /\ holder = t

\* Plausible bugs of the scripts, for the mutation runs: a fenced mutation that
\* only looks for a lease key, an acquisition that does not look for one.
Granted_AnyToken(op, b, t) ==
    /\ op \in {"acquire", "renew"} => owner = b
    /\ IF op = "acquire" THEN left = 0 ELSE left > 0
Granted_NoExists(op, b, t) ==
    /\ op \in {"acquire", "renew"} => owner = b
    /\ IF op = "acquire" THEN TRUE ELSE Held(t)

\* The condition each script tests before it does anything.
Granted(op, b, t) ==
    /\ op \in {"acquire", "renew"} => owner = b
    /\ IF op = "acquire" THEN left = 0 ELSE Held(t)

\* The whole script, run by Redis at one instant.
RunScript(op, b, t) ==
    /\ holder' = IF Granted(op, b, t) /\ op = "acquire" THEN t ELSE holder
    /\ left' = IF ~Granted(op, b, t) \/ op = "write" THEN left
               ELSE IF op = "release" THEN 0 ELSE TTL
    /\ journal' = IF Granted(op, b, t) /\ op = "write"
                  THEN Append(journal, t) ELSE journal
    /\ UNCHANGED owner

Reply(op, b, t) == IF Granted(op, b, t) THEN "yes" ELSE "no"

\* Redis runs an operation its executor still awaits.
RunExecCall(b) ==
    /\ ecall[b].op \in LeaseOps
    /\ ecall[b].reply = "pending"
    /\ RunScript(ecall[b].op, b, guard[b])
    /\ ecall' = [ecall EXCEPT ![b].reply = Reply(ecall[b].op, b, guard[b])]
    /\ UNCHANGED <<exec, guard, dog, dcall, event, budget, late>>

\* Redis runs an operation a watchdog still awaits.
RunDogCall(b) ==
    /\ dcall[b].op \in LeaseOps
    /\ dcall[b].reply = "pending"
    /\ RunScript(dcall[b].op, b, guard[b])
    /\ dcall' = [dcall EXCEPT ![b].reply = Reply(dcall[b].op, b, guard[b])]
    /\ UNCHANGED <<exec, guard, ecall, dog, event, budget, late>>

\* Redis runs a script nobody awaits any more.
RunLate(s) ==
    /\ s \in late
    /\ late' = late \ {s}
    /\ RunScript(s.op, s.boot, s.tok)
    /\ UNCHANGED <<exec, guard, ecall, dog, dcall, event, budget>>

\* The coordinator projects another desired owner into the partition view.
Reassign(b) ==
    /\ owner # b
    /\ owner' = b
    /\ UNCHANGED <<holder, left, exec, guard, ecall, dog, dcall, event, budget,
                   late, journal>>

-----------------------------------------------------------------------------
(* Executor and watchdog of one boot.                                      *)

\* LeaseWatchdogBudget.fail_closed_at, counted from the receipt of the response
\* that confirmed the lease; and the same without the operation's own timeout.
FailClosedAfter_FullTTL == TTL
FailClosedAfter == TTL - OpTimeout

\* The script of an abandoned call stays in flight unless it was applied.
Leftover(b, c) ==
    IF c.op \in LeaseOps /\ c.reply = "pending"
    THEN {[op |-> c.op, boot |-> b, tok |-> guard[b]]} ELSE {}

\* watchdog_stop.cancel(): a bridge is interrupted at once, a running probe
\* finishes on its own and may still send its second script.
DogLeftover(b) ==
    Leftover(b, dcall[b])
        \cup (IF dcall[b].op = "renew"
              THEN {[op |-> "renew_for_handoff", boot |-> b, tok |-> guard[b]]}
              ELSE {})

StopDog(b) ==
    /\ dog' = [dog EXCEPT ![b] = "off"]
    /\ dcall' = [dcall EXCEPT ![b] = NoCall]
    /\ event' = [event EXCEPT ![b] = "none"]
    /\ budget' = [budget EXCEPT ![b] = 0]

\* Room for one more script whose caller is gone (bound, not code).
LateRoom == Cardinality(late) < MaxLate

InUse == {holder} \cup {guard[b] : b \in Boots} \cup {s.tok : s \in late}
            \cup {journal[i] : i \in DOMAIN journal}

\* try_acquire: a fresh token and one script.  The control loop acts on the
\* document it read, so a boot may try after the view has moved away.
TryAcquire(b) ==
    /\ exec[b] = "idle"
    /\ \E t \in Tokens \ InUse : guard' = [guard EXCEPT ![b] = t]
    /\ exec' = [exec EXCEPT ![b] = "acquiring"]
    /\ ecall' = [ecall EXCEPT ![b] = NewCall("acquire")]
    /\ UNCHANGED <<owner, holder, left, dog, dcall, event, budget, late, journal>>

\* The acquire response arrives: spawn the executor, whose watchdog starts
\* with the receipt time of the response, or drop the unused token.
Acquired(b) ==
    /\ exec[b] = "acquiring"
    /\ ecall[b].reply = "yes"
    /\ exec' = [exec EXCEPT ![b] = "bootstrap"]
    /\ ecall' = [ecall EXCEPT ![b] = NoCall]
    /\ dog' = [dog EXCEPT ![b] = "armed"]
    /\ budget' = [budget EXCEPT ![b] = FailClosedAfter]
    /\ UNCHANGED <<owner, holder, left, guard, dcall, event, late, journal>>

\* The acquire response arrives while the task is draining: release at once.
AcquiredDraining(b) ==
    /\ exec[b] = "acquiring"
    /\ ecall[b].reply = "yes"
    /\ exec' = [exec EXCEPT ![b] = "releasing"]
    /\ ecall' = [ecall EXCEPT ![b] = NewCall("release")]
    /\ UNCHANGED <<owner, holder, left, guard, dog, dcall, event, budget, late,
                   journal>>

\* The executor task ends; its awaited operations stay in flight.
End(b) ==
    /\ exec' = [exec EXCEPT ![b] = "idle"]
    /\ guard' = [guard EXCEPT ![b] = NoToken]
    /\ ecall' = [ecall EXCEPT ![b] = NoCall]
    /\ StopDog(b)
    /\ late' = late \cup Leftover(b, ecall[b]) \cup DogLeftover(b)
    /\ UNCHANGED redis

\* A refused acquisition, or the answer to a release: the task is over.
Finished(b) ==
    /\ \/ exec[b] = "acquiring" /\ ecall[b].reply = "no"
       \/ exec[b] = "releasing" /\ ecall[b].reply \in {"yes", "no"}
    /\ End(b)

\* operation_timeout of the executor's own call, whether or not Redis applied
\* it: acquisition and release give
\* up, a keepalive that errs fails the cooperative handoff.
CallTimeout(b) ==
    /\ LateRoom
    /\ ecall[b].op \in LeaseOps
    /\ ecall[b].age >= OpTimeout
    /\ End(b)

\* Bootstrap recovered every game of the partition and activated it.
BootstrapDone(b) ==
    /\ exec[b] = "bootstrap"
    /\ exec' = [exec EXCEPT ![b] = "live"]
    /\ UNCHANGED <<owner, holder, left, guard, ecall, dog, dcall, event, budget,
                   late, journal>>

\* AssignmentMoved, or the Handoff control message of a drain, is received in
\* bootstrap: cancel and compare-delete.
ReleaseBootstrapAuthority(b) ==
    /\ exec[b] = "bootstrap"
    /\ event[b] \in {"none", "moved"}
    /\ dcall[b] # NoCall => LateRoom
    /\ exec' = [exec EXCEPT ![b] = "releasing"]
    /\ ecall' = [ecall EXCEPT ![b] = NewCall("release")]
    /\ StopDog(b)
    /\ late' = late \cup DogLeftover(b)
    /\ UNCHANGED <<owner, holder, left, guard, journal>>

\* The same in the main loop: cooperative_handoff takes over the renewal.
StartHandoff(b) ==
    /\ exec[b] = "live"
    /\ event[b] \in {"none", "moved"}
    /\ dcall[b] # NoCall => LateRoom
    /\ exec' = [exec EXCEPT ![b] = "barrier"]
    /\ StopDog(b)
    /\ late' = late \cup DogLeftover(b)
    /\ UNCHANGED <<owner, holder, left, guard, ecall, journal>>

\* Keepalive tick of cooperative_handoff.
SendKeepalive(b) ==
    /\ exec[b] = "barrier"
    /\ ecall[b] = NoCall
    /\ ecall' = [ecall EXCEPT ![b] = NewCall("renew_for_handoff")]
    /\ UNCHANGED <<owner, holder, left, exec, guard, dog, dcall, event, budget,
                   late, journal>>

KeepaliveReply(b) ==
    /\ exec[b] = "barrier"
    /\ \/ /\ ecall[b].reply = "yes"
          /\ ecall' = [ecall EXCEPT ![b] = NoCall]
          /\ UNCHANGED <<owner, holder, left, exec, guard, dog, dcall, event,
                         budget, late, journal>>
       \/ ecall[b].reply = "no" /\ End(b)

\* Every actor answered its barrier and the keepalive has stopped.
BarrierDone(b) ==
    /\ exec[b] = "barrier"
    /\ ecall[b] = NoCall
    /\ exec' = [exec EXCEPT ![b] = "releasing"]
    /\ ecall' = [ecall EXCEPT ![b] = NewCall("release")]
    /\ UNCHANGED <<owner, holder, left, guard, dog, dcall, event, budget, late,
                   journal>>

\* Lost or expired authority reported by the watchdog ends the executor.
AuthorityEnd(b) ==
    /\ exec[b] \in {"bootstrap", "live"}
    /\ event[b] \in {"lost", "failed"}
    /\ End(b)

\* A crash of the process, cancellation, an actor failure or a barrier that
\* exceeds its deadline: the task is gone, its scripts are not.
Crash(b) ==
    /\ exec[b] # "idle"
    /\ LateRoom
    /\ End(b)

\* A game actor (or a completion or trim worker) sends a fenced mutation.
SendWrite(b) ==
    /\ exec[b] \in Running
    /\ LateRoom
    /\ Len(journal) + Cardinality({s \in late : s.op = "write"}) < MaxWrites
    /\ late' = late \cup {[op |-> "write", boot |-> b, tok |-> guard[b]]}
    /\ UNCHANGED <<owner, holder, left, exec, guard, ecall, dog, dcall, event,
                   budget, journal>>

-----------------------------------------------------------------------------
(* The watchdog: spawn_lease_watchdog, probe_partition_lease and           *)
(* bridge_assignment_handoff.                                              *)

SendProbe(b) ==
    /\ dog[b] = "armed"
    /\ dcall[b] = NoCall
    /\ budget[b] > 0
    /\ dcall' = [dcall EXCEPT ![b] = NewCall("renew")]
    /\ UNCHANGED <<owner, holder, left, exec, guard, ecall, dog, event, budget,
                   late, journal>>

\* The renewal was confirmed: a new budget from the receipt of the response.
ProbeConfirmed(b) ==
    /\ dog[b] = "armed"
    /\ dcall[b].op = "renew"
    /\ dcall[b].reply = "yes"
    /\ dcall' = [dcall EXCEPT ![b] = NoCall]
    /\ budget' = [budget EXCEPT ![b] = FailClosedAfter]
    /\ UNCHANGED <<owner, holder, left, exec, guard, ecall, dog, event, late,
                   journal>>

\* Ordinary renewal failed: refresh the exact token once.
ProbeRefused(b) ==
    /\ dog[b] = "armed"
    /\ dcall[b].op = "renew"
    /\ dcall[b].reply = "no"
    /\ dcall' = [dcall EXCEPT ![b] = NewCall("renew_for_handoff")]
    /\ UNCHANGED <<owner, holder, left, exec, guard, ecall, dog, event, budget,
                   late, journal>>

\* The second script tells a moved assignment from a lost token.
ProbeClassified(b) ==
    /\ dog[b] = "armed"
    /\ dcall[b].op = "renew_for_handoff"
    /\ dcall[b].reply # "pending"
    /\ LET moved == dcall[b].reply = "yes"
       IN  /\ dog' = [dog EXCEPT ![b] = IF moved THEN "bridging" ELSE "done"]
           /\ event' = [event EXCEPT ![b] = IF moved THEN "moved" ELSE "lost"]
    /\ dcall' = [dcall EXCEPT ![b] = NoCall]
    /\ budget' = [budget EXCEPT ![b] = 0]
    /\ UNCHANGED <<owner, holder, left, exec, guard, ecall, late, journal>>

\* A script of the probe timed out with budget left: retry at the next tick.
ProbeTimeout(b) ==
    /\ dog[b] = "armed"
    /\ dcall[b].op \in LeaseOps
    /\ dcall[b].age >= OpTimeout
    /\ budget[b] > 0
    /\ LateRoom
    /\ late' = late \cup Leftover(b, dcall[b])
    /\ dcall' = [dcall EXCEPT ![b] = NoCall]
    /\ UNCHANGED <<owner, holder, left, exec, guard, ecall, dog, event, budget,
                   journal>>

\* fail_closed_at is reached, during a probe or between two of them.
FailClosed(b) ==
    /\ dog[b] = "armed"
    /\ budget[b] = 0
    /\ dcall[b] # NoCall => LateRoom
    /\ late' = late \cup Leftover(b, dcall[b])
    /\ dcall' = [dcall EXCEPT ![b] = NoCall]
    /\ dog' = [dog EXCEPT ![b] = "done"]
    /\ event' = [event EXCEPT ![b] = "failed"]
    /\ UNCHANGED <<owner, holder, left, exec, guard, ecall, budget, journal>>

\* bridge_assignment_handoff keeps the exact token alive until the executor
\* takes the event, its own deadline passes, or the token is gone.
BridgeRenew(b) ==
    /\ dog[b] = "bridging"
    /\ dcall[b] = NoCall
    /\ dcall' = [dcall EXCEPT ![b] = NewCall("renew_for_handoff")]
    /\ UNCHANGED <<owner, holder, left, exec, guard, ecall, dog, event, budget,
                   late, journal>>

BridgeReply(b) ==
    /\ dog[b] = "bridging"
    /\ dcall[b] # NoCall
    /\ \/ dcall[b].reply = "yes" /\ UNCHANGED <<dog, late>>
       \/ /\ dcall[b].reply = "no"
          /\ dog' = [dog EXCEPT ![b] = "done"]
          /\ UNCHANGED late
       \/ /\ dcall[b].age >= OpTimeout
          /\ LateRoom
          /\ late' = late \cup Leftover(b, dcall[b])
          /\ UNCHANGED dog
    /\ dcall' = [dcall EXCEPT ![b] = NoCall]
    /\ UNCHANGED <<owner, holder, left, exec, guard, ecall, event, budget,
                   journal>>

BridgeDeadline(b) ==
    /\ dog[b] = "bridging"
    /\ dcall[b] = NoCall
    /\ dog' = [dog EXCEPT ![b] = "done"]
    /\ UNCHANGED <<owner, holder, left, exec, guard, ecall, dcall, event,
                   budget, late, journal>>

-----------------------------------------------------------------------------
(* Time.  A response or a timeout is polled at most MaxLag late.           *)

Aged(c) == IF c.op = "none" THEN c ELSE [c EXCEPT !.age = @ + 1]
MayAge(c) == c.op = "none" \/ c.age < OpTimeout + MaxLag
Less(n) == IF n = 0 THEN 0 ELSE n - 1

Tick ==
    /\ \A b \in Boots : MayAge(ecall[b]) /\ MayAge(dcall[b])
    /\ left' = Less(left)
    /\ budget' = [b \in Boots |-> Less(budget[b])]
    /\ ecall' = [b \in Boots |-> Aged(ecall[b])]
    /\ dcall' = [b \in Boots |-> Aged(dcall[b])]
    /\ UNCHANGED <<owner, holder, exec, guard, dog, event, late, journal>>

ExecStep(b) ==
    \/ TryAcquire(b) \/ Acquired(b) \/ AcquiredDraining(b) \/ Finished(b)
    \/ CallTimeout(b) \/ BootstrapDone(b) \/ ReleaseBootstrapAuthority(b)
    \/ StartHandoff(b) \/ SendKeepalive(b) \/ KeepaliveReply(b)
    \/ BarrierDone(b) \/ AuthorityEnd(b) \/ Crash(b) \/ SendWrite(b)

DogStep(b) ==
    \/ SendProbe(b) \/ ProbeConfirmed(b) \/ ProbeRefused(b)
    \/ ProbeClassified(b) \/ ProbeTimeout(b) \/ FailClosed(b)
    \/ BridgeRenew(b) \/ BridgeReply(b) \/ BridgeDeadline(b)

RedisStep ==
    \/ \E b \in Boots : RunExecCall(b) \/ RunDogCall(b) \/ Reassign(b)
    \/ \E s \in late : RunLate(s)

Next == (\E b \in Boots : ExecStep(b) \/ DogStep(b)) \/ RedisStep \/ Tick

Spec == Init /\ [][Next]_vars

-----------------------------------------------------------------------------
(* Properties.                                                             *)

\* A watchdog that has not failed closed guards a lease that really exists:
\* while more than the polling lag is left before fail_closed_at, Redis holds
\* the executor's own token, however late renewals were applied or answered.
BudgetBacksAuthority ==
    \A b \in Boots : dog[b] = "armed" /\ budget[b] > MaxLag => Held(guard[b])

\* Two executors never both believe they hold the partition.
OneConfidentExecutor ==
    \A a, b \in Boots :
        /\ dog[a] = "armed" /\ budget[a] > MaxLag
        /\ dog[b] = "armed" /\ budget[b] > MaxLag
        => a = b

\* The lease implements the terms of PartitionTerms.
Terms == INSTANCE PartitionTerms
            WITH term <- IF left > 0 THEN holder ELSE NoToken

TermsSpec == Terms!Spec
TermsContiguous == Terms!TermsContiguous

====
