--------------------------- MODULE ExclusionLease ---------------------------
(***************************************************************************)
(* A hosted service that one node at a time may run, its supervisor and     *)
(* its exclusion lease (hosted_services/supervisor.rs, lease.rs,            *)
(* valkey_kv.rs, dynamo_kv.rs, and LeaseHandle in service-api).             *)
(*                                                                         *)
(* Time is a global tick; every clock below is relative to it.  The epochs  *)
(* of the terms are the subject of FencedFold.                              *)
(***************************************************************************)
EXTENDS Integers, FiniteSets

CONSTANTS Nodes,
          TTL, OpTimeout,
          OpMax,         \* bound: the longest an operation takes
          BuildMax,      \* bound: the longest HostedServiceFactory::build takes
          Renew,         \* TTL / RENEW_DIVISOR
          Skew,          \* SKEW_ALLOWANCE
          MaxFails,      \* FailurePolicy::Restart { max_consecutive }
          Settings       \* the store (DynamoDB or Valkey), the nodes and their ranks,
                         \* the offsets a wall clock may drift to, and the bounds on
                         \* operations and services that fail and nodes that die

ASSUME LeaseAssumption ==
  /\ OpTimeout < TTL /\ OpMax <= Renew /\ Renew < TTL /\ Skew >= 0
  /\ {TTL, OpTimeout, OpMax, BuildMax, Renew, MaxFails} \subseteq Nat
  /\ Settings \subseteq [dynamo : BOOLEAN, nodes : SUBSET Nodes, rank : [Nodes -> Nat],
                         drifts : SUBSET Int, errors : Nat, deaths : Nat]

VARIABLES
  lease,   \* the stored lease: its holder and the time its expiry is away
  node,    \* node -> its supervisor, renewer and service
  off,     \* node -> how far its wall clock leads
  lost,    \* node -> how long its service has run on without the lease
  count,   \* bounds used
  setting  \* which store, ranks, drifts and bounds

service == <<lease, node, off, lost, count>>
vars == <<service, setting>>

NoOne == "none"
Dynamo == setting.dynamo
Rank == setting.rank    \* lower ranks are preferred
Free == [holder |-> NoOne, left |-> 0]
Least(a, b) == IF a < b THEN a ELSE b
(* The lease is looked at once a round; without an answer, a term may pass. *)
Round == Renew + OpMax
Unheard == TTL - OpTimeout + Round

(* at: where the supervisor is; op, ans: the operation under way and what the
   store did; age: since the last confirmed renewal; tick: until the next one;
   out: how the service ended; halt: the host is shutting down. *)
Resting == [at |-> "idle", op |-> 0, ans |-> "none", age |-> 0, tick |-> 0,
            cancelled |-> FALSE, out |-> "none", fails |-> 0, halt |-> FALSE]

Init ==
  /\ lease = Free /\ node = [n \in Nodes |-> Resting]
  /\ off = [n \in Nodes |-> 0] /\ lost = [n \in Nodes |-> 0]
  /\ count = [errors |-> 0, deaths |-> 0] /\ setting \in Settings

Goes(n, r) == node' = [node EXCEPT ![n] = r]
At(n, at) == [node[n] EXCEPT !.at = at, !.op = 0, !.ans = "none"]
Error == count.errors < setting.errors /\ count' = [count EXCEPT !.errors = @ + 1]
Serving(n) == node[n].at \in {"run", "renew"} /\ node[n].out = "none"
Runs(n) == Serving(n) /\ ~node[n].cancelled
-----------------------------------------------------------------------------
(***************************************************************************)
(* The store.                                                              *)
(***************************************************************************)
(* An expired lease: Valkey drops the key; DynamoDB keeps it and compares its
   expiry with the clock the contender read lag ticks before. *)
Stale(n, lag) ==
  IF Dynamo THEN lease.left < off[n] - lag - Skew ELSE lease.left <= 0

MayTake_NoRank(n, lag) == lease.holder = NoOne \/ Stale(n, lag)

(* try_acquire_lease: free, expired, or held by a strictly less preferred node. *)
MayTake(n, lag) ==
  lease.holder = NoOne \/ Stale(n, lag) \/ Rank[n] < Rank[lease.holder]

(* check_clock_offset: a node takes a global lease only if its clock measures
   within half the allowance of a Date header that hides up to a second. *)
ClockTrusted(n) == Dynamo => off[n] \in -(Skew \div 2) - 1..(Skew \div 2)

Term(n, lag) == [holder |-> n, left |-> IF Dynamo THEN TTL + off[n] - lag ELSE TTL]

(* extend_if_equal: DynamoDB extends a term nobody took even if it is over. *)
Holds(n) == lease.holder = n /\ (Dynamo \/ lease.left > 0)

(* delete_if_equal: only the exact term, never a successor's. *)
DeleteIfEqual(n) == lease' = IF Holds(n) THEN Free ELSE lease

(* The store executes an operation; its answer is still to come.  A node's
   clock is read when the operation is sent. *)
Execute(n) ==
  /\ node[n].ans = "none"
  /\ \/ /\ node[n].at = "acquire" /\ ClockTrusted(n)
        /\ \E lag \in 0..node[n].op :
             LET take == MayTake(n, lag) IN
             /\ lease' = IF take THEN Term(n, lag) ELSE lease
             /\ Goes(n, [node[n] EXCEPT !.ans = IF take THEN "yes" ELSE "no"])
     \/ /\ node[n].at = "renew"
        /\ \E lag \in 0..node[n].op :
             lease' = IF Holds(n) THEN Term(n, lag) ELSE lease
        /\ Goes(n, [node[n] EXCEPT !.ans = IF Holds(n) THEN "yes" ELSE "no"])
     \/ /\ node[n].at = "release"
        /\ DeleteIfEqual(n)
        /\ Goes(n, [node[n] EXCEPT !.ans = "yes"])
  /\ UNCHANGED <<off, lost, count>>
-----------------------------------------------------------------------------
(***************************************************************************)
(* The supervisor (supervise, run_once).                                   *)
(***************************************************************************)
(* The next turn of the loop, unless the host stops or the service failed too
   often.  Only a lost lease starts the count again. *)
Ends(n, out) ==
  LET fails == CASE out \in {"failed", "completed"} -> node[n].fails + 1
                 [] out = "lost" -> 0
                 [] OTHER -> node[n].fails
      at == IF node[n].halt THEN "dead"
            ELSE IF out = "failed" /\ fails >= MaxFails THEN "off" ELSE "wait"
  IN Goes(n, [Resting EXCEPT !.at = at, !.fails = fails])

Attempt(n) ==
  /\ node[n].at = "idle" /\ n \in setting.nodes /\ Goes(n, At(n, "acquire"))
  /\ UNCHANGED <<lease, off, lost, count>>

(* try_acquire answers, or fails whatever it did at the store. *)
Acquired(n) ==
  /\ node[n].at = "acquire" /\ node[n].ans # "none"
  /\ IF node[n].ans = "yes"
     THEN /\ Goes(n, [At(n, "build") EXCEPT !.age = 0])
          /\ lost' = [lost EXCEPT ![n] = 0]
     ELSE Ends(n, "unavailable") /\ UNCHANGED lost
  /\ UNCHANGED <<lease, off, count>>

AcquireFails(n) ==
  /\ node[n].at = "acquire"
  /\ IF ClockTrusted(n) THEN Error ELSE UNCHANGED count
  /\ Ends(n, "failed")
  /\ UNCHANGED <<lease, off, lost>>

Build(n) ==
  /\ node[n].at = "build"
  /\ \/ /\ Goes(n, [At(n, "run") EXCEPT !.tick = 0, !.cancelled = node[n].halt])
        /\ UNCHANGED count
     \/ Goes(n, [At(n, "release") EXCEPT !.out = "failed"]) /\ Error
  /\ UNCHANGED <<lease, off, lost>>

(* The service returns: on its own, or because it was cancelled. *)
ServiceReturns(n) ==
  /\ Serving(n)
  /\ \/ node[n].cancelled /\ Goes(n, [node[n] EXCEPT !.out = "stopped"]) /\ UNCHANGED count
     \/ /\ \E out \in {"failed", "completed"} : Goes(n, [node[n] EXCEPT !.out = out])
        /\ Error
  /\ UNCHANGED <<lease, off, lost>>

(* The renewer is joined and the lease released. *)
StopRenewer(n) ==
  /\ node[n].at = "run" /\ node[n].out # "none"
  /\ Goes(n, [At(n, "release") EXCEPT
                !.out = IF node[n].cancelled THEN "lost" ELSE node[n].out])
  /\ UNCHANGED <<lease, off, lost, count>>

Released(n) ==
  /\ node[n].at = "release"
  /\ \/ node[n].ans = "yes" /\ UNCHANGED count
     \/ Error
  /\ Ends(n, node[n].out)
  /\ UNCHANGED <<lease, off, lost>>

(* ACQUIRE_RETRY, or the backoff after a failure. *)
Retry(n) ==
  /\ node[n].at = "wait" /\ Goes(n, At(n, "idle"))
  /\ UNCHANGED <<lease, off, lost, count>>
-----------------------------------------------------------------------------
(***************************************************************************)
(* The renewer (run_with_lease).                                           *)
(***************************************************************************)
BeginRenew(n) ==
  /\ node[n].at = "run" /\ node[n].tick = 0 /\ Runs(n)
  /\ Goes(n, [At(n, "renew") EXCEPT !.tick = Renew])
  /\ UNCHANGED <<lease, off, lost, count>>

HeldFor_Ever(age) == TRUE

(* LeaseHandle::is_held_for, measured from the last confirmed renewal. *)
HeldFor(age) == age + OpTimeout < TTL

(* After every answer, and every failure, the lease must be provably held. *)
Renewed(n) ==
  LET age == IF node[n].ans = "yes" THEN 0 ELSE node[n].age
      held == node[n].ans = "yes" /\ HeldFor(age) IN
  /\ node[n].at = "renew" /\ node[n].ans # "none"
  /\ Goes(n, [At(n, "run") EXCEPT !.age = age, !.cancelled = @ \/ ~held])
  /\ UNCHANGED <<lease, off, lost, count>>

RenewFails(n) ==
  /\ node[n].at = "renew" /\ Error
  /\ Goes(n, [At(n, "run") EXCEPT !.cancelled = @ \/ ~HeldFor(node[n].age)])
  /\ UNCHANGED <<lease, off, lost>>
-----------------------------------------------------------------------------
(***************************************************************************)
(* The host and time.                                                      *)
(***************************************************************************)
Dies == count.deaths < setting.deaths /\ count' = [count EXCEPT !.deaths = @ + 1]

Crash(n) ==
  /\ node[n].at \notin {"dead", "off"} /\ Dies
  /\ Goes(n, [Resting EXCEPT !.at = "dead"])
  /\ UNCHANGED <<lease, off, lost>>

(* The host cancels the supervisor; a service is cancelled with it. *)
Shutdown(n) ==
  /\ node[n].at \notin {"dead", "off"} /\ ~node[n].halt /\ Dies
  /\ Goes(n, IF node[n].at \in {"idle", "wait"} THEN [Resting EXCEPT !.at = "dead"]
             ELSE [node[n] EXCEPT !.halt = TRUE, !.cancelled = TRUE])
  /\ UNCHANGED <<lease, off, lost>>

Drift(n) ==
  /\ \E d \in setting.drifts \ {off[n]} : off' = [off EXCEPT ![n] = d]
  /\ UNCHANGED <<lease, node, lost, count>>

(* Operations end within OpMax, builds within BuildMax, and a renewal starts
   when it is due. *)
Tick ==
  /\ \A n \in Nodes : /\ node[n].at \in {"acquire", "renew", "release"} => node[n].op < OpMax
                      /\ node[n].at = "build" => node[n].op < BuildMax
                      /\ (node[n].at = "run" /\ Runs(n)) => node[n].tick > 0
  /\ node' = [n \in Nodes |->
       IF node[n].at \in {"idle", "wait", "off", "dead"} THEN node[n]
       ELSE [node[n] EXCEPT
               !.op = IF node[n].at = "run" THEN 0 ELSE @ + 1,
               !.age = Least(@ + 1, TTL),
               !.tick = IF @ > 0 THEN @ - 1 ELSE 0]]
  /\ lease' = IF lease.holder = NoOne \/ (~Dynamo /\ lease.left <= 1) THEN Free
              ELSE [lease EXCEPT !.left = IF @ > -2 * Skew THEN @ - 1 ELSE @]
  /\ lost' = [n \in Nodes |-> IF Runs(n) /\ ~Holds(n) THEN Least(lost[n] + 1, Unheard + 1) ELSE 0]
  /\ UNCHANGED <<off, count>>
-----------------------------------------------------------------------------
Step(n) ==
  \/ Attempt(n) \/ Execute(n) \/ Acquired(n) \/ Build(n) \/ StopRenewer(n)
  \/ Released(n) \/ Retry(n) \/ BeginRenew(n) \/ Renewed(n)
  \/ node[n].cancelled /\ ServiceReturns(n)
  \/ ~ClockTrusted(n) /\ AcquireFails(n)

Change ==
  \/ Tick
  \/ \E n \in Nodes : \/ Step(n) \/ ServiceReturns(n) \/ AcquireFails(n) \/ RenewFails(n)
                      \/ Crash(n) \/ Shutdown(n) \/ Drift(n)

Next == Change /\ UNCHANGED setting

Spec == Init /\ [][Next]_vars

(* Tokio runs every task that is ready, and time passes. *)
FairSpec == Spec /\ WF_service(Tick) /\ \A n \in Nodes : WF_service(Step(n))
-----------------------------------------------------------------------------
(***************************************************************************)
(* Properties.                                                             *)
(***************************************************************************)
TypeOK ==
  /\ lease.holder \in Nodes \cup {NoOne} /\ lease.left \in Int
  /\ \A n \in Nodes :
       /\ node[n].at \in {"idle", "acquire", "build", "run", "renew", "release", "wait",
                          "off", "dead"}
       /\ node[n].out = "none" \/ node[n].at \in {"run", "renew", "release"}
       /\ node[n].at \in {"run", "build"} => node[n].ans = "none"
       /\ node[n].fails <= MaxFails + setting.errors /\ lost[n] <= Unheard + 1

(* A lease is not taken from a node that renewed it less than a term ago,
   except by a strictly preferred node: no stale release, no equal contender
   and no clock within the allowance ends a live term. *)
LiveHolderKept ==
  [][\A n \in Nodes :
       (lease.holder = n /\ Runs(n) /\ node[n].age + OpMax + 1 < TTL)
         => lease'.holder = n \/ (\E m \in Nodes : Rank[m] < Rank[n] /\ lease'.holder = m)
            \/ ~Runs(n)']_vars

(* A service whose lease expired, or was taken by a preferred node, is told to
   stop within one renewal round: "before the lease could expire" is a goal that
   a check made only once a round misses by up to that round.  One that was
   preempted and hears of it only in an answer that is lost runs on until its
   own term would be over, too. *)
Preemptible(n) == \E m \in setting.nodes : Rank[m] < Rank[n]
OverrunBounded ==
  ~Dynamo => \A n \in Nodes :
               \/ lost[n] <= Round
               \/ Preemptible(n) /\ count.errors > 0 /\ lost[n] <= Unheard

(* The two promises of an exclusion lease to the service that runs under it: its
   live term is not taken from it, and it does not run on for long without one. *)
ExclusionSound == [](TypeOK /\ OverrunBounded) /\ LiveHolderKept

(* After the last failure the most preferred node alive leads a regional
   service, and goes on leading: none is left without a leader, and no two nodes
   take the lease from each other for ever. *)
LeaderSettles ==
  LET alive == {n \in setting.nodes : node[n].at \notin {"dead", "off"} /\ ~node[n].halt} IN
  <>[](Dynamo \/ alive = {} \/ \E n \in alive : Runs(n) /\ Holds(n) /\ \A m \in alive : Rank[n] <= Rank[m])
=============================================================================
