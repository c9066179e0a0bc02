---- MODULE SessionOutcomes ----
(***************************************************************************)
(* SessionCommandOutcomes of server/src/recovery.rs: what one client       *)
(* command session remembers about the sequences it has resolved.  Exact   *)
(* outcomes are kept for at most MaxResults sequences; older ones survive  *)
(* only as a contiguous watermark, and an exhausted sparse window leaves a *)
(* rejection fence.                                                        *)
(***************************************************************************)
EXTENDS Integers, FiniteSets, FiniteSetsExt, Functions

CONSTANTS MaxResults,    \* max_recorded_outcomes_per_session
          MaxSequence    \* bound: client sequences of a session

ASSUME MaxResultsAssumption == MaxResults \in Nat \ {0}
ASSUME SequenceAssumption == MaxSequence \in Nat \ {0}

\* A session: contiguous_through, outcomes (sequence -> outcome) and the first
\* sequence of the rejection fence (0: no fence; all fences share one reason).
NewSession == [through |-> 0, outs |-> [n \in {} |-> n], fence |-> 0]

Recorded(s, n) == n \in DOMAIN s.outs
Covers(s, n) == s.fence > 0 /\ n >= s.fence

IsTerminallyResolved_NoWatermark(s, n) ==
    n > 0 /\ (Recorded(s, n) \/ Covers(s, n))
IsTerminallyResolved(s, n) ==
    n > 0 /\ (n <= s.through \/ Recorded(s, n) \/ Covers(s, n))

\* rejection_fence_for: the fence answers only what nothing else answers.
RejectionFenceFor(s, n) ==
    n > s.through /\ ~Recorded(s, n) /\ Covers(s, n)

Sparse(s) == {n \in DOMAIN s.outs : n > s.through}

SparseWindowIsFull(s, n) ==
    /\ ~Recorded(s, n)
    /\ ~RejectionFenceFor(s, n)
    /\ n # s.through + 1
    /\ Cardinality(Sparse(s)) >= MaxResults

\* install_rejection_fence: the fence only ever moves down.
InstallRejectionFence(s, n) ==
    [s EXCEPT !.fence = IF s.fence = 0 THEN n ELSE Min({s.fence, n})]

CanRecord(s, n) ==
    Recorded(s, n) \/ (~Covers(s, n) /\ ~SparseWindowIsFull(s, n))

\* The watermark after the recorded sequences became dom: it runs on to the
\* last sequence with no gap below it.
Advance(through, dom) ==
    Max({through} \cup {n \in dom : ((through + 1) .. n) \subseteq dom})

\* The retention pass keeps the MaxResults highest sequences.
Retained(dom) ==
    {n \in dom : Cardinality({m \in dom : m > n}) < MaxResults}

\* record bails when it would have to prune an outcome above the watermark.
RecordBails(s, n) ==
    LET dom == DOMAIN s.outs \cup {n}
    IN  ~Recorded(s, n) /\ \E m \in dom \ Retained(dom) : m > Advance(s.through, dom)

\* record, for a sequence that CanRecord accepts.
Record(s, n, o) ==
    LET dom == DOMAIN s.outs \cup {n}
    IN  IF Recorded(s, n) THEN s
        ELSE [s EXCEPT !.through = Advance(s.through, dom),
                       !.outs = [m \in Retained(dom) |->
                                    IF m = n THEN o ELSE s.outs[m]]]

====
