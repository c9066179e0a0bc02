---- MODULE CommandSession ----
(***************************************************************************)
(* One client command session of a live game actor: the order in which     *)
(* incorporate_v2_command (server/src/game_executor_v2.rs) consults the    *)
(* session record, for any arrival order of sequences and resends.         *)
(***************************************************************************)
EXTENDS SessionOutcomes

VARIABLES session,     \* SessionCommandOutcomes
          executed,    \* sequence -> times process_command ran for it
          answer,      \* sequence -> the outcome the client was first told
          changed,     \* a client was told two different outcomes
          bailed       \* record hit its sparse-outcome bail

sessionVars == <<session, executed, answer, changed, bailed>>

Sequences == 1 .. MaxSequence
Outcomes == {"scheduled", "rejected"}

SessionTypeOK ==
    /\ session.through \in 0 .. MaxSequence
    /\ session.fence \in 0 .. MaxSequence
    /\ DOMAIN session.outs \subseteq Sequences
    /\ \A n \in DOMAIN session.outs : session.outs[n] \in Outcomes
    /\ executed \in [Sequences -> Nat]
    /\ answer \in [Sequences -> Outcomes \cup {"none"}]
    /\ changed \in BOOLEAN /\ bailed \in BOOLEAN

SessionInit ==
    /\ session = NewSession
    /\ executed = [n \in Sequences |-> 0]
    /\ answer = [n \in Sequences |-> "none"]
    /\ changed = FALSE
    /\ bailed = FALSE

Tell(n, o) == /\ answer' = [answer EXCEPT ![n] = IF @ = "none" THEN o ELSE @]
              /\ changed' = (changed \/ answer[n] \notin {"none", o})

\* The exact outcome is still known: publish it again.
Resend(n) ==
    /\ Recorded(session, n)
    /\ Tell(n, session.outs[n])
    /\ UNCHANGED <<session, executed, bailed>>

\* The session's fence answers.
Fenced(n) ==
    /\ RejectionFenceFor(session, n)
    /\ Tell(n, "rejected")
    /\ UNCHANGED <<session, executed, bailed>>

\* Pruned below the watermark: a snapshot resends the watermark, nothing runs.
PrunedDuplicate(n) ==
    /\ IsTerminallyResolved(session, n)
    /\ ~Recorded(session, n) /\ ~RejectionFenceFor(session, n)
    /\ UNCHANGED sessionVars

\* The sparse window is exhausted: reject this sequence and everything above.
FenceOff(n) ==
    /\ ~IsTerminallyResolved(session, n)
    /\ SparseWindowIsFull(session, n)
    /\ session' = InstallRejectionFence(session, n)
    /\ Tell(n, "rejected")
    /\ UNCHANGED <<executed, bailed>>

\* A new command: authorize and process it, record its outcome, publish it.
Decide(n, o) ==
    /\ ~IsTerminallyResolved(session, n)
    /\ ~SparseWindowIsFull(session, n)
    /\ CanRecord(session, n)
    /\ session' = Record(session, n, o)
    /\ executed' = [executed EXCEPT ![n] = @ + 1]
    /\ bailed' = (bailed \/ RecordBails(session, n))
    /\ Tell(n, o)

SessionNext ==
    \E n \in Sequences :
        \/ Resend(n) \/ Fenced(n) \/ PrunedDuplicate(n) \/ FenceOff(n)
        \/ \E o \in Outcomes : Decide(n, o)

SessionSpec == SessionInit /\ [][SessionNext]_sessionVars

-----------------------------------------------------------------------------
(* Properties.                                                             *)

\* No arrival order of commands and resends runs a command twice, although
\* only MaxResults outcomes are remembered.
AtMostOnce == \A n \in Sequences : executed[n] <= 1

\* What a client was told about a sequence is never contradicted later, not by
\* a fence installed or lowered after the answer either.
AnswersStable == ~changed

\* The watermark claims exactly what was decided: every sequence at or below
\* it was, and none that was decided is forgotten.
WatermarkExact ==
    \A n \in Sequences :
        /\ n <= session.through => executed[n] = 1
        /\ answer[n] # "none" => IsTerminallyResolved(session, n)

\* The two bounds of the record hold together: memory is bounded, and the
\* retention pass never has to discard an outcome above the watermark.
RetentionBounded ==
    /\ Cardinality(DOMAIN session.outs) <= MaxResults
    /\ Cardinality(Sparse(session)) <= MaxResults
    /\ ~bailed

\* The four together, over the types they presuppose.
SessionExact ==
    SessionTypeOK /\ AtMostOnce /\ AnswersStable /\ WatermarkExact /\ RetentionBounded

====
