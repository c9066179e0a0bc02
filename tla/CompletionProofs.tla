---- MODULE CompletionProofs ----
(***************************************************************************)
(* One result per match, paid once: the completion record and its drain,   *)
(* proved for every number of executor terms and faults.                   *)
(***************************************************************************)
EXTENDS Completion, TLAPS, FiniteSetTheorems

-----------------------------------------------------------------------------
(* The inductive invariant.                                                *)

\* A process that runs holds the lease of the latest term; nothing of a stopped
\* one is left but what it sent.
TermsInv ==
    /\ solo \in BOOLEAN
    /\ lease \in {0, terms}
    /\ up => lease = terms /\ terms # 0
    /\ ~up => actor = NoActor /\ drain = Idle
    /\ \A r \in flight : r.term <= terms

\* A term sends one commit, whose revision names the term, and sends it only
\* when its actor is through with the game.
CommitsInv ==
    /\ \A r \in flight : r.kind = "commit" => r.rev = r.term /\ r.effect = "none"
    /\ actor.phase \in {"ready", "committing"} => actor.rev = terms
    /\ actor.phase \in {"playing", "over", "ready"}
          => \A r \in flight : r.kind = "commit" => r.term # terms

\* Until a commit is accepted nothing of it exists; afterwards one revision is
\* published, every part of the record names it, and the commits still in flight
\* are those of earlier terms.
ResultInv ==
    /\ active => /\ published = {} /\ record = 0 /\ notified = 0 /\ anchor = 0
                 /\ drain = Idle
                 /\ \A r \in flight : r.kind = "commit"
    /\ ~active => /\ published # {}
                  /\ actor.phase \in {"none", "cancelled"}
                  /\ \A r \in flight, q \in published : r.kind = "commit" => r.term < q
    /\ \A p, q \in published : p = q
    /\ \A p \in published : p <= terms
    /\ record \in {0} \cup published /\ notified \in {0} \cup published
    /\ anchor \in {0} \cup published
    /\ drain.phase # "idle" => drain.rev \in published
    /\ \A r \in flight : r.kind # "commit" => r.rev \in published /\ r.effect \in Effects

\* An effect is recorded as done only after its marker, and a marker was paid for
\* once.
PaidInv ==
    /\ drain.phase # "idle" => drain.at >= 1
    /\ drain.phase \in {"applying", "applied", "marking"} => drain.at <= Len(EffectOrder)
    /\ drain.phase \in {"applied", "marking"} => Effect \in markers
    /\ drain.phase \notin {"idle", "clean"} => ~matched
    /\ \A r \in flight : r.kind = "mark" => r.effect \in markers /\ ~matched
    /\ done \subseteq markers
    /\ \A e \in Effects : paid[e] = IF e \in markers THEN 1 ELSE 0
    /\ ~journal => "game" \in markers
    /\ ~active /\ ~pending => markers = Effects /\ ~matched

Inv == TypeOK /\ TermsInv /\ CommitsInv /\ ResultInv /\ PaidInv
-----------------------------------------------------------------------------
(* Steps.                                                                  *)

\* What the two effect lists have in common.
LEMMA EffectFacts ==
    ASSUME solo \in BOOLEAN
    PROVE  /\ Len(EffectOrder) \in Nat /\ Len(EffectOrder) >= 1
           /\ DOMAIN EffectOrder = 1 .. Len(EffectOrder)
           /\ \A i \in 1 .. Len(EffectOrder) : EffectOrder[i] \in Effects
           /\ "game" \in Effects /\ "none" \notin Effects
  <1>1. CASE solo
    <2>1. EffectOrder = <<"xp", "game", "high_score">> BY <1>1 DEF EffectOrder
    <2>2. Len(EffectOrder) = 3 /\ DOMAIN EffectOrder = 1 .. 3 BY <2>1
    <2>3. Effects = {"xp", "game", "high_score"} BY <2>1, <2>2 DEF Effects, Range
    <2>4. \A i \in 1 .. 3 : EffectOrder[i] \in Effects BY <2>2 DEF Effects, Range
    <2> QED BY <2>2, <2>3, <2>4
  <1>2. CASE ~solo
    <2>1. EffectOrder = <<"xp", "mmr", "ranking", "game">> BY <1>2 DEF EffectOrder
    <2>2. Len(EffectOrder) = 4 /\ DOMAIN EffectOrder = 1 .. 4 BY <2>1
    <2>3. Effects = {"xp", "mmr", "ranking", "game"} BY <2>1, <2>2 DEF Effects, Range
    <2>4. \A i \in 1 .. 4 : EffectOrder[i] \in Effects BY <2>2 DEF Effects, Range
    <2> QED BY <2>2, <2>3, <2>4
  <1> QED BY <1>1, <1>2

\* The effects of a match never change.
LEMMA EffectsFixed ==
    ASSUME UNCHANGED solo PROVE Effects' = Effects /\ EffectOrder' = EffectOrder
  BY DEF Effects, EffectOrder

\* What drain may be set to keeps its type.
Drains == [phase : {"idle", "clean", "effect", "applying", "applied", "marking"},
           rev : 0 .. MaxTerms, seen : SUBSET Effects, at : 0 .. Len(EffectOrder) + 1]

\* What the drain moves on to is again a state of the drain.
LEMMA DrainTyped ==
    ASSUME Inv
    PROVE  /\ drain \in Drains /\ Idle \in Drains
           /\ \A ph \in {"clean", "effect", "applying", "applied", "marking"} :
                 [drain EXCEPT !.phase = ph] \in Drains
           /\ drain.at <= Len(EffectOrder) => NextEffect \in Drains
  <1>1. Len(EffectOrder) \in Nat BY EffectFacts DEF Inv, TermsInv
  <1>2. drain \in Drains BY DEF Inv, TypeOK, Drains
  <1>3. Idle \in Drains BY <1>1, BoundsAssumption DEF Idle, Drains
  <1>4. \A ph \in {"clean", "effect", "applying", "applied", "marking"} :
           [drain EXCEPT !.phase = ph] \in Drains
    BY <1>2 DEF Drains
  <1>5. ASSUME drain.at <= Len(EffectOrder) PROVE NextEffect \in Drains
    <2>1. drain.at + 1 \in 0 .. Len(EffectOrder) + 1 BY <1>1, <1>2, <1>5 DEF Drains
    <2> QED BY <1>2, <2>1 DEF NextEffect, Drains
  <1> QED BY <1>2, <1>3, <1>4, <1>5

\* The effect under way is one of the match's.
LEMMA EffectTyped ==
    ASSUME Inv, drain.phase # "idle", drain.at <= Len(EffectOrder) PROVE Effect \in Effects
  <1>1. drain.at \in 1 .. Len(EffectOrder)
    BY EffectFacts DEF Inv, TermsInv, TypeOK, PaidInv
  <1> QED BY <1>1, EffectFacts DEF Inv, TermsInv, Effect

\* A request in flight, of the latest term.
Requests == [kind : {"commit", "apply", "mark"}, term : Terms, rev : Terms,
             effect : Effects \cup {"none"}]

\* A request names the current term, and what it is about.
LEMMA RequestTyped ==
    ASSUME Inv, up, NEW k \in {"commit", "apply", "mark"}, NEW v \in Terms,
           NEW e \in Effects \cup {"none"}
    PROVE  /\ Request(k, v, e) \in Requests
           /\ Request(k, v, e).kind = k /\ Request(k, v, e).term = terms
           /\ Request(k, v, e).rev = v /\ Request(k, v, e).effect = e
  <1>1. lease \in Terms /\ lease = terms BY BoundsAssumption DEF Inv, TermsInv, TypeOK, Terms
  <1> QED BY <1>1 DEF Request, Requests

\* A new term starts with nothing of the old one but its requests in flight.
LEMMA TakeoverInv ==
    ASSUME Inv, Takeover, UNCHANGED solo PROVE Inv'
  <1>0. Effects' = Effects /\ EffectOrder' = EffectOrder BY EffectsFixed
  <1>1. TypeOK' BY <1>0, BoundsAssumption DEF Inv, TypeOK, Takeover, redis, dynamo, NoActor
  <1>2. TermsInv' BY DEF Inv, TypeOK, TermsInv, Takeover, Terms
  <1>3. CommitsInv' BY DEF Inv, TypeOK, TermsInv, CommitsInv, Takeover, NoActor
  <1>4. ResultInv'
    BY <1>0 DEF Inv, TypeOK, ResultInv, Takeover, redis, dynamo, NoActor, Terms
  <1>5. PaidInv' BY <1>0 DEF Inv, PaidInv, Takeover, redis, dynamo, Effect
  <1> QED BY <1>1, <1>2, <1>3, <1>4, <1>5 DEF Inv

\* A term stops: its actor and its drain are gone.
LEMMA TermStopsInv ==
    ASSUME Inv, TermStops, UNCHANGED solo PROVE Inv'
  <1>0. Effects' = Effects /\ EffectOrder' = EffectOrder BY EffectsFixed
  <1>1. TypeOK'
    <2>1. drain' \in Drains /\ Drains' = Drains
      BY <1>0, DrainTyped DEF TermStops, Stopped, Drains
    <2>2. up' \in BOOLEAN BY DEF TermStops, Stopped
    <2>3. actor' \in [phase : {"none", "playing", "over", "ready", "committing", "cancelled"},
                      rev : 0 .. MaxTerms]
      BY BoundsAssumption DEF TermStops, Stopped, NoActor
    <2>4. UNCHANGED <<lease, redis, dynamo, flight, terms, published>> BY DEF TermStops
    <2>5. faults' \in 0 .. MaxFaults BY BoundsAssumption DEF TermStops, Inv, TypeOK
    <2> QED BY <1>0, <2>1, <2>2, <2>3, <2>4, <2>5 DEF Inv, TypeOK, Drains, redis, dynamo
  <1>2. TermsInv' BY DEF Inv, TermsInv, TermStops, Stopped
  <1>3. CommitsInv' BY DEF Inv, CommitsInv, TermStops, NoActor, Stopped
  <1>4. ResultInv'
    BY <1>0 DEF Inv, ResultInv, TermStops, redis, dynamo, NoActor, Idle, Stopped
  <1>5. PaidInv' BY <1>0 DEF Inv, PaidInv, TermStops, redis, dynamo, Idle, Stopped
  <1> QED BY <1>1, <1>2, <1>3, <1>4, <1>5 DEF Inv

\* The lease runs out after its process stopped.
LEMMA LeaseEndsInv ==
    ASSUME Inv, LeaseEnds, UNCHANGED solo PROVE Inv'
  <1>0. Effects' = Effects /\ EffectOrder' = EffectOrder BY EffectsFixed
  <1>1. TypeOK' BY <1>0, BoundsAssumption DEF Inv, TypeOK, LeaseEnds, redis, dynamo
  <1>2. TermsInv' BY DEF Inv, TermsInv, LeaseEnds
  <1>3. CommitsInv' BY DEF Inv, CommitsInv, LeaseEnds
  <1>4. ResultInv' BY <1>0 DEF Inv, ResultInv, LeaseEnds, redis, dynamo
  <1>5. PaidInv' BY <1>0 DEF Inv, PaidInv, LeaseEnds, redis, dynamo, Effect
  <1> QED BY <1>1, <1>2, <1>3, <1>4, <1>5 DEF Inv

\* The game ends in the actor alone.
LEMMA GameOverInv ==
    ASSUME Inv, GameOver, UNCHANGED solo PROVE Inv'
  <1>0. Effects' = Effects /\ EffectOrder' = EffectOrder BY EffectsFixed
  <1>1. TypeOK' BY <1>0 DEF Inv, TypeOK, GameOver, redis, dynamo
  <1>2. TermsInv' BY DEF Inv, TermsInv, GameOver
  <1>3. CommitsInv' BY DEF Inv, CommitsInv, GameOver
  <1>4. ResultInv' BY DEF Inv, ResultInv, GameOver, redis, dynamo
  <1>5. PaidInv' BY <1>0 DEF Inv, PaidInv, GameOver, redis, dynamo, Effect
  <1> QED BY <1>1, <1>2, <1>3, <1>4, <1>5 DEF Inv

\* The result is materialized under the term's revision.
LEMMA MaterializeInv ==
    ASSUME Inv, Materialize, UNCHANGED solo PROVE Inv'
  <1>0. Effects' = Effects /\ EffectOrder' = EffectOrder BY EffectsFixed
  <1>1. TypeOK' BY <1>0 DEF Inv, TypeOK, Materialize, redis, dynamo
  <1>2. TermsInv' BY DEF Inv, TermsInv, Materialize
  <1>3. CommitsInv' BY DEF Inv, CommitsInv, Materialize
  <1>4. ResultInv' BY DEF Inv, ResultInv, Materialize, redis, dynamo
  <1>5. PaidInv' BY <1>0 DEF Inv, PaidInv, Materialize, redis, dynamo, Effect
  <1> QED BY <1>1, <1>2, <1>3, <1>4, <1>5 DEF Inv

\* The commit sent is the term's only one.
LEMMA SendCommitInv ==
    ASSUME Inv, SendCommit, UNCHANGED solo PROVE Inv'
  <1>0. Effects' = Effects /\ EffectOrder' = EffectOrder BY EffectsFixed
  <1>1. TypeOK'
    BY <1>0
    DEF Inv, TypeOK, TermsInv, CommitsInv, ResultInv, SendCommit, redis, dynamo, NoActor,
        Idle, Terms, Request
  <1>2. TermsInv' BY DEF Inv, TypeOK, TermsInv, SendCommit, Request
  <1>3. CommitsInv' BY DEF Inv, TermsInv, CommitsInv, SendCommit, Request
  <1>4. ResultInv' BY DEF Inv, ResultInv, SendCommit, redis, dynamo, Request
  <1>5. PaidInv' BY <1>0 DEF Inv, PaidInv, SendCommit, redis, dynamo, Effect, Request
  <1> QED BY <1>1, <1>2, <1>3, <1>4, <1>5 DEF Inv

\* A handoff cancels the actor; a commit it sent may still arrive.
LEMMA HandoffCancelsInv ==
    ASSUME Inv, HandoffCancels, UNCHANGED solo PROVE Inv'
  <1>0. Effects' = Effects /\ EffectOrder' = EffectOrder BY EffectsFixed
  <1>1. TypeOK' BY <1>0 DEF Inv, TypeOK, HandoffCancels, redis, dynamo
  <1>2. TermsInv' BY DEF Inv, TermsInv, HandoffCancels
  <1>3. CommitsInv' BY DEF Inv, CommitsInv, HandoffCancels
  <1>4. ResultInv' BY DEF Inv, ResultInv, HandoffCancels, redis, dynamo
  <1>5. PaidInv' BY <1>0 DEF Inv, PaidInv, HandoffCancels, redis, dynamo, Effect
  <1> QED BY <1>1, <1>2, <1>3, <1>4, <1>5 DEF Inv

\* A commit that times out stops the term; the commit may still arrive.
LEMMA CommitTimesOutInv ==
    ASSUME Inv, CommitTimesOut, UNCHANGED solo PROVE Inv'
  <1>0. Effects' = Effects /\ EffectOrder' = EffectOrder BY EffectsFixed
  <1>1. TypeOK'
    <2>1. drain' \in Drains /\ Drains' = Drains
      BY <1>0, DrainTyped DEF CommitTimesOut, Stopped, Drains
    <2>2. up' \in BOOLEAN BY DEF CommitTimesOut, Stopped
    <2>3. actor' \in [phase : {"none", "playing", "over", "ready", "committing", "cancelled"},
                      rev : 0 .. MaxTerms]
      BY BoundsAssumption DEF CommitTimesOut, Stopped, NoActor
    <2>4. UNCHANGED <<lease, redis, dynamo, flight, terms, published>> BY DEF CommitTimesOut
    <2>5. faults' \in 0 .. MaxFaults BY BoundsAssumption DEF CommitTimesOut, Inv, TypeOK
    <2> QED BY <1>0, <2>1, <2>2, <2>3, <2>4, <2>5 DEF Inv, TypeOK, Drains, redis, dynamo
  <1>2. TermsInv' BY DEF Inv, TermsInv, CommitTimesOut, Stopped
  <1>3. CommitsInv' BY DEF Inv, CommitsInv, CommitTimesOut, NoActor, Stopped
  <1>4. ResultInv' BY DEF Inv, ResultInv, CommitTimesOut, redis, dynamo, Stopped
  <1>5. PaidInv' BY <1>0 DEF Inv, PaidInv, CommitTimesOut, redis, dynamo, Idle, Stopped
  <1> QED BY <1>1, <1>2, <1>3, <1>4, <1>5 DEF Inv

\* The drain loads the record of the published revision.
LEMMA DrainLoadInv ==
    ASSUME Inv, DrainLoad, UNCHANGED solo PROVE Inv'
  <1>0. Effects' = Effects /\ EffectOrder' = EffectOrder BY EffectsFixed
  <1>1. TypeOK' BY <1>0 DEF Inv, TypeOK, DrainLoad, redis, dynamo
  <1>2. TermsInv' BY DEF Inv, TermsInv, DrainLoad
  <1>3. CommitsInv' BY DEF Inv, CommitsInv, DrainLoad
  <1>4. ResultInv' BY <1>0 DEF Inv, ResultInv, DrainLoad, redis, dynamo
  <1>5. PaidInv' BY <1>0 DEF Inv, PaidInv, DrainLoad, redis, dynamo
  <1> QED BY <1>1, <1>2, <1>3, <1>4, <1>5 DEF Inv

\* The match's entries are cleaned before the first effect.
LEMMA DrainCleansMatchInv ==
    ASSUME Inv, DrainCleansMatch, UNCHANGED solo PROVE Inv'
  <1>0. Effects' = Effects /\ EffectOrder' = EffectOrder BY EffectsFixed
  <1>1. TypeOK' BY <1>0 DEF Inv, TypeOK, DrainCleansMatch, redis, dynamo
  <1>2. TermsInv' BY DEF Inv, TermsInv, DrainCleansMatch
  <1>3. CommitsInv' BY DEF Inv, CommitsInv, DrainCleansMatch
  <1>4. ResultInv' BY <1>0 DEF Inv, ResultInv, DrainCleansMatch, dynamo
  <1>5. PaidInv' BY <1>0 DEF Inv, PaidInv, DrainCleansMatch, dynamo
  <1> QED BY <1>1, <1>2, <1>3, <1>4, <1>5 DEF Inv

\* The drain passes over effects recorded as done.
LEMMA DrainSkipsInv ==
    ASSUME Inv, DrainSkips, UNCHANGED solo PROVE Inv'
  <1>0. Effects' = Effects /\ EffectOrder' = EffectOrder BY EffectsFixed
  <1>a. solo \in BOOLEAN BY DEF Inv, TermsInv
  <1>1. TypeOK'
    <2>1. drain' \in Drains /\ Drains' = Drains
      <3>1. Len(EffectOrder) \in Nat BY <1>a, EffectFacts
      <3>2. drain.at > Len(EffectOrder) \/ drain.at <= Len(EffectOrder)
        BY <3>1 DEF Inv, TypeOK
      <3> QED BY <1>0, <3>2, DrainTyped DEF DrainSkips, Drains
    <2> QED BY <1>0, <2>1 DEF Inv, TypeOK, Drains, DrainSkips, redis, dynamo
  <1>2. TermsInv' BY DEF Inv, TermsInv, DrainSkips
  <1>3. CommitsInv' BY DEF Inv, CommitsInv, DrainSkips
  <1>4. ResultInv' BY <1>0 DEF Inv, ResultInv, DrainSkips, redis, dynamo, Idle, NextEffect
  <1>5. PaidInv'
    BY <1>0 DEF Inv, TypeOK, PaidInv, DrainSkips, redis, dynamo, Idle, NextEffect
  <1> QED BY <1>1, <1>2, <1>3, <1>4, <1>5 DEF Inv

\* The request to apply an effect names the published revision.
LEMMA DrainAppliesInv ==
    ASSUME Inv, DrainApplies, UNCHANGED solo PROVE Inv'
  <1>0. Effects' = Effects /\ EffectOrder' = EffectOrder BY EffectsFixed
  <1>b. /\ up /\ drain.phase = "effect" /\ drain.at <= Len(EffectOrder)
        /\ UNCHANGED <<lease, redis, dynamo, up, actor, terms, faults, published>>
    BY DEF DrainApplies
  <1>c. ~active /\ drain.rev \in published /\ drain.rev \in Terms /\ Effect \in Effects
    BY <1>b, EffectTyped DEF Inv, ResultInv, TypeOK
  <1>d. PICK q : q = Request("apply", drain.rev, Effect) OBVIOUS
  <1>e. /\ q \in Requests /\ q.kind = "apply" /\ q.term = terms
        /\ q.rev = drain.rev /\ q.effect = Effect
    BY <1>b, <1>c, <1>d, RequestTyped
  <1>f. \/ drain' = Idle /\ flight' = flight
        \/ drain' = [drain EXCEPT !.phase = "applying"] /\ flight' = flight \cup {q}
    BY <1>d DEF DrainApplies
  <1>1. TypeOK'
    <2>1. drain' \in Drains /\ Drains' = Drains BY <1>0, <1>f, DrainTyped DEF Drains
    <2>2. flight' \subseteq Requests /\ Requests' = Requests
      BY <1>0, <1>e, <1>f DEF Inv, TypeOK, Requests
    <2> QED BY <1>0, <1>b, <2>1, <2>2 DEF Inv, TypeOK, Drains, Requests, redis, dynamo
  <1>2. TermsInv' BY <1>b, <1>e, <1>f DEF Inv, TypeOK, TermsInv
  <1>3. CommitsInv' BY <1>b, <1>e, <1>f DEF Inv, CommitsInv
  <1>4. ResultInv'
    BY <1>0, <1>b, <1>c, <1>e, <1>f DEF Inv, TypeOK, ResultInv, Idle, redis, dynamo
  <1>5. PaidInv'
    BY <1>0, <1>b, <1>c, <1>e, <1>f DEF Inv, TypeOK, PaidInv, Idle, Effect, redis, dynamo
  <1> QED BY <1>1, <1>2, <1>3, <1>4, <1>5 DEF Inv

\* An effect is marked done only once its marker exists.
LEMMA DrainMarksInv ==
    ASSUME Inv, DrainMarks, UNCHANGED solo PROVE Inv'
  <1>0. Effects' = Effects /\ EffectOrder' = EffectOrder BY EffectsFixed
  <1>b. /\ up /\ drain.phase = "applied"
        /\ UNCHANGED <<lease, redis, dynamo, up, actor, terms, faults, published>>
    BY DEF DrainMarks, ReadyToMark
  <1>c. /\ ~active /\ drain.rev \in published /\ drain.rev \in Terms
        /\ drain.at <= Len(EffectOrder) /\ Effect \in Effects /\ Effect \in markers
        /\ ~matched
    BY <1>b DEF Inv, ResultInv, PaidInv, TypeOK
  <1>d. PICK q : q = Request("mark", drain.rev, Effect) OBVIOUS
  <1>e. /\ q \in Requests /\ q.kind = "mark" /\ q.term = terms
        /\ q.rev = drain.rev /\ q.effect = Effect
    BY <1>b, <1>c, <1>d, RequestTyped
  <1>f. drain' = [drain EXCEPT !.phase = "marking"] /\ flight' = flight \cup {q}
    BY <1>d DEF DrainMarks
  <1>1. TypeOK'
    <2>1. drain' \in Drains /\ Drains' = Drains BY <1>0, <1>f, DrainTyped DEF Drains
    <2>2. flight' \subseteq Requests /\ Requests' = Requests
      BY <1>0, <1>e, <1>f DEF Inv, TypeOK, Requests
    <2> QED BY <1>0, <1>b, <2>1, <2>2 DEF Inv, TypeOK, Drains, Requests, redis, dynamo
  <1>2. TermsInv' BY <1>b, <1>e, <1>f DEF Inv, TypeOK, TermsInv
  <1>3. CommitsInv' BY <1>b, <1>e, <1>f DEF Inv, CommitsInv
  <1>4. ResultInv' BY <1>0, <1>b, <1>c, <1>e, <1>f DEF Inv, ResultInv, redis, dynamo
  <1>5. PaidInv' BY <1>0, <1>b, <1>e, <1>f DEF Inv, PaidInv, Effect, redis, dynamo
  <1> QED BY <1>1, <1>2, <1>3, <1>4, <1>5 DEF Inv

\* The completion record runs out once nothing of it is pending.
LEMMA RecordExpiresInv ==
    ASSUME Inv, RecordExpires, UNCHANGED solo PROVE Inv'
  <1>0. Effects' = Effects /\ EffectOrder' = EffectOrder BY EffectsFixed
  <1>1. TypeOK' BY <1>0, BoundsAssumption DEF Inv, TypeOK, RecordExpires, dynamo
  <1>2. TermsInv' BY DEF Inv, TermsInv, RecordExpires
  <1>3. CommitsInv' BY DEF Inv, CommitsInv, RecordExpires
  <1>4. ResultInv' BY <1>0 DEF Inv, ResultInv, RecordExpires, dynamo
  <1>5. PaidInv' BY <1>0 DEF Inv, PaidInv, RecordExpires, dynamo, Effect
  <1> QED BY <1>1, <1>2, <1>3, <1>4, <1>5 DEF Inv

\* A commit arrives: the first of the current lease decides the result, every
\* other is refused.
LEMMA RunCommitInv ==
    ASSUME Inv, NEW r \in flight, RunCommit(r), UNCHANGED solo PROVE Inv'
  <1>0. Effects' = Effects /\ EffectOrder' = EffectOrder BY EffectsFixed
  <1>b. /\ r.kind = "commit" /\ flight' = flight \ {r}
        /\ UNCHANGED <<lease, dynamo, terms, faults, done, journal, matched>>
    BY DEF RunCommit, redis
  <1>c. r.rev = r.term /\ r.term \in Terms /\ r.rev \in 0 .. MaxTerms
    BY <1>b DEF Inv, CommitsInv, TypeOK, Terms
  \* A commit of the current term finds its game still on, and is the only one.
  <1>d. CASE CommitAccepted(r)
    <2>1. r.term = terms /\ r.term = lease
      BY <1>c, <1>d DEF CommitAccepted, Inv, TermsInv, Terms
    <2>2. active /\ published = {} /\ notified = 0 /\ drain = Idle /\ anchor = 0
      <3>1. ASSUME ~active PROVE FALSE
        <4>1. PICK q \in published : r.term < q /\ q <= terms
          BY <1>b, <3>1 DEF Inv, ResultInv
        <4>2. q \in Int /\ terms \in Int BY DEF Inv, TypeOK, Terms
        <4> QED BY <2>1, <4>1, <4>2
      <3> QED BY <3>1 DEF Inv, ResultInv
    <2>3. \A q \in flight : q.kind = "commit" /\ (q # r => q.term < terms)
      <3>1. \A q \in flight : q.kind = "commit" /\ q.rev = q.term /\ q.effect = "none"
        BY <2>2 DEF Inv, ResultInv, CommitsInv
      <3>2. ASSUME NEW q \in flight, q.term = terms PROVE q = r
        BY <2>1, <3>1, <3>2 DEF Inv, TypeOK
      <3> QED BY <3>1, <3>2 DEF Inv, TermsInv, TypeOK, Terms
    <2>4. /\ record' = r.rev /\ notified' = r.rev /\ active' = FALSE /\ pending' = TRUE
          /\ published' = {r.rev} /\ UNCHANGED <<up, drain>>
      BY <1>d, <2>2 DEF RunCommit
    <2>5. /\ actor' \in {actor, NoActor}
          /\ actor' = NoActor \/ ~(up /\ actor.phase = "committing" /\ actor.rev = r.rev)
      BY <1>d DEF RunCommit
    <2>6. actor'.phase \in {"none", "cancelled"}
      <3>1. actor.phase \notin {"playing", "over", "ready"}
        BY <1>b, <2>1 DEF Inv, CommitsInv
      <3>2. actor.phase = "committing" => actor.rev = r.rev
        BY <1>c, <2>1 DEF Inv, CommitsInv
      <3>3. ~up => actor.phase = "none" BY DEF Inv, TermsInv, NoActor
      <3> QED BY <2>5, <3>1, <3>2, <3>3 DEF Inv, TypeOK, NoActor
    <2>7. TypeOK'
      <3>1. actor' \in [phase : {"none", "playing", "over", "ready", "committing",
                                "cancelled"},
                        rev : 0 .. MaxTerms]
        BY <2>5, BoundsAssumption DEF NoActor, Inv, TypeOK
      <3> QED BY <1>0, <1>b, <1>c, <2>4, <3>1 DEF Inv, TypeOK, dynamo
    <2>8. TermsInv' BY <1>b, <2>4, <2>5 DEF Inv, TermsInv
    <2>9. CommitsInv' BY <1>b, <2>5, <2>6 DEF Inv, CommitsInv
    <2>10. ResultInv'
      BY <1>b, <1>c, <2>1, <2>2, <2>3, <2>4, <2>6 DEF ResultInv, dynamo, Idle
    <2>11. PaidInv'
      BY <1>0, <1>b, <2>2, <2>4 DEF Inv, PaidInv, Idle, dynamo
    <2> QED BY <2>7, <2>8, <2>9, <2>10, <2>11 DEF Inv
  <1>e. CASE ~CommitAccepted(r)
    <2>1. /\ UNCHANGED <<redis, published>>
          /\ Stopped \/ UNCHANGED <<up, actor, drain>>
      BY <1>e DEF RunCommit
    <2>2. TypeOK'
      <3>1. drain' \in Drains /\ Drains' = Drains
        BY <1>0, <2>1, DrainTyped DEF Drains, Stopped
      <3>2. up' \in BOOLEAN BY <2>1 DEF Stopped, Inv, TypeOK
      <3>3. actor' \in [phase : {"none", "playing", "over", "ready", "committing",
                                "cancelled"},
                        rev : 0 .. MaxTerms]
        BY <2>1, BoundsAssumption DEF Stopped, NoActor, Inv, TypeOK
      <3> QED BY <1>0, <1>b, <2>1, <3>1, <3>2, <3>3 DEF Inv, TypeOK, Drains, redis, dynamo
    <2>3. TermsInv' BY <1>b, <2>1 DEF Inv, TermsInv, Stopped
    <2>4. CommitsInv' BY <1>b, <2>1 DEF Inv, CommitsInv, Stopped, NoActor
    <2>5. ResultInv'
      BY <1>0, <1>b, <2>1 DEF Inv, ResultInv, Stopped, NoActor, Idle, redis, dynamo
    <2>6. PaidInv'
      BY <1>0, <1>b, <2>1 DEF Inv, PaidInv, Stopped, Idle, Effect, redis, dynamo
    <2> QED BY <2>2, <2>3, <2>4, <2>5, <2>6 DEF Inv
  <1> QED BY <1>d, <1>e

\* An effect arrives: paid with its marker, or already there.
LEMMA RunApplyInv ==
    ASSUME Inv, NEW r \in flight, RunApply(r), UNCHANGED solo PROVE Inv'
  <1>0. Effects' = Effects /\ EffectOrder' = EffectOrder BY EffectsFixed
  <1>b. /\ r.kind = "apply" /\ flight' = flight \ {r}
        /\ UNCHANGED <<lease, redis, up, actor, terms, faults, published>>
    BY DEF RunApply
  <1>c. ~active /\ r.rev \in published /\ r.rev \in 0 .. MaxTerms /\ r.effect \in Effects
    BY <1>b DEF Inv, ResultInv, TypeOK, Terms
  <1>d. \/ UNCHANGED dynamo
        \/ /\ r.effect \notin markers
           /\ markers' = markers \cup {r.effect} /\ anchor' = r.rev
           /\ paid' = [paid EXCEPT ![r.effect] = @ + 1]
    BY DEF RunApply, Applicable
  <1>e. \/ drain' = drain
        \/ drain' = Idle
        \/ /\ drain' = [drain EXCEPT !.phase = "applied"] /\ drain.phase = "applying"
           /\ Effect = r.effect /\ r.effect \in markers'
    BY <1>b DEF RunApply, Awaited
  <1>f. markers \subseteq markers' BY <1>d DEF dynamo
  <1>1. TypeOK'
    <2>1. drain' \in Drains /\ Drains' = Drains BY <1>0, <1>e, DrainTyped DEF Drains
    <2>2. anchor' \in 0 .. MaxTerms /\ markers' \subseteq Effects /\ paid' \in [Effects -> Nat]
      BY <1>c, <1>d DEF Inv, TypeOK, dynamo
    <2> QED BY <1>0, <1>b, <2>1, <2>2 DEF Inv, TypeOK, Drains, redis
  <1>2. TermsInv' BY <1>b, <1>e DEF Inv, TermsInv, Idle
  <1>3. CommitsInv' BY <1>b DEF Inv, CommitsInv
  <1>4. ResultInv'
    BY <1>0, <1>b, <1>c, <1>d, <1>e DEF Inv, TypeOK, ResultInv, Idle, redis, dynamo
  <1>5. PaidInv'
    <2>1. \A e \in Effects : paid'[e] = IF e \in markers' THEN 1 ELSE 0
      BY <1>d DEF Inv, TypeOK, PaidInv, dynamo
    <2>2. /\ drain'.phase # "idle" => drain'.at >= 1
          /\ drain'.phase \in {"applying", "applied", "marking"}
                => drain'.at <= Len(EffectOrder)
          /\ drain'.phase \in {"applied", "marking"} => Effect' \in markers'
          /\ drain'.phase \notin {"idle", "clean"} => ~matched'
      BY <1>0, <1>b, <1>e, <1>f DEF Inv, TypeOK, PaidInv, Idle, Effect, redis
    <2>3. /\ done' \subseteq markers'
          /\ ~journal' => "game" \in markers'
          /\ ~active' /\ ~pending' => markers' = Effects /\ ~matched'
          /\ \A q \in flight' : q.kind = "mark" => q.effect \in markers' /\ ~matched'
      BY <1>b, <1>c, <1>d DEF Inv, PaidInv, redis, dynamo
    <2> QED BY <1>0, <2>1, <2>2, <2>3 DEF PaidInv
  <1> QED BY <1>1, <1>2, <1>3, <1>4, <1>5 DEF Inv

\* An effect's call fails: the marker decides whether it was applied.
LEMMA ApplyFailsInv ==
    ASSUME Inv, NEW r \in flight, ApplyFails(r), UNCHANGED solo PROVE Inv'
  <1>0. Effects' = Effects /\ EffectOrder' = EffectOrder BY EffectsFixed
  <1>1. TypeOK'
    <2>1. drain' \in Drains /\ Drains' = Drains BY <1>0, DrainTyped DEF ApplyFails, Drains
    <2>2. faults' \in 0 .. MaxFaults BY BoundsAssumption DEF ApplyFails, Inv, TypeOK
    <2>3. UNCHANGED <<lease, redis, dynamo, up, actor, flight, terms, published>>
      BY DEF ApplyFails
    <2> QED BY <1>0, <2>1, <2>2, <2>3 DEF Inv, TypeOK, Drains, redis, dynamo
  <1>2. TermsInv' BY DEF Inv, TermsInv, ApplyFails, Awaited
  <1>3. CommitsInv' BY DEF Inv, CommitsInv, ApplyFails, redis, dynamo
  <1>4. ResultInv' BY <1>0 DEF Inv, ResultInv, ApplyFails, redis, dynamo, Awaited, Idle
  <1>5. PaidInv' BY <1>0 DEF Inv, PaidInv, ApplyFails, redis, dynamo, Awaited, Idle, Effect
  <1> QED BY <1>1, <1>2, <1>3, <1>4, <1>5 DEF Inv

\* A mark arrives; the last one closes the journal entry.
LEMMA RunMarkInv ==
    ASSUME Inv, NEW r \in flight, RunMark(r), UNCHANGED solo PROVE Inv'
  <1>0. Effects' = Effects /\ EffectOrder' = EffectOrder BY EffectsFixed
  <1>b. /\ r.kind = "mark" /\ flight' = flight \ {r}
        /\ UNCHANGED <<lease, active, record, notified, matched,
                       dynamo, up, actor, terms, faults, published>>
    BY DEF RunMark
  <1>c. ~active /\ r.effect \in Effects /\ r.effect \in markers /\ ~matched
    BY <1>b DEF Inv, ResultInv, PaidInv
  <1>d. \/ UNCHANGED <<done, journal, pending>>
        \/ /\ done' = done \cup {r.effect} /\ journal' = (journal /\ r.effect # "game")
           /\ pending' = (pending /\ done' # Effects)
    BY DEF RunMark, JournalAfterMark
  <1>e. \/ drain' = drain
        \/ drain' = Idle
        \/ drain' = NextEffect /\ drain.phase = "marking"
    BY <1>b DEF RunMark, Awaited
  <1>f. drain' = NextEffect => /\ drain'.phase = "effect" /\ drain'.rev = drain.rev
                               /\ drain'.at = drain.at + 1 /\ drain.at \in Nat
    BY DEF NextEffect, Inv, TypeOK
  <1>g. drain.phase = "marking" => drain.at <= Len(EffectOrder) /\ drain.at >= 1
    BY DEF Inv, PaidInv
  <1>1. TypeOK'
    <2>1. drain' \in Drains /\ Drains' = Drains BY <1>0, <1>e, <1>g, DrainTyped DEF Drains
    <2>2. done' \subseteq Effects /\ journal' \in BOOLEAN /\ pending' \in BOOLEAN
      BY <1>c, <1>d DEF Inv, TypeOK
    <2> QED BY <1>0, <1>b, <2>1, <2>2 DEF Inv, TypeOK, Drains, dynamo
  <1>2. TermsInv' BY <1>b, <1>e DEF Inv, TermsInv, Idle
  <1>3. CommitsInv' BY <1>b DEF Inv, CommitsInv
  <1>4. ResultInv' BY <1>0, <1>b, <1>e, <1>f DEF Inv, ResultInv, Idle, dynamo
  <1>5. PaidInv'
    <2>1. /\ drain'.phase # "idle" => drain'.at >= 1
          /\ drain'.phase \in {"applying", "applied", "marking"}
                => drain'.at <= Len(EffectOrder)
          /\ drain'.phase \in {"applied", "marking"} => Effect' \in markers'
          /\ drain'.phase \notin {"idle", "clean"} => ~matched'
      <3>1. CASE drain' = drain
        BY <1>0, <1>b, <3>1 DEF Inv, PaidInv, Effect, dynamo
      <3>2. CASE drain' = Idle BY <3>2 DEF Idle
      <3>3. CASE drain' = NextEffect /\ drain.phase = "marking"
        BY <1>b, <1>c, <1>f, <1>g, <3>3
      <3> QED BY <1>e, <3>1, <3>2, <3>3
    <2>2. done' \subseteq markers BY <1>c, <1>d DEF Inv, PaidInv
    <2>3. ~journal' => "game" \in markers BY <1>c, <1>d DEF Inv, PaidInv
    <2>4. ~active /\ ~pending' => markers = Effects
      BY <1>d, <2>2 DEF Inv, PaidInv, TypeOK
    <2>5. UNCHANGED <<markers, paid, matched, active>> /\ flight' \subseteq flight
      BY <1>b DEF dynamo
    <2> QED BY <1>0, <1>c, <2>1, <2>2, <2>3, <2>4, <2>5 DEF Inv, PaidInv
  <1> QED BY <1>1, <1>2, <1>3, <1>4, <1>5 DEF Inv

\* A mark's call fails: the drain ends its pass.
LEMMA MarkFailsInv ==
    ASSUME Inv, NEW r \in flight, MarkFails(r), UNCHANGED solo PROVE Inv'
  <1>0. Effects' = Effects /\ EffectOrder' = EffectOrder BY EffectsFixed
  <1>1. TypeOK' BY <1>0, BoundsAssumption DEF Inv, TypeOK, MarkFails, redis, dynamo, Idle
  <1>2. TermsInv' BY DEF Inv, TermsInv, MarkFails
  <1>3. CommitsInv' BY DEF Inv, CommitsInv, MarkFails
  <1>4. ResultInv' BY <1>0 DEF Inv, ResultInv, MarkFails, redis, dynamo, Idle
  <1>5. PaidInv' BY <1>0 DEF Inv, PaidInv, MarkFails, redis, dynamo, Idle
  <1> QED BY <1>1, <1>2, <1>3, <1>4, <1>5 DEF Inv

-----------------------------------------------------------------------------
(* The theorems.                                                           *)

\* It holds before the first term.
LEMMA InitInv == Init => Inv
  <1> SUFFICES ASSUME Init PROVE Inv OBVIOUS
  <1>a. solo \in BOOLEAN BY DEF Init
  <1>1. TypeOK
    <2>1. Len(EffectOrder) \in Nat BY <1>a, EffectFacts
    <2>2. drain \in Drains BY <2>1, BoundsAssumption DEF Init, Idle, Drains
    <2>3. actor \in [phase : {"none", "playing", "over", "ready", "committing", "cancelled"},
                     rev : 0 .. MaxTerms]
      BY BoundsAssumption DEF Init, NoActor
    <2>4. paid \in [Effects -> Nat] BY DEF Init
    <2>5. /\ active \in BOOLEAN /\ pending \in BOOLEAN /\ journal \in BOOLEAN
          /\ matched \in BOOLEAN /\ up \in BOOLEAN
      BY DEF Init
    <2>6. /\ lease \in 0 .. MaxTerms /\ terms \in 0 .. MaxTerms /\ faults \in 0 .. MaxFaults
          /\ record \in 0 .. MaxTerms /\ notified \in 0 .. MaxTerms /\ anchor \in 0 .. MaxTerms
      BY BoundsAssumption DEF Init
    <2>7. flight = {} /\ published = {} /\ done = {} /\ markers = {} BY DEF Init
    <2> QED BY <2>2, <2>3, <2>4, <2>5, <2>6, <2>7 DEF TypeOK, Drains
  <1>2. TermsInv BY BoundsAssumption DEF Init, TermsInv, NoActor, Idle
  <1>3. CommitsInv BY DEF Init, CommitsInv, NoActor
  <1>4. ResultInv BY DEF Init, ResultInv, Idle
  <1>5. PaidInv BY DEF Init, PaidInv, Idle
  <1> QED BY <1>1, <1>2, <1>3, <1>4, <1>5 DEF Inv

\* Every step keeps it.
LEMMA StepInv == Inv /\ [Next]_<<vars, solo>> => Inv'
  <1> SUFFICES ASSUME Inv, [Next]_<<vars, solo>> PROVE Inv' OBVIOUS
  <1>1. CASE UNCHANGED <<vars, solo>>
    <2>1. Effects' = Effects /\ EffectOrder' = EffectOrder BY <1>1, EffectsFixed
    <2> QED
      BY <1>1, <2>1
      DEF Inv, TypeOK, TermsInv, CommitsInv, ResultInv, PaidInv, Effect, vars, redis, dynamo
  <1>2. ASSUME UNCHANGED solo, Takeover \/ TermStops \/ LeaseEnds PROVE Inv'
    BY <1>2, TakeoverInv, TermStopsInv, LeaseEndsInv
  <1>3. ASSUME UNCHANGED solo, GameOver \/ HandoffCancels \/ ActorStep PROVE Inv'
    BY <1>3, GameOverInv, HandoffCancelsInv, MaterializeInv, SendCommitInv DEF ActorStep
  <1>4. ASSUME UNCHANGED solo, DrainStep PROVE Inv'
    BY <1>4, DrainLoadInv, DrainCleansMatchInv, DrainSkipsInv, DrainAppliesInv,
       DrainMarksInv DEF DrainStep
  <1>5. ASSUME UNCHANGED solo, Arrives PROVE Inv'
    BY <1>5, RunCommitInv, RunApplyInv, RunMarkInv DEF Arrives
  <1>6. ASSUME UNCHANGED solo, Fault \/ RecordExpires PROVE Inv'
    BY <1>6, CommitTimesOutInv, ApplyFailsInv, MarkFailsInv, RecordExpiresInv DEF Fault
  <1> QED BY <1>1, <1>2, <1>3, <1>4, <1>5, <1>6 DEF Next

\* The invariant, along every behaviour.
THEOREM CompletionInvariant == Spec => []Inv
  BY InitInv, StepInv, PTL DEF Spec

\* Whichever terms come and go, one result is announced for a match, no term
\* plays it again, and the effects are anchored to that result
\* (commit_completion_record_fenced and transact_completion_effect).
THEOREM ResultIsFinal == Spec => []NoReplayOfResult
  <1>1. Inv => NoReplayOfResult
    <2> SUFFICES ASSUME Inv PROVE NoReplayOfResult OBVIOUS
    <2>1. Cardinality(published) <= 1
      <3>1. CASE published = {} BY <3>1, FS_EmptySet
      <3>2. CASE published # {}
        <4>1. PICK p \in published : published = {p} BY <3>2 DEF Inv, ResultInv
        <4>2. Cardinality({p}) = 1 BY FS_Singleton
        <4> QED BY <4>1, <4>2
      <3> QED BY <3>1, <3>2
    <2>2. ASSUME published # {}
          PROVE  actor.phase \in {"none", "cancelled"} /\ anchor \in {0} \cup published
      BY <2>2 DEF Inv, ResultInv
    <2> QED BY <2>1, <2>2 DEF NoReplayOfResult
  <1> QED BY <1>1, CompletionInvariant, PTL

\* Every effect of a published result is paid at most once, a result that has
\* left the pending index was paid in full, and the replay journal outlives the
\* transaction that archives it (mark_completion_effect_done_fenced).
THEOREM CompletionPaidExactly == Spec => []PaidExactly
  <1>1. Inv => PaidExactly
    <2> SUFFICES ASSUME Inv PROVE PaidExactly OBVIOUS
    <2>1. EffectsOnce BY DEF Inv, PaidInv, EffectsOnce
    <2>2. RetiredMeansPaid
      <3> SUFFICES ASSUME published # {}, ~pending
                   PROVE  (\A e \in Effects : paid[e] = 1) /\ ~matched
        BY DEF RetiredMeansPaid
      <3>1. ~active BY DEF Inv, ResultInv
      <3> QED BY <3>1 DEF Inv, PaidInv
    <2>3. JournalHeld
      <3>1. "game" \in Effects BY EffectFacts DEF Inv, TermsInv
      <3> QED BY <3>1 DEF Inv, PaidInv, JournalHeld
    <2> QED BY <2>1, <2>2, <2>3 DEF PaidExactly, Inv
  <1> QED BY <1>1, CompletionInvariant, PTL

====
